--------------------------- MODULE ScoredMembership ---------------------------
(***************************************************************************)
(* What the scored-pool module promises (srml/scored-pool/src/lib.rs, the *)
(* module documentation), without the pool's sorted vector, the binary    *)
(* search or the deposits: candidates carry an optional score, and the    *)
(* members are, whenever they are recomputed, MemberCount scored          *)
(* candidates none of which scores below a scored candidate left out.     *)
(* Which of equally scored candidates is chosen is not promised.          *)
(***************************************************************************)
EXTENDS Naturals, FiniteSets, Functions

CONSTANTS Accounts, Scores, Counts, NoScore

VARIABLES
  score,      \* candidate -> its score or NoScore; DOMAIN score = the candidates
  members,    \* the set of members
  count       \* MemberCount

avars == <<score, members, count>>

Scored(sc) == {a \in DOMAIN sc : sc[a] # NoScore}

(* The member sets a recomputation may produce: as many scored candidates *)
(* as the count allows, each scoring at least as high as every scored     *)
(* candidate outside the set.                                             *)
TopSets(sc, c) ==
  LET S == Scored(sc)
      n == IF c < Cardinality(S) THEN c ELSE Cardinality(S)
  IN {M \in SUBSET S : Cardinality(M) = n /\ \A m \in M, o \in S \ M : sc[m] >= sc[o]}

Init ==
  /\ score \in UNION {[C -> Scores \cup {NoScore}] : C \in SUBSET Accounts}
  /\ count \in Counts
  /\ members \in TopSets(score, count)

(* A new candidate enters unscored; the members are not touched. *)
Submit(who) ==
  /\ who \notin DOMAIN score
  /\ score' = [a \in DOMAIN score \cup {who} |-> IF a = who THEN NoScore ELSE score[a]]
  /\ UNCHANGED <<members, count>>

(* A candidate leaves (withdraws or is kicked); if it was a member the    *)
(* members are recomputed from the candidates that remain.                *)
Remove(who) ==
  /\ who \in DOMAIN score
  /\ score' = Restrict(score, DOMAIN score \ {who})
  /\ IF who \in members THEN members' \in TopSets(score', count)
                        ELSE members' = members
  /\ UNCHANGED count

(* A candidate is given a score; the members wait for the next refresh. *)
Rescore(who, s) ==
  /\ who \in DOMAIN score
  /\ score' = [score EXCEPT ![who] = s]
  /\ UNCHANGED <<members, count>>

(* The periodic refresh recomputes the members. *)
Refresh ==
  /\ members' \in TopSets(score, count)
  /\ UNCHANGED <<score, count>>

ChangeCount(c) ==
  /\ count' = c
  /\ UNCHANGED <<score, members>>

Next ==
  \/ Refresh
  \/ \E a \in Accounts : Submit(a) \/ Remove(a)
  \/ \E a \in Accounts, s \in Scores : Rescore(a, s)
  \/ \E c \in Counts : ChangeCount(c)

Spec == Init /\ [][Next]_avars
=============================================================================
