------------------------------ MODULE ScoredPool ------------------------------
(***************************************************************************)
(* The scored-pool runtime module (srml/scored-pool/src/lib.rs): a pool of *)
(* candidates kept sorted by score, the Members chosen from it every      *)
(* Period blocks, and the candidacy deposits.                             *)
(*                                                                         *)
(* Dispatchables run one at a time (one extrinsic at a time in a block),  *)
(* so each is one atomic step; a failed `ensure!` leaves storage alone    *)
(* and is the guard of the step.  Origins are abstracted: every call is   *)
(* made by an origin allowed to make it.  Balances are counted in         *)
(* deposits.                                                              *)
(***************************************************************************)
EXTENDS Naturals, Sequences, SequencesExt, FiniteSets

CONSTANTS
  Accounts,     \* AccountIds (ordered as naturals, as Vec::sort orders them)
  Scores,       \* T::Score values a ScoreOrigin may attribute (0 = default)
  Counts,       \* values change_member_count may set, and the genesis value
  Period,       \* T::Period
  NoScore       \* Option::None for a candidate's score

ASSUME /\ Accounts \subseteq Nat /\ Scores \subseteq Nat /\ Counts \subseteq Nat
       /\ Period \in Nat \ {0} /\ NoScore \notin Scores

VARIABLES
  pool,             \* Pool: <<account, score or NoScore>>, descending by score
  candidateExists,  \* CandidateExists: accounts with the map entry set to true
  members,          \* Members: sorted sequence of accounts
  memberCount,      \* MemberCount
  free,             \* free balance of each account, in deposits
  reserved,         \* reserved balance of each account, in deposits
  blk               \* current block number modulo Period

vars == <<pool, candidateExists, members, memberCount, free, reserved, blk>>

Entry == Accounts \X (Scores \cup {NoScore})

(* maybe_score.unwrap_or_default() *)
ScoreKey(e) == IF e[2] = NoScore THEN 0 ELSE e[2]

PoolAccounts(p) == {p[i][1] : i \in 1..Len(p)}

(* ensure_index (0-based index into the pool). *)
EnsureIndex(p, who, index) == index < Len(p) /\ p[index + 1][1] = who

-----------------------------------------------------------------------------
(* slice::binary_search_by_key(&Reverse(score), |e| Reverse(key(e))) as  *)
(* the standard library implements it: halve [base, base + size) keeping *)
(* base on the side whose probe is not Greater, then compare at base.     *)
(* Keys compare reversed: a probe is Greater when its score is smaller.   *)
RECURSIVE BinarySearchFrom(_, _, _, _)
BinarySearchFrom(p, score, base, size) ==
  IF size > 1
  THEN LET mid == base + size \div 2
       IN BinarySearchFrom(p, score, IF ScoreKey(p[mid + 1]) < score THEN base ELSE mid,
                           size - size \div 2)
  ELSE LET k == ScoreKey(p[base + 1])
       IN IF k = score THEN base ELSE IF k > score THEN base + 1 ELSE base

(* Mutant: the scored entry is put back at the end of the pool. *)
InsertLocationAtEnd(p, score) == Len(p)

(* Result::unwrap_or_else(|l| l) of the search: where to insert. *)
InsertLocation(p, score) ==
  IF Len(p) = 0 THEN 0 ELSE BinarySearchFrom(p, score, 0, Len(p))

(* Mutant: refresh_members takes `count` entries before dropping the     *)
(* unscored ones.                                                          *)
TopScoredTakeThenFilter(p, count) ==
  LET n == IF count < Len(p) THEN count ELSE Len(p)
  IN SetToSortSeq({p[i][1] : i \in {j \in 1..n : p[j][2] # NoScore}}, <)

(* refresh_members: the first `count` scored candidates of the pool,     *)
(* sorted by account.                                                     *)
TopScored(p, count) ==
  LET scored == SelectSeq(p, LAMBDA e : e[2] # NoScore)
      n      == IF count < Len(scored) THEN count ELSE Len(scored)
  IN SetToSortSeq({scored[i][1] : i \in 1..n}, <)

(* Mutant: remove_member that leaves the CandidateExists entry. *)
RemoveMemberKeepsExists(who, index) ==
  LET p2 == RemoveAt(pool, index + 1)
  IN /\ EnsureIndex(pool, who, index)
     /\ pool' = p2
     /\ members' = IF who \in ToSet(members) THEN TopScored(p2, memberCount) ELSE members
     /\ free' = [free EXCEPT ![who] = @ + reserved[who]]
     /\ reserved' = [reserved EXCEPT ![who] = 0]
     /\ UNCHANGED <<candidateExists, memberCount, blk>>

(* Mutant: remove_member that does not refresh the members. *)
RemoveMemberNoRefresh(who, index) ==
  LET p2 == RemoveAt(pool, index + 1)
  IN /\ EnsureIndex(pool, who, index)
     /\ pool' = p2
     /\ candidateExists' = candidateExists \ {who}
     /\ free' = [free EXCEPT ![who] = @ + reserved[who]]
     /\ reserved' = [reserved EXCEPT ![who] = 0]
     /\ UNCHANGED <<members, memberCount, blk>>

(* remove_member: take the entity out of the pool; refresh the members if *)
(* it was one (binary_search on the sorted Members); drop its             *)
(* CandidateExists entry and unreserve the deposit.                       *)
RemoveMember(who, index) ==
  LET p2 == RemoveAt(pool, index + 1)
  IN /\ EnsureIndex(pool, who, index)
     /\ pool' = p2
     /\ members' = IF who \in ToSet(members) THEN TopScored(p2, memberCount) ELSE members
     /\ candidateExists' = candidateExists \ {who}
     /\ free' = [free EXCEPT ![who] = @ + reserved[who]]
     /\ reserved' = [reserved EXCEPT ![who] = 0]
     /\ UNCHANGED <<memberCount, blk>>

-----------------------------------------------------------------------------
(* Genesis: each configured candidate reserves a deposit (a genesis that *)
(* cannot is rejected), the pool is stably sorted by                      *)
(* Reverse(score.unwrap_or_default()) (any order of equal keys is the     *)
(* result of some configured order) and the members are refreshed.       *)
Init ==
  \E cfg \in SUBSET Accounts, score \in [Accounts -> Scores \cup {NoScore}],
     funds \in [Accounts -> {0, 1}], count \in Counts :
    \E order \in [1..Cardinality(cfg) -> cfg] :
      LET p == [i \in DOMAIN order |-> <<order[i], score[order[i]]>>]
      IN /\ ToSet(order) = cfg
         /\ \A i \in 1..(Len(p) - 1) : ScoreKey(p[i]) >= ScoreKey(p[i + 1])
         /\ \A a \in cfg : funds[a] = 1
         /\ pool = p
         /\ candidateExists = cfg
         /\ memberCount = count
         /\ members = TopScored(p, count)
         /\ free = [a \in Accounts |-> IF a \in cfg THEN 0 ELSE funds[a]]
         /\ reserved = [a \in Accounts |-> IF a \in cfg THEN 1 ELSE 0]
         /\ blk = 0

(* on_initialize(n): refresh the members when n % Period == 0. *)
OnInitialize ==
  /\ blk' = (blk + 1) % Period
  /\ members' = IF blk' = 0 THEN TopScored(pool, memberCount) ELSE members
  /\ UNCHANGED <<pool, candidateExists, memberCount, free, reserved>>

SubmitCandidacyKeepsDeposit(who, appendOk) ==
  /\ who \notin candidateExists
  /\ free[who] >= 1
  /\ free' = [free EXCEPT ![who] = @ - 1]
  /\ reserved' = [reserved EXCEPT ![who] = @ + 1]
  /\ \/ appendOk /\ pool' = Append(pool, <<who, NoScore>>)
                 /\ candidateExists' = candidateExists \cup {who}
     \/ ~appendOk /\ UNCHANGED <<pool, candidateExists>>
  /\ UNCHANGED <<members, memberCount, blk>>

(* submit_candidacy: not already a candidate, reserve the deposit, append *)
(* (who, None) to the pool, set CandidateExists.  The append fails when   *)
(* the stored Pool cannot be decoded; the deposit is then unreserved and  *)
(* the error returned, with nothing else written.                         *)
SubmitCandidacy(who, appendOk) ==
  /\ who \notin candidateExists
  /\ free[who] >= 1
  /\ LET f1 == [free EXCEPT ![who] = @ - 1]
         r1 == [reserved EXCEPT ![who] = @ + 1]
     IN \/ /\ appendOk
           /\ free' = f1 /\ reserved' = r1
           /\ pool' = Append(pool, <<who, NoScore>>)
           /\ candidateExists' = candidateExists \cup {who}
        \/ /\ ~appendOk
           /\ free' = [f1 EXCEPT ![who] = @ + 1]
           /\ reserved' = [r1 EXCEPT ![who] = @ - 1]
           /\ UNCHANGED <<pool, candidateExists>>
  /\ UNCHANGED <<members, memberCount, blk>>

(* withdraw_candidacy(index) by the candidate, or kick(dest, index) by   *)
(* KickOrigin: ensure_index, then remove_member.                          *)
WithdrawCandidacy(who, index) == RemoveMember(who, index)

Kick(dest, index) == RemoveMember(dest, index)

(* score(dest, index, score): take the entry out and insert it again at  *)
(* the location the binary search returns.                                *)
Score(dest, index, s) ==
  LET p2  == RemoveAt(pool, index + 1)
      loc == InsertLocation(p2, s)
  IN /\ EnsureIndex(pool, dest, index)
     /\ pool' = InsertAt(p2, loc + 1, <<dest, s>>)
     /\ UNCHANGED <<candidateExists, members, memberCount, free, reserved, blk>>

(* change_member_count(count), root only. *)
ChangeMemberCount(c) ==
  /\ memberCount' = c
  /\ UNCHANGED <<pool, candidateExists, members, free, reserved, blk>>

Indexes == 0..(Cardinality(Accounts) - 1)

Next ==
  \/ OnInitialize
  \/ \E a \in Accounts, ok \in BOOLEAN : SubmitCandidacy(a, ok)
  \/ \E a \in Accounts, i \in Indexes : WithdrawCandidacy(a, i) \/ Kick(a, i)
  \/ \E a \in Accounts, i \in Indexes, s \in Scores : Score(a, i, s)
  \/ \E c \in Counts : ChangeMemberCount(c)

Spec == Init /\ [][Next]_vars

-----------------------------------------------------------------------------
PoolSortedByScore ==
  \A i \in 1..(Len(pool) - 1) : ScoreKey(pool[i]) >= ScoreKey(pool[i + 1])

(* The redundant CandidateExists map agrees with the pool (each candidate *)
(* appears once), and exactly the candidates have their deposit reserved, *)
(* through any sequence of submissions, withdrawals and kicks.            *)
CandidateBookkeeping ==
  /\ PoolAccounts(pool) = candidateExists
  /\ Len(pool) = Cardinality(candidateExists)
  /\ \A a \in Accounts : reserved[a] = IF a \in candidateExists THEN 1 ELSE 0

(* Members is sorted and every member is a scored candidate still in the *)
(* pool: removing a member from the pool refreshes the members.           *)
MembersAreScoredCandidates ==
  /\ IsSorted(members, <)
  /\ \A m \in ToSet(members) : \E i \in 1..Len(pool) : pool[i][1] = m /\ pool[i][2] # NoScore

(* The highest scored candidate of a pool that is not in a member set. *)
HighestNonMember(p, ms) ==
  LET rest == SelectSeq(p, LAMBDA e : e[2] # NoScore /\ e[1] \notin ms)
  IN IF rest = <<>> THEN {} ELSE {rest[1][1]}

(* The doc of withdraw_candidacy and KickOrigin: when a member leaves the *)
(* pool, it is immediately replaced by the highest scoring candidate that *)
(* is not a member, if there is one; the other members stay.              *)
MemberReplacedByNextHighest ==
  [][\A w \in ToSet(members) :
       w \in PoolAccounts(pool) /\ w \notin PoolAccounts(pool') =>
         ToSet(members') = (ToSet(members) \ {w}) \cup HighestNonMember(pool', ToSet(members))]_vars

-----------------------------------------------------------------------------
(* The refinement mapping: the candidates are the accounts in the pool,   *)
(* each with the score of its entry, and the members the set of Members.  *)
PoolScores ==
  [a \in PoolAccounts(pool) |-> (CHOOSE e \in ToSet(pool) : e[1] = a)[2]]

SM == INSTANCE ScoredMembership
        WITH score <- PoolScores, members <- ToSet(members), count <- memberCount

(* The module implements its documented promise: through genesis and any *)
(* sequence of submissions, withdrawals, kicks, scorings, count changes   *)
(* and block refreshes, every time refresh_members writes Members (on     *)
(* on_initialize, or remove_member of a member) they are MemberCount      *)
(* scored candidates none scoring below a left-out scored candidate, and  *)
(* no other call changes the members.                                     *)
ImplementsScoredMembership == SM!Spec
=============================================================================
