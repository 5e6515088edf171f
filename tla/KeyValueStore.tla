---------------------------- MODULE KeyValueStore ----------------------------
(***************************************************************************)
(* What the Externalities interface promises the runtime: a top-level key *)
(* space and one child key space whose contents are changed only by the   *)
(* calls below, each with its plain dictionary meaning.  Values are       *)
(* abstracted to presence (TRUE: Some, FALSE: None).  The child's root   *)
(* entry RootKey in the top space is a derived key: it is rewritten to    *)
(* say whether the child is non-empty when the child root is computed.    *)
(* call names the last call, so that each step is checked against the     *)
(* meaning of the call that made it.                                       *)
(***************************************************************************)
EXTENDS Sequences, SequencesExt

CONSTANTS
  TopKeys,     \* keys the runtime may write directly in the top space
  ChildKeys,   \* keys of the child space
  RootKey,     \* top-level key under which the child's root is stored
  PrefixArgs     \* prefixes the runtime may clear

VARIABLES top, child, call

TopAll == TopKeys \cup {RootKey}

Init ==
  /\ top \in [TopAll -> BOOLEAN]
  /\ child \in [ChildKeys -> BOOLEAN]
  /\ call = "none"

(* insert writes beneath whatever the runtime already changed: the key    *)
(* shows the new value, or keeps the one it had.                          *)
InsertBelow(k) ==
  /\ top' \in {top, [top EXCEPT ![k] = TRUE]}
  /\ call' = "insert"
  /\ UNCHANGED child

(* Calls that change no key. *)
NoChange(c) ==
  /\ call' = c
  /\ UNCHANGED <<top, child>>

Put(k, b) ==
  /\ top' = [top EXCEPT ![k] = b]
  /\ UNCHANGED child
  /\ call' = "place_storage"

PutChild(k, b) ==
  /\ child' = [child EXCEPT ![k] = b]
  /\ UNCHANGED top
  /\ call' = "place_child_storage"

ClearPrefix(p) ==
  /\ top' = [k \in TopAll |-> IF IsPrefix(p, k) THEN FALSE ELSE top[k]]
  /\ UNCHANGED child
  /\ call' = "clear_prefix"

ClearChildPrefix(p) ==
  /\ child' = [k \in ChildKeys |-> IF IsPrefix(p, k) THEN FALSE ELSE child[k]]
  /\ UNCHANGED top
  /\ call' = "clear_child_prefix"

KillChild ==
  /\ child' = [k \in ChildKeys |-> FALSE]
  /\ UNCHANGED top
  /\ call' = "kill_child_storage"

SyncChildRoot ==
  /\ top' = [top EXCEPT ![RootKey] = \E k \in ChildKeys : child[k]]
  /\ UNCHANGED child
  /\ call' = "child_storage_root"

Next ==
  \/ \E k \in TopKeys : InsertBelow(k)
  \/ \E c \in {"set_extrinsic_index", "storage_changes_root"} : NoChange(c)
  \/ \E k \in TopKeys, b \in BOOLEAN : Put(k, b)
  \/ \E k \in ChildKeys, b \in BOOLEAN : PutChild(k, b)
  \/ \E p \in PrefixArgs : ClearPrefix(p) \/ ClearChildPrefix(p)
  \/ KillChild
  \/ SyncChildRoot

Spec == Init /\ [][Next]_<<top, child, call>>
=============================================================================
