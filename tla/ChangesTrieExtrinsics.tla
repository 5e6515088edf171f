------------------------ MODULE ChangesTrieExtrinsics ------------------------
(***************************************************************************)
(* ExtrinsicIndex input of the changes trie of one block                   *)
(* (changes_trie/build.rs, prepare_extrinsics_input_inner).                *)
(*                                                                         *)
(* The overlay of the block under construction has two layers, committed  *)
(* and prospective; each maps a storage key to an OverlayedValue with an   *)
(* optional value and an optional set of extrinsic indices.  The builder   *)
(* folds the committed entries, then the prospective ones, into a BTreeMap *)
(* keyed by storage key, drops temporary values (deleted in the overlay    *)
(* and absent from the backend) and emits one ExtrinsicIndex pair per key  *)
(* in ascending key order.  Init enumerates every overlay and backend the *)
(* builder can be handed; PrepareInput is the single, terminating build   *)
(* step (the builder is single-threaded within one block build).         *)
(*                                                                         *)
(* Storage keys are one-byte keys (as in the tests), so their              *)
(* lexicographic order is the order of naturals.  Only the top trie is     *)
(* modelled: a child trie runs the same function over its own maps.        *)
(***************************************************************************)
EXTENDS Naturals, Sequences, SequencesExt, TLC

CONSTANTS
  Keys,          \* storage keys (one-byte keys, ordered as naturals)
  ExtIdx,        \* extrinsic indices that may touch a key in one block
  Absent,        \* no entry for the key in an overlay layer
  NoExtrinsics,  \* OverlayedValue.extrinsics = None (change made outside any extrinsic)
  Pending,       \* the input of the current overlay has not been prepared yet
  Vacant         \* Entry::Vacant: no pair for the key in the fold's BTreeMap yet

ASSUME Keys \subseteq Nat /\ ExtIdx \subseteq Nat

(* An OverlayedValue: value is Some (TRUE) or None (FALSE). *)
OverlayedValue ==
  [value : BOOLEAN, extrinsics : {NoExtrinsics} \cup (SUBSET ExtIdx \ {{}})]

OverlayLayer == [Keys -> OverlayedValue \cup {Absent}]

VARIABLES
  committed,     \* OverlayedChanges.committed.top
  prospective,   \* OverlayedChanges.prospective.top
  backend,       \* keys that exist in the backend storage before this block
  out            \* the ExtrinsicIndex pairs prepared for this block, or Pending

vars == <<committed, prospective, backend, out>>

-----------------------------------------------------------------------------
ExtSet(e) == IF e = Absent \/ e.extrinsics = NoExtrinsics THEN {} ELSE e.extrinsics

(* A state the overlay can be in when the changes trie is built: an       *)
(* extrinsic's changes are in exactly one layer, so for every key the two *)
(* layers carry disjoint sets of extrinsic indices.                       *)
ValidOverlay(c, p) == \A k \in Keys : ExtSet(c[k]) \cap ExtSet(p[k]) = {}

(* OverlayedChanges::storage(k).map(|v| v.is_some()).unwrap_or_default():  *)
(* the prospective entry overrides the committed one.                     *)
OverlayValueIsSome(k) ==
  CASE prospective[k] # Absent -> prospective[k].value
    [] committed[k] # Absent   -> committed[k].value
    [] OTHER                   -> FALSE

(* The entries of one layer that pass filter(|v| v.extrinsics.is_some()), *)
(* as <<key, value>> pairs.                                               *)
Attributed(layer) ==
  LET ks == SetToSortSeq({k \in Keys : layer[k] # Absent
                                         /\ layer[k].extrinsics # NoExtrinsics}, <)
  IN [i \in 1..Len(ks) |-> <<ks[i], layer[ks[i]]>>]

(* Mutant: the Occupied branch extends without sort_unstable. *)
InsertEntryUnsorted(map, kv) ==
  LET k   == kv[1]
      ext == SetToSortSeq(kv[2].extrinsics, <)
  IN IF map[k] = Vacant
     THEN IF ~OverlayValueIsSome(k) /\ k \notin backend
          THEN map
          ELSE [map EXCEPT ![k] = ext]
     ELSE [map EXCEPT ![k] = @ \o ext]

(* One step of the try_fold over committed.chain(prospective).            *)
InsertEntry(map, kv) ==
  LET k   == kv[1]
      ext == SetToSortSeq(kv[2].extrinsics, <)
  IN IF map[k] = Vacant
     THEN IF ~OverlayValueIsSome(k) /\ k \notin backend
          THEN map                                  \* temporary value: ignored
          ELSE [map EXCEPT ![k] = ext]
     ELSE [map EXCEPT ![k] = SortSeq(@ \o ext, <)]   \* extend + sort_unstable

(* prepare_extrinsics_input_inner for the top trie: the pairs in BTreeMap *)
(* (ascending key) order.                                                 *)
PrepareExtrinsicsInputInner ==
  LET map  == FoldLeft(InsertEntry, [k \in Keys |-> Vacant],
                       Attributed(committed) \o Attributed(prospective))
      keys == SetToSortSeq({k \in Keys : map[k] # Vacant}, <)
  IN [i \in 1..Len(keys) |-> [key |-> keys[i], extrinsics |-> map[keys[i]]]]

-----------------------------------------------------------------------------
Init ==
  /\ committed \in OverlayLayer
  /\ prospective \in OverlayLayer
  /\ ValidOverlay(committed, prospective)
  /\ backend \in SUBSET Keys
  /\ out = Pending

(* The runtime asks for the changes trie root of the block. *)
PrepareInput ==
  /\ out = Pending
  /\ out' = PrepareExtrinsicsInputInner
  /\ UNCHANGED <<committed, prospective, backend>>

Next == PrepareInput

Spec == Init /\ [][Next]_vars

-----------------------------------------------------------------------------
(* Reference (spec 4.1.1): a key gets an ExtrinsicIndex pair iff some     *)
(* layer attributes a change of it to an extrinsic and it is not a         *)
(* temporary value (None after the overlay and absent from the backend);  *)
(* its value is the ascending union of the indices of both layers, and    *)
(* the pairs come in ascending key order.                                 *)
ExpectedInput ==
  LET recorded == {k \in Keys : ExtSet(committed[k]) \cup ExtSet(prospective[k]) # {}
                                /\ (OverlayValueIsSome(k) \/ k \in backend)}
      keys     == SetToSortSeq(recorded, <)
  IN [i \in 1..Len(keys) |->
        [key |-> keys[i],
         extrinsics |-> SetToSortSeq(ExtSet(committed[keys[i]])
                                       \cup ExtSet(prospective[keys[i]]), <)]]

(* The ExtrinsicIndex pairs the builder prepares from the committed and   *)
(* prospective layers are exactly the reference ones: same keys, no       *)
(* temporary value, ascending key order, and for each key the strictly    *)
(* ascending union of the extrinsic indices of both layers (the trie root *)
(* depends on every byte of this stream).                                 *)
ExtrinsicInputMatchesSpec == out # Pending => out = ExpectedInput
=============================================================================
