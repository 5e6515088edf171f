-------------------------- MODULE TestExternalities --------------------------
(***************************************************************************)
(* TestExternalities (state-machine/src/testing.rs): the Externalities   *)
(* the runtime's tests run against, an OverlayedChanges over an in-memory *)
(* backend, composed with the changes trie that storage_changes_root     *)
(* builds from that overlay (changes_trie/mod.rs build_changes_trie and   *)
(* build.rs prepare_extrinsics_input, whose per-trie fold is the module  *)
(* ChangesTrieExtrinsics).                                                *)
(*                                                                         *)
(* Only the prospective layer is modelled: no Externalities call commits *)
(* it, so committed stays empty for the life of a TestExternalities.      *)
(* One child trie is modelled; its storage key is RootKey, a top-level    *)
(* key too.  Values are abstracted to presence.  The extrinsic index the  *)
(* overlay stamps on a change is the value of :extrinsic_index, which the *)
(* runtime's executive sets around each extrinsic; it is a variable here  *)
(* and the key itself is left out of the key spaces.  No digest input is *)
(* built: the changes trie storage of a TestExternalities holds no tries  *)
(* unless a test adds them (ChangesTrieDigest covers digests).           *)
(***************************************************************************)
EXTENDS Naturals, Sequences, SequencesExt, FiniteSets

CONSTANTS
  TopKeys,        \* byte keys the runtime may write in the top space
  ChildKeys,      \* byte keys of the child trie
  RootKey,        \* the child trie's storage key (:child_storage:...)
  ChildPrefix,    \* is_child_storage_key: keys starting with these bytes
  PrefixArgs,       \* prefixes clear_prefix and clear_child_prefix are called with
  ExtIdx,         \* values :extrinsic_index takes, NO_EXTRINSIC_INDEX included
  NoExtrinsicIndex, \* the value of extrinsic_index() when the key is unset
  MaxKeyLen,      \* bound on the length of a key
  Absent, NoExtrinsics, Pending, Vacant, \* as in ChangesTrieExtrinsics
  NoTrie,         \* build_changes_trie returned Ok(None): no configuration
  UnknownParent,  \* build_anchor failed: Err(())
  ChildIndexPair  \* the ChildIndex pair of the child trie in the top stream

ASSUME /\ NoExtrinsicIndex \in ExtIdx
       /\ \A k \in TopKeys \cup ChildKeys \cup {RootKey} : Len(k) <= MaxKeyLen
       /\ IsPrefix(ChildPrefix, RootKey)
       /\ \A k \in TopKeys : ~IsPrefix(ChildPrefix, k)

TopAll == TopKeys \cup {RootKey}

VARIABLES
  config,        \* a changes trie configuration is set (CHANGES_TRIE_CONFIG at genesis)
  extrinsic,     \* the value of :extrinsic_index
  backend,       \* top keys present in the InMemory backend
  childBackend,  \* child keys present in the backend's child trie
  top,           \* overlay.prospective.top
  hasChild,      \* overlay.prospective.children contains the child's map
  child,         \* overlay.prospective.children[RootKey]
  out,           \* result of the last storage_changes_root, Pending after a change
  call           \* the name of the last Externalities call (history)

vars == <<config, extrinsic, backend, childBackend, top, hasChild, child, out, call>>

(* Key bytes as naturals whose order is the lexicographic one.            *)
Ord(k) == LET d(i) == IF i <= Len(k) THEN k[i] + 1 ELSE 0
          IN  FoldLeft(LAMBDA acc, i : acc * 257 + d(i), 0, [i \in 1..MaxKeyLen |-> i])
(* The key with each such number, for the top and the child key space.  *)
KeyOf(S) == [n \in {Ord(k) : k \in S} |-> CHOOSE k \in S : Ord(k) = n]
TopKeyOf == KeyOf(TopAll)
ChildKeyOf == KeyOf(ChildKeys)

CTE(keyOf, layer, bk) == INSTANCE ChangesTrieExtrinsics
  WITH Keys <- DOMAIN keyOf, committed <- [n \in DOMAIN keyOf |-> Absent],
       prospective <- [n \in DOMAIN keyOf |-> layer[keyOf[n]]],
       backend <- {n \in DOMAIN keyOf : keyOf[n] \in bk}, out <- Pending

-----------------------------------------------------------------------------
(* OverlayedChanges (spec-modelled).                                      *)

(* extrinsic_index(): Some(:extrinsic_index or NO_EXTRINSIC_INDEX) when a *)
(* configuration is set, None otherwise; a change adds it to the entry's  *)
(* set.                                                                   *)
Stamp(e) ==
  LET old == IF e = Absent THEN NoExtrinsics ELSE e.extrinsics
  IN  IF ~config THEN old
      ELSE IF old = NoExtrinsics THEN {extrinsic} ELSE old \cup {extrinsic}

(* set_storage / set_child_storage on one entry (entry().or_default()).  *)
SetEntry(e, v) == [value |-> v, extrinsics |-> Stamp(e)]

(* clear_prefix, clear_child_prefix, clear_child_storage: every entry of *)
(* the prospective map under the prefix becomes a stamped deletion.      *)
ClearEntries(layer, p) ==
  [k \in DOMAIN layer |-> IF layer[k] # Absent /\ IsPrefix(p, k)
                           THEN SetEntry(layer[k], FALSE) ELSE layer[k]]

-----------------------------------------------------------------------------
(* storage / child_storage: the overlay's value, else the backend's.     *)
Storage(k) ==
  IF top[k] # Absent THEN top[k].value ELSE k \in backend

ChildStorage(k) ==
  IF child[k] # Absent THEN child[k].value ELSE k \in childBackend

(* for_keys_with_prefix: set_storage(key, None) for every backend key    *)
(* under the prefix, after the overlay's own entries were cleared.       *)
DeleteBackendKeys(layer, bk, p) ==
  [k \in DOMAIN layer |-> IF k \in bk /\ IsPrefix(p, k)
                           THEN SetEntry(layer[k], FALSE) ELSE layer[k]]

(* prepare_extrinsics_input: the child tries are those with a map in     *)
(* either layer, each folded like the top trie.                          *)
ChildInput == CTE(ChildKeyOf, child, childBackend)!PrepareExtrinsicsInputInner

(* The pairs of a fold, with their keys back as bytes. *)
Pairs(keyOf, in) == [i \in 1..Len(in) |-> [key |-> keyOf[in[i].key], extrinsics |-> in[i].extrinsics]]

(* Mutant: the child roots are not chained after the top input pairs. *)
BuildChangesTrieNoChildIndex(known) ==
  IF ~config THEN NoTrie
  ELSE IF ~known THEN UnknownParent
  ELSE LET cin == IF hasChild THEN ChildInput ELSE <<>>
           tin == CTE(TopKeyOf, top, backend)!PrepareExtrinsicsInputInner
       IN [top |-> Pairs(TopKeyOf, tin), child |-> Pairs(ChildKeyOf, cin)]

(* build_changes_trie: Ok(None) without a configuration, Err on an       *)
(* unknown parent; otherwise the top stream (extrinsic pairs, then the   *)
(* child's ChildIndex pair when its trie is not empty) and the child's.  *)
BuildChangesTrie(known) ==
  IF ~config THEN NoTrie
  ELSE IF ~known THEN UnknownParent
  ELSE LET cin == IF hasChild THEN ChildInput ELSE <<>>
           tin == CTE(TopKeyOf, top, backend)!PrepareExtrinsicsInputInner
       IN [top   |-> Pairs(TopKeyOf, tin)
                     \o (IF cin # <<>> THEN <<ChildIndexPair>> ELSE <<>>),
           child |-> Pairs(ChildKeyOf, cin)]

-----------------------------------------------------------------------------
(* new_with_code: the genesis top map holds no child storage key (the     *)
(* first assert); the configuration is whatever CHANGES_TRIE_CONFIG it    *)
(* holds; the overlay starts empty.                                       *)
Init ==
  /\ config \in BOOLEAN
  /\ extrinsic = NoExtrinsicIndex
  /\ backend \in SUBSET TopKeys
  /\ childBackend \in SUBSET ChildKeys
  /\ top = [k \in TopAll |-> Absent]
  /\ hasChild = FALSE
  /\ child = [k \in ChildKeys |-> Absent]
  /\ out = Pending
  /\ call = "none"

(* insert: the key goes straight into the backend, under the overlay.    *)
Insert(k) ==
  /\ backend' = backend \cup {k}
  /\ out' = Pending
  /\ UNCHANGED <<config, extrinsic, childBackend, top, hasChild, child>>
  /\ call' = "insert"

(* The executive writes :extrinsic_index before each extrinsic and       *)
(* removes it after the last one (spec-modelled).                        *)
SetExtrinsicIndex(i) ==
  /\ extrinsic' = i
  /\ out' = Pending
  /\ UNCHANGED <<config, backend, childBackend, top, hasChild, child>>
  /\ call' = "set_extrinsic_index"

(* place_storage: refused for a child storage key, else set_storage.     *)
PlaceStorage(k, v) ==
  /\ ~IsPrefix(ChildPrefix, k)
  /\ top' = [top EXCEPT ![k] = SetEntry(@, v)]
  /\ out' = Pending
  /\ UNCHANGED <<config, extrinsic, backend, childBackend, hasChild, child>>
  /\ call' = "place_storage"

(* place_child_storage: set_child_storage creates the child's map.       *)
PlaceChildStorage(k, v) ==
  /\ child' = [child EXCEPT ![k] = SetEntry(@, v)]
  /\ hasChild' = TRUE
  /\ out' = Pending
  /\ UNCHANGED <<config, extrinsic, backend, childBackend, top>>
  /\ call' = "place_child_storage"

(* kill_child_storage: clear_child_storage, then a None for every key of *)
(* the backend's child trie.                                              *)
KillChildStorage ==
  /\ child' = DeleteBackendKeys(ClearEntries(child, <<>>), childBackend, <<>>)
  /\ hasChild' = TRUE
  /\ out' = Pending
  /\ UNCHANGED <<config, extrinsic, backend, childBackend, top>>
  /\ call' = "kill_child_storage"

(* Mutant: clear_prefix without overlay.clear_prefix; only the backend's *)
(* keys are deleted.                                                      *)
ClearPrefixBackendOnly(p) ==
  /\ ~IsPrefix(ChildPrefix, p)
  /\ top' = DeleteBackendKeys(top, backend, p)
  /\ out' = Pending
  /\ UNCHANGED <<config, extrinsic, backend, childBackend, hasChild, child>>
  /\ call' = "clear_prefix"

(* clear_prefix: refused for a prefix that is a child storage key; the   *)
(* overlay's entries, then the backend's keys under the prefix.          *)
ClearPrefix(p) ==
  /\ ~IsPrefix(ChildPrefix, p)
  /\ top' = DeleteBackendKeys(ClearEntries(top, p), backend, p)
  /\ out' = Pending
  /\ UNCHANGED <<config, extrinsic, backend, childBackend, hasChild, child>>
  /\ call' = "clear_prefix"

(* clear_child_prefix: the same within the child trie.                   *)
ClearChildPrefix(p) ==
  /\ child' = DeleteBackendKeys(ClearEntries(child, p), childBackend, p)
  /\ hasChild' = TRUE
  /\ out' = Pending
  /\ UNCHANGED <<config, extrinsic, backend, childBackend, top>>
  /\ call' = "clear_child_prefix"

(* child_storage_root: the child's root over backend plus overlay delta; *)
(* set_storage(storage_key, None) when that trie is empty, else the root.*)
ChildStorageRoot ==
  /\ top' = [top EXCEPT ![RootKey] = SetEntry(@, \E k \in ChildKeys : ChildStorage(k))]
  /\ out' = Pending
  /\ UNCHANGED <<config, extrinsic, backend, childBackend, hasChild, child>>
  /\ call' = "child_storage_root"

(* storage_changes_root(parent): build_changes_trie over the overlay.     *)
StorageChangesRoot(known) ==
  /\ out' = BuildChangesTrie(known)
  /\ UNCHANGED <<config, extrinsic, backend, childBackend, top, hasChild, child>>
  /\ call' = "storage_changes_root"

Next ==
  \/ \E k \in TopKeys : Insert(k)
  \/ \E i \in ExtIdx : SetExtrinsicIndex(i)
  \/ \E k \in TopAll, v \in BOOLEAN : PlaceStorage(k, v)
  \/ \E k \in ChildKeys, v \in BOOLEAN : PlaceChildStorage(k, v)
  \/ KillChildStorage
  \/ \E p \in PrefixArgs : ClearPrefix(p) \/ ClearChildPrefix(p)
  \/ ChildStorageRoot
  \/ \E known \in BOOLEAN : StorageChangesRoot(known)

Spec == Init /\ [][Next]_vars

-----------------------------------------------------------------------------
(* What the runtime reads through storage and child_storage.             *)
KV == INSTANCE KeyValueStore
  WITH top <- [k \in TopAll |-> Storage(k)], child <- [k \in ChildKeys |-> ChildStorage(k)],
       call <- call

(* Every sequence of Externalities calls changes what storage and        *)
(* child_storage return the way the dictionary semantics say: place,     *)
(* clear_prefix, kill and clear_child_prefix each act on the overlay and *)
(* on the backend keys underneath it, insert shows through unless the    *)
(* overlay shadows the key, and child_storage_root rewrites the child's   *)
(* root entry to say whether the child is non-empty.                     *)
ImplementsKeyValueStore == KV!Spec

BuiltKeys(s) == {s[i].key : i \in {j \in DOMAIN s : s[j] # ChildIndexPair}}

(* A changes trie built after any sequence of calls records every key     *)
(* whose value read through the Externalities differs from the backend's: *)
(* a changed top key has its ExtrinsicIndex pair, a changed child key has *)
(* its pair in the child's trie and that trie its ChildIndex pair in the *)
(* top one.                                                                *)
ChangesTrieRecordsEveryChange ==
  out \notin {Pending, NoTrie, UnknownParent} =>
    /\ \A k \in TopAll : Storage(k) # (k \in backend) => k \in BuiltKeys(out.top)
    /\ \A k \in ChildKeys : ChildStorage(k) # (k \in childBackend) =>
         k \in BuiltKeys(out.child) /\ ChildIndexPair \in Range(out.top)
=============================================================================
