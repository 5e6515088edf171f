-------------------------- MODULE ChangesTrieDigest --------------------------
(***************************************************************************)
(* DigestIndex input of the changes trie (changes_trie/build.rs,          *)
(* prepare_digest_input), over a chain of blocks built one after another  *)
(* under one ConfigurationRange {config, zero, end}.                      *)
(*                                                                         *)
(* Each block's trie records, per storage key, whether the key has an     *)
(* ExtrinsicIndex pair at that block (the key was changed in the block)   *)
(* and its DigestIndex value (the ascending list of blocks the digest     *)
(* points to).  A digest block folds, over the blocks yielded by          *)
(* digest_build_iterator, the keys found under the ExtrinsicIndex and the *)
(* DigestIndex prefixes of each block's trie.  When the configuration    *)
(* ends at the block being built, a skewed digest is built as if for the  *)
(* end of the next max-level digest range, restricted to blocks before    *)
(* the end.                                                               *)
(*                                                                         *)
(* ChangesTrieConfiguration and digest_build_iterator live outside this   *)
(* repository's sources; they are modelled from the specification (4.1.2) *)
(* and the module documentation of changes_trie/mod.rs.                  *)
(*                                                                         *)
(* One child trie is modelled.  A block's top trie holds its ChildIndex  *)
(* pair only when the child's own trie for the block is not empty; the    *)
(* digest builder finds the child's trie of an earlier block through that *)
(* pair and folds the child's keys into a map of their own.               *)
(***************************************************************************)
EXTENDS Naturals, Sequences, SequencesExt, FiniteSets

CONSTANTS
  Keys,            \* storage keys of the top trie
  ChildKeys,       \* storage keys of the child trie
  DigestInterval,  \* Configuration.digest_interval
  DigestLevels,    \* Configuration.digest_levels
  Zero,            \* ConfigurationRange.zero: the block where the configuration was set
  MaxBlock         \* number of blocks built under the configuration (bound)

ASSUME /\ DigestInterval \in Nat /\ DigestLevels \in Nat
       /\ Zero \in Nat /\ MaxBlock \in Nat \ {0}

VARIABLES
  tries,   \* tries[i]: the changes tries of block Zero + i: per top key and per
           \* child key [ext, dig], and whether the top has the ChildIndex pair
  ended    \* the configuration has ended (its end block has been built)

vars == <<tries, ended>>

TrieOf(b) == tries[b - Zero]
Built == {Zero + i : i \in 1..Len(tries)}

-----------------------------------------------------------------------------
(* ChangesTrieConfiguration (spec-modelled). *)
IsDigestBuildEnabled == DigestInterval > 1 /\ DigestLevels > 0

MaxDigestInterval ==
  IF IsDigestBuildEnabled THEN DigestInterval ^ DigestLevels ELSE 1

(* The level of the digest built at block b, 0 when b is not a digest     *)
(* block; the digest step of level L is DigestInterval^(L-1).             *)
DigestLevelAtBlock(b) ==
  IF b > Zero /\ IsDigestBuildEnabled /\ (b - Zero) % DigestInterval = 0
  THEN LET L == CHOOSE l \in 1..DigestLevels :
                  /\ (b - Zero) % (DigestInterval ^ l) = 0
                  /\ \/ l = DigestLevels
                     \/ (b - Zero) % (DigestInterval ^ (l + 1)) # 0
       IN L
  ELSE 0

(* next_max_level_digest_range(zero, block).map(|(_, end)| end),          *)
(* .unwrap_or(block) when digests are disabled.                           *)
NextMaxLevelDigestEnd(block) ==
  IF ~IsDigestBuildEnabled THEN block
  ELSE LET b    == IF block <= Zero THEN Zero + 1 ELSE block
           n    == (b - Zero) \div MaxDigestInterval
           last == Zero + n * MaxDigestInterval
       IN CASE n = 0     -> Zero + MaxDigestInterval
            [] b = last  -> b
            [] OTHER     -> last + MaxDigestInterval

(* digest_build_iterator (spec-modelled): from the highest step down to 1,*)
(* the DigestInterval - 1 blocks of each step after the last block taken  *)
(* at the step above, keeping only blocks before end.  Ascending.         *)
RECURSIVE DigestBlocksFrom(_, _, _)
DigestBlocksFrom(begin, step, end) ==
  IF step = 0 THEN <<>>
  ELSE LET items == SelectSeq([i \in 1..(DigestInterval - 1) |-> begin + i * step],
                              LAMBDA x : x < end)
           next  == IF items = <<>> THEN begin ELSE items[Len(items)]
       IN items \o DigestBlocksFrom(next, step \div DigestInterval, end)

DigestBuildIterator(block, end) ==
  LET L == DigestLevelAtBlock(block)
  IN IF L = 0 THEN <<>>
     ELSE LET step == DigestInterval ^ (L - 1)
          IN DigestBlocksFrom(block - step * DigestInterval, step, end)

-----------------------------------------------------------------------------
(* Mutant: insert_to_map without the is_dup_block check. *)
InsertToMapNoDupCheck(list, a) ==
  IF list = <<>> THEN <<a>> ELSE Append(list, a)

(* insert_to_map: a new key gets [block]; an existing one gets the block  *)
(* appended unless it is already the last element (is_dup_block).        *)
InsertToMap(list, a) ==
  IF list = <<>> THEN <<a>>
  ELSE IF list[Len(list)] = a THEN list
  ELSE Append(list, a)

(* The ExtrinsicIndex prefix, then the DigestIndex prefix of one trie of *)
(* digest_build_block a, each key found going through insert_to_map.      *)
ScanKeys(map, trie, a) ==
  [k \in DOMAIN map |->
     LET afterExt == IF trie[k].ext THEN InsertToMap(map[k], a) ELSE map[k]
     IN IF trie[k].dig # <<>> THEN InsertToMap(afterExt, a) ELSE afterExt]

(* Mutant: the child's trie is scanned under the ExtrinsicIndex prefix   *)
(* only.                                                                  *)
ScanDigestBuildBlockChildExtOnly(maps, a) ==
  [top   |-> ScanKeys(maps.top, TrieOf(a).top, a),
   child |-> IF TrieOf(a).hasChild
             THEN [k \in ChildKeys |->
                     IF TrieOf(a).child[k].ext THEN InsertToMap(maps.child[k], a)
                     ELSE maps.child[k]]
             ELSE maps.child]

(* One step of the try_fold: the ChildIndex prefix of the top trie of a  *)
(* gives the child's root, then the top trie is scanned, then the child's *)
(* trie when a root was found.                                             *)
ScanDigestBuildBlock(maps, a) ==
  [top   |-> ScanKeys(maps.top, TrieOf(a).top, a),
   child |-> IF TrieOf(a).hasChild THEN ScanKeys(maps.child, TrieOf(a).child, a)
             ELSE maps.child]

(* Mutant: the digest is built for the current block even at the end.  *)
BlockForDigestUnskewed(block, isEnd) == block

(* The block the digest is built for: the end of the next max-level       *)
(* digest range when the configuration ends at this block.               *)
BlockForDigest(block, isEnd) ==
  IF isEnd THEN NextMaxLevelDigestEnd(block) ELSE block

(* prepare_digest_input: per top key and per child key, the DigestIndex  *)
(* value (<<>> = no pair).                                                *)
(* config.end is the current block when isEnd, otherwise None, and the   *)
(* iterator's end defaults to block_for_digest.                          *)
PrepareDigestInput(block, isEnd) ==
  LET bfd == BlockForDigest(block, isEnd)
  IN FoldLeft(ScanDigestBuildBlock,
              [top |-> [k \in Keys |-> <<>>], child |-> [k \in ChildKeys |-> <<>>]],
              DigestBuildIterator(bfd, IF isEnd THEN block ELSE bfd))

-----------------------------------------------------------------------------
Init ==
  /\ tries = <<>>
  /\ ended = FALSE

(* Build the changes tries of the next block (prepare_input, then        *)
(* build_changes_trie): the keys changed in it get an ExtrinsicIndex pair *)
(* (their extrinsic lists are the subject of ChangesTrieExtrinsics), the  *)
(* digest pairs are prepared from the tries already stored, the child's  *)
(* extrinsic and digest pairs are chained into one stream, and the top    *)
(* trie gets the ChildIndex pair when that stream is not empty.  isEnd:   *)
(* the configuration ends at this block.                                  *)
BuildBlock(changed, childChanged, isEnd) ==
  LET block == Zero + Len(tries) + 1
      dig   == PrepareDigestInput(block, isEnd)
      child == [k \in ChildKeys |-> [ext |-> k \in childChanged, dig |-> dig.child[k]]]
  IN /\ tries' = Append(tries,
                   [top      |-> [k \in Keys |-> [ext |-> k \in changed, dig |-> dig.top[k]]],
                    child    |-> child,
                    hasChild |-> \E k \in ChildKeys : child[k].ext \/ child[k].dig # <<>>])
     /\ ended' = isEnd

Next ==
  /\ ~ended
  /\ Len(tries) < MaxBlock
  /\ \E changed \in SUBSET Keys, childChanged \in SUBSET ChildKeys, isEnd \in BOOLEAN :
       BuildBlock(changed, childChanged, isEnd)

Spec == Init /\ [][Next]_vars

-----------------------------------------------------------------------------
RangeLevel(b) ==
  CHOOSE l \in 0..DigestLevels :
     /\ (b - Zero) % (DigestInterval ^ l) = 0
     /\ \A m \in (l + 1)..DigestLevels : (b - Zero) % (DigestInterval ^ m) # 0

CoveredRange(b) ==
  IF ended /\ b = Zero + Len(tries)
  THEN (Zero + ((b - Zero - 1) \div MaxDigestInterval) * MaxDigestInterval + 1)..(b - 1)
  ELSE (b - DigestInterval ^ RangeLevel(b) + 1)..(b - 1)

(* The key's [ext, dig] at block b, for a top key <<"top", k>> or a     *)
(* child key <<"child", k>>.                                              *)
Entry(b, key) == IF key[1] = "top" THEN TrieOf(b).top[key[2]] ELSE TrieOf(b).child[key[2]]
AllKeys == ({"top"} \X Keys) \cup ({"child"} \X ChildKeys)

(* Every DigestIndex value, of the top trie and of the child's, is        *)
(* strictly ascending: the per-key tail-only duplicate check is enough    *)
(* only because the iterator is ascending and a key found under both      *)
(* prefixes of one block is appended once.                                *)
DigestListsAscending ==
  \A b \in Built : \A key \in AllKeys : IsSorted(Entry(b, key).dig, <)

(* The digest of every block, including the skewed digest at the end of  *)
(* the configuration, is exact for the top trie and for the child's: it  *)
(* lists a key iff the key was changed in some block of the range it      *)
(* covers (changes below the top level reach it only through lower-level *)
(* digests stored earlier, and a child's only through the ChildIndex     *)
(* pairs of the blocks in between), and every block it lists for the key *)
(* lies in that range and records the key.                                *)
DigestCoversRange ==
  \A b \in Built : \A key \in AllKeys :
     /\ (Entry(b, key).dig # <<>>) <=> (\E x \in CoveredRange(b) : Entry(x, key).ext)
     /\ \A i \in DOMAIN Entry(b, key).dig :
          LET a == Entry(b, key).dig[i]
          IN /\ a \in CoveredRange(b)
             /\ Entry(a, key).ext \/ Entry(a, key).dig # <<>>
=============================================================================
