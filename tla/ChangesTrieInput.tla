-------------------------- MODULE ChangesTrieInput ---------------------------
(***************************************************************************)
(* Input keys of the changes trie (changes_trie/input.rs): the byte        *)
(* encoding of ExtrinsicIndex, DigestIndex and ChildIndex keys written by *)
(* build_changes_trie, and the prefix scan plus decode by which           *)
(* prepare_digest_input reads them back from the trie of an earlier block.*)
(*                                                                         *)
(* A family is its tag byte (1, 2, 3).  A block number is encoded as a    *)
(* fixed-width little-endian integer (u64 in the module's tests; width    *)
(* BlockWidth here), a key as a Vec<u8>: a SCALE compact length, then the *)
(* bytes.  The codec itself lives outside this repository's sources and  *)
(* is modelled from its format; the key layout and the decoder are        *)
(* translated from input.rs.                                              *)
(***************************************************************************)
EXTENDS Naturals, Sequences, SequencesExt, FiniteSets

CONSTANTS
  Blocks,      \* block numbers a trie may be built for
  KeyBytes,    \* byte values storage keys are made of
  MaxKeyLen,   \* bound on the length of a storage key
  BlockWidth,  \* bytes of the encoded block number
  MaxPairs,    \* bound on the pairs inserted into one trie
  NotScanned   \* no scan since the trie last changed

ASSUME /\ Blocks \subseteq 0..(256 ^ BlockWidth - 1) /\ KeyBytes \subseteq 0..255
       /\ MaxKeyLen < 64 /\ MaxPairs \in Nat

Families == {1, 2, 3}   \* ExtrinsicIndex, DigestIndex, ChildIndex
StorageKeys == UNION {[1..n -> KeyBytes] : n \in 0..MaxKeyLen}
InputKey == [fam : Families, block : Blocks, key : StorageKeys]
Err == [fam |-> 0]

VARIABLES
  trieBlock,  \* the block whose changes trie is written
  written,    \* the input keys inserted into that trie
  scanned     \* scanned[f]: what a scan of family f decodes, or NotScanned

vars == <<trieBlock, written, scanned>>

-----------------------------------------------------------------------------
(* The codec (spec-modelled): fixed-width little-endian numbers, compact  *)
(* lengths in their four modes.                                           *)
EncodeNumber(n) == [i \in 1..BlockWidth |-> (n \div (256 ^ (i - 1))) % 256]

LittleEndian(s) == FoldRight(LAMBDA b, acc : b + 256 * acc, s, 0)

EncodeVec(k) == <<Len(k) * 4>> \o k

(* Compact<u32>::decode: [ok, value, bytes consumed]. *)
DecodeCompact(s) ==
  LET mode  == s[1] % 4
      width == CASE mode = 0 -> 1 [] mode = 1 -> 2 [] mode = 2 -> 4
                 [] OTHER -> s[1] \div 4 + 5
  IN IF Len(s) < width THEN [ok |-> FALSE]
     ELSE [ok    |-> TRUE,
           value |-> IF mode = 3 THEN LittleEndian(SubSeq(s, 2, width))
                     ELSE LittleEndian(SubSeq(s, 1, width)) \div 4,
           used  |-> width]

-----------------------------------------------------------------------------
(* Mutant: encode_to writes the key's bytes without their length. *)
EncodeInputKeyNoLength(r) == <<r.fam>> \o EncodeNumber(r.block) \o r.key

(* Encode for ExtrinsicIndex, DigestIndex and ChildIndex: tag byte, the   *)
(* block, the key (storage_key for ChildIndex).                           *)
EncodeInputKey(r) == <<r.fam>> \o EncodeNumber(r.block) \o EncodeVec(r.key)

(* key_neutral_prefix(block) of a family: tag byte, then the block.       *)
KeyNeutralPrefix(fam, b) == <<fam>> \o EncodeNumber(b)

(* Decode for InputKey: the variant byte, the block, the key; trailing   *)
(* input is left unread.                                                   *)
DecodeInputKey(s) ==
  IF Len(s) < 1 + BlockWidth + 1 \/ s[1] \notin Families THEN Err
  ELSE LET rest == SubSeq(s, 2 + BlockWidth, Len(s))
           c    == DecodeCompact(rest)
       IN IF ~c.ok \/ Len(rest) < c.used + c.value THEN Err
          ELSE [fam   |-> s[1],
                block |-> LittleEndian(SubSeq(s, 2, 1 + BlockWidth)),
                key   |-> SubSeq(rest, c.used + 1, c.used + c.value)]

(* for_keys_with_prefix(prefix) over the trie, each key decoded and kept *)
(* when it is the family's variant (if let Ok(InputKey::<family>(..))).   *)
ScanFamily(trie, fam, b) ==
  LET prefix == KeyNeutralPrefix(fam, b)
      hits   == {s \in trie : Len(s) >= Len(prefix)
                              /\ SubSeq(s, 1, Len(prefix)) = prefix}
  IN {d \in {DecodeInputKey(s) : s \in hits} : d # Err /\ d.fam = fam}

-----------------------------------------------------------------------------
Init ==
  /\ trieBlock \in Blocks
  /\ written = {}
  /\ scanned = [f \in Families |-> NotScanned]

(* build_changes_trie: insert (key.encode(), value) for one input pair of *)
(* the block; keys of the trie are distinct.                              *)
InsertPair(r) ==
  /\ Cardinality(written) < MaxPairs
  /\ r.block = trieBlock
  /\ r \notin written
  /\ written' = written \cup {r}
  /\ scanned' = [f \in Families |-> NotScanned]
  /\ UNCHANGED trieBlock

(* prepare_digest_input at a later block: scan the trie of trieBlock      *)
(* under the family's key_neutral_prefix.                                 *)
Scan(fam) ==
  /\ scanned' = [scanned EXCEPT ![fam] =
                   ScanFamily({EncodeInputKey(r) : r \in written}, fam, trieBlock)]
  /\ UNCHANGED <<trieBlock, written>>

Next ==
  \/ \E r \in InputKey : InsertPair(r)
  \/ \E f \in Families : Scan(f)

Spec == Init /\ [][Next]_vars

-----------------------------------------------------------------------------
ScanReturnsWrittenKeys ==
  \A f \in Families :
    scanned[f] # NotScanned => scanned[f] = {r \in written : r.fam = f}
=============================================================================
