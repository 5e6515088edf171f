------------------------- MODULE MCChangesTrieDigest -------------------------
(* Digest chain under interval 2, 3 levels (max-level range of 8 blocks), *)
(* with the configuration set at block 3 so that every range is relative *)
(* to a non-zero zero block.  Keys are independent of each other in the  *)
(* digest fold, so one top key and one child key suffice.                *)
EXTENDS ChangesTrieDigest

MCKeys == {1}
MCChildKeys == {1}
=============================================================================
