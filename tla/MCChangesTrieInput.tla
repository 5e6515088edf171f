------------------------- MODULE MCChangesTrieInput --------------------------
EXTENDS ChangesTrieInput

(* Blocks 1 and 256 differ only in which byte of the number is set.      *)
MCBlocks == {1, 256}
(* Key bytes equal to a family tag and to the encoded length of a key.  *)
MCKeyBytes == {1, 4}
=============================================================================
