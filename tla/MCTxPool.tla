------------------------------- MODULE MCTxPool -------------------------------
(* Instances of the pool for TLC: nonces 0..2 of one sender plus           *)
(* INVALID_NONCE, a ready limit of 2 and a future limit of 1, blocks up to *)
(* 2.  The serial cfg gives TestApi's longevity of 3 blocks, so that       *)
(* transactions outlive the imports; the violation cfgs give 0, so that a *)
(* transaction is stale once a block is imported.                         *)
EXTENDS TxPool

MCNonces == {0, 1, 2}
MCInvalidNonce == 254
\* is_even() read as "the nonce is even": 0 and 2 go to pool2.
MCEvenNonces == {0, 2}
=============================================================================
