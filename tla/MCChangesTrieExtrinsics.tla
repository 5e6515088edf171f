----------------------- MODULE MCChangesTrieExtrinsics -----------------------
(* Two one-byte storage keys and two extrinsic indices: enough for a key  *)
(* written in both layers with indices out of order, deletions of keys    *)
(* that do and do not exist in the backend, and non-extrinsic entries.    *)
EXTENDS ChangesTrieExtrinsics

MCKeys == {100, 101}
MCExtIdx == {0, 1}
=============================================================================
