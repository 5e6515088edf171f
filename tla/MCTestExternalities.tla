------------------------- MODULE MCTestExternalities -------------------------
(* Two writable top keys, one a prefix of the other, the child's storage   *)
(* key behind the one-byte stand-in for ":child_storage:", one child key,  *)
(* and clear_prefix with the empty prefix and a one-byte prefix.  The      *)
(* extrinsic index is 0 or NO_EXTRINSIC_INDEX, whose stand-in 9 keeps it   *)
(* above every real index (TLC integers are 32-bit, 0xFFFFFFFF is not).    *)
EXTENDS TestExternalities

MCTopKeys == {<<1>>, <<1, 2>>}
MCChildKeys == {<<1>>}
MCRootKey == <<58, 1>>
MCChildPrefix == <<58>>
MCPrefixArgs == {<<>>, <<1>>}
MCNoExtrinsicIndex == 9
MCExtIdx == {0, 9}
=============================================================================
