----------------------------- MODULE AuthorError -----------------------------
(***************************************************************************)
(* The JSON-RPC error an author call returns for an Error                  *)
(* (rpc/api/src/author/error.rs, From<Error> for rpc::Error).  Only the    *)
(* error code is kept: messages and data are text and are left out.  An    *)
(* Error is a record: kind names the variant of the author Error enum,    *)
(* and for kind "Pool" the field pool names the transaction pool error.   *)
(***************************************************************************)
EXTENDS Integers

(* The error codes of the author API. *)
BASE_ERROR == 1000
BAD_FORMAT == BASE_ERROR + 1
VERIFICATION_ERROR == BASE_ERROR + 2
POOL_INVALID_TX == BASE_ERROR + 10
POOL_UNKNOWN_VALIDITY == POOL_INVALID_TX + 1
POOL_TEMPORARILY_BANNED == POOL_INVALID_TX + 2
POOL_ALREADY_IMPORTED == POOL_INVALID_TX + 3
POOL_TOO_LOW_PRIORITY == POOL_INVALID_TX + 4
POOL_CYCLE_DETECTED == POOL_INVALID_TX + 5
POOL_IMMEDIATELY_DROPPED == POOL_INVALID_TX + 6
UNSUPPORTED_KEY_TYPE == POOL_INVALID_TX + 7

(* errors::internal (rpc/api/src/errors.rs): ErrorCode::InternalError.    *)
INTERNAL_ERROR == -32603

(* The transaction pool's error kinds (graph/src/error.rs). *)
PoolErrors == {"InvalidBlockId", "TemporarilyBanned", "NoTagsProvided",
               "InvalidTransaction", "UnknownTransactionValidity",
               "AlreadyImported", "TooLowPriority", "CycleDetected",
               "ImmediatelyDropped"}

(* The author Error enum: Pool wraps a pool error, the other variants     *)
(* carry nothing the code reads.                                          *)
Errors ==
  [kind : {"Pool"}, pool : PoolErrors] \cup
  [kind : {"Client", "Verification", "BadFormat", "BadSeedPhrase",
           "BadKeyType", "UnsupportedKeyType", "KeyStoreUnavailable"}]

(* From<Error> for rpc::Error: the code of each arm of the match, and     *)
(* errors::internal for every error no arm names.                          *)
ToRpcCode(e) ==
  CASE e.kind = "BadFormat"          -> BAD_FORMAT
    [] e.kind = "Verification"       -> VERIFICATION_ERROR
    [] e.kind = "UnsupportedKeyType" -> UNSUPPORTED_KEY_TYPE
    [] e.kind = "Pool" /\ e.pool = "InvalidTransaction"         -> POOL_INVALID_TX
    [] e.kind = "Pool" /\ e.pool = "UnknownTransactionValidity" -> POOL_UNKNOWN_VALIDITY
    [] e.kind = "Pool" /\ e.pool = "TemporarilyBanned"          -> POOL_TEMPORARILY_BANNED
    [] e.kind = "Pool" /\ e.pool = "AlreadyImported"            -> POOL_ALREADY_IMPORTED
    [] e.kind = "Pool" /\ e.pool = "TooLowPriority"             -> POOL_TOO_LOW_PRIORITY
    [] e.kind = "Pool" /\ e.pool = "CycleDetected"              -> POOL_CYCLE_DETECTED
    [] e.kind = "Pool" /\ e.pool = "ImmediatelyDropped"         -> POOL_IMMEDIATELY_DROPPED
    [] OTHER                                                    -> INTERNAL_ERROR
=============================================================================
