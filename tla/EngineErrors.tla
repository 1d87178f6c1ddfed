---------------------------- MODULE EngineErrors ----------------------------
(***************************************************************************)
(* The engine's error codes and the error collector.  LSREngineError is an *)
(* enumeration ordered by severity: the codes below keep that order (and   *)
(* leave out the offset that tells the engine's errors from other ones).   *)
(***************************************************************************)
EXTENDS Naturals

NoError            == 0    \* LSR_NO_ENGINE_ERROR
PoolInvalidObject  == 2    \* LSR_POOL_INVALID_OBJECT
DataNotAvailable   == 3    \* LSR_ERR_DATASTATUS_NOT_AVAILABLE
DataInconsistent   == 5    \* LSR_ERR_DATASTATUS_INCONSISTENT
PoolIsFull         == 6    \* LSR_POOL_IS_FULL
PoolDoubleDelete   == 7    \* LSR_POOL_DOUBLE_DELETE
PoolIsCorrupted    == 8    \* LSR_POOL_IS_CORRUPTED
NoTexture          == 9    \* LSR_ERROR_NO_TEXTURE
DbInconsistent     == 10   \* LSR_DB_INCONSISTENT
DbError            == 11   \* LSR_DB_ERROR
DbVersionMismatch  == 12   \* LSR_DB_DDHBIN_VERSION_MISMATCH
DbEmpty            == 13   \* LSR_DB_DDHBIN_EMPTY

EngineError == 0..13

\* TErrorCollector::operator=: a collector keeps the more severe error.
Worse(collected, err) == IF err > collected THEN err ELSE collected
=============================================================================
