--------------------------- MODULE MCAsyncMutexV1 ---------------------------
(***************************************************************************)
(* Four lock operations on one v1::async_mutex.                            *)
(***************************************************************************)
EXTENDS AsyncMutexV1, TLC

CONSTANTS w1, w2, w3, w4
=============================================================================
