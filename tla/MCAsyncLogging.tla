--------------------------- MODULE MCAsyncLogging ----------------------------
(* AsyncLogging for TLC. *)
EXTENDS AsyncLogging
==============================================================================
