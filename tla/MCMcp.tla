--------------------------------- MODULE MCMcp ---------------------------------
(* A stdio or an http server that is configured and changed once more,     *)
(* whose connection dies twice, with two attempts of a recovery.           *)
EXTENDS Mcp
=============================================================================
