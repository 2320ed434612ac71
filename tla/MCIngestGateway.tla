-------------------------- MODULE MCIngestGateway --------------------------
(* The gateway on two requests and two tokens, with room for one of them   *)
(* in the cache; only the first token has the scope that is asked for.     *)
EXTENDS IngestGateway
============================================================================
