---------------------------- MODULE MCTokenCache ----------------------------
(* TokenCache on a small instance.  The loader answers valid with an expiry *)
(* of the token's own, invalid, or fails.                                   *)
EXTENDS TokenCache

MCLoadResults ==
  {[kind |-> "valid", exp |-> 1], [kind |-> "invalid", exp |-> 0],
   [kind |-> "failed", exp |-> 0]}
=============================================================================
