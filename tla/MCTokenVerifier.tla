--------------------------- MODULE MCTokenVerifier ---------------------------
(* Two keys, and tokens of both that are genuine, forged or not for here.  *)
EXTENDS TokenVerifier

Genuine(kid, form) ==
  [kid |-> kid, signer |-> kid, standard |-> TRUE, exp |-> 9, tokenUse |-> "service",
   sub |-> "sst-bend", clientId |-> "sst-bend", scopes |-> {"chat:process"}, scopeForm |-> form]

MCKeys == {"k1", "k2"}

MCTokens ==
  { Genuine("k1", "text"), Genuine("k2", "list"),
    [Genuine("k1", "text") EXCEPT !.signer = "forger", !.exp = 1] }
=============================================================================
