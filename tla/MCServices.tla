------------------------------ MODULE MCServices ------------------------------
\* Two endpoints for services; model values for their addresses.
EXTENDS Services

CONSTANTS a1, a2, c1, c2, c3

TwoAndOne == (c1 :> "omx") @@ (c2 :> "rpc") @@ (c3 :> "omx")
TwoEndpoints == <<a1, a2>>
=============================================================================
