------------------------------ MODULE MCRcmJobs ------------------------------
\* Two pools, each with a worker or both workers in the one that is not the
\* default pool.
EXTENDS RcmJobs

CONSTANTS w1, w2

TwoPools == <<"default", "other">>
OneEach == (w1 :> "default") @@ (w2 :> "other")
NoneInDefault == (w1 :> "other") @@ (w2 :> "other")
BothWays == {OneEach, NoneInDefault}
=============================================================================
