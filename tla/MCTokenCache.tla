----------------------------- MODULE MCTokenCache -----------------------------
(* An instance of TokenCache: three requests, short leases and one that is     *)
(* left open.                                                                  *)
EXTENDS TokenCache

CONSTANTS p, q, r

Requests    == {p, q, r}
ShortLeases == {0, 3, 5}
=============================================================================
