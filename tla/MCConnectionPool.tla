-------------------------- MODULE MCConnectionPool --------------------------
(* Instances of ConnectionPool for TLC; no symmetry, because of the        *)
(* liveness properties.                                                    *)
EXTENDS ConnectionPool
=============================================================================
