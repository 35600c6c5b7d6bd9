----------------------------- MODULE MCOcppBridge -----------------------------
(* Small instances of OcppBridge for TLC. *)
EXTENDS OcppBridge

CONSTANTS p, q,          \* charge points
          s1, s2, t1,    \* connections of p, one of q
          k1             \* a command for p

MCOf(s) == IF s = t1 THEN q ELSE p
MCTo(k) == p
=============================================================================
