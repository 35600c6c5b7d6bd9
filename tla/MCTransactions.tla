---------------------------- MODULE MCTransactions ----------------------------
(* Small instances of Transactions for TLC: one charge point. *)
EXTENDS Transactions

CONSTANTS p, s1, s2, k1, k2

MCOf(s) == p
MCTo(k) == p
=============================================================================
