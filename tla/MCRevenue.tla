----------------------------- MODULE MCRevenue -----------------------------
(* Small instance of the revenue registrations: c1 was created by d1 and c2 *)
(* in a way that no sequence of nonces derives.                             *)
EXTENDS Revenue

CONSTANTS d1, d2, c1, c2

MCOrigin == [c \in Contracts |-> IF c = c1 THEN d1 ELSE Default]
=============================================================================
