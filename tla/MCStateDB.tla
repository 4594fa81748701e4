------------------------------ MODULE MCStateDB ------------------------------
(* Instances of StateDB for TLC: c1 is a deployed contract with storage and a *)
(* balance, n1 does not exist yet.                                           *)
EXTENDS StateDBRefinement

CONSTANTS c1, n1, k1, k2, v0, v1, code1, code2, noCode, l1

MCAccounts ==
  [a \in Addr |-> IF a = c1 THEN [nonce |-> 1, balance |-> 1, code |-> code1] ELSE Nil]

MCStorage ==
  [a \in Addr |-> [k \in Slot |-> IF a = c1 /\ k = k1 THEN v1 ELSE v0]]
==============================================================================
