------------------------------ MODULE MCERC20 ------------------------------
(* One pair of the module, one of an external contract, two transfers.       *)
EXTENDS ERC20
=============================================================================
