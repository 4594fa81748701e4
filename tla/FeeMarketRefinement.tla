------------------------ MODULE FeeMarketRefinement ------------------------
(* Ethereum and Cosmos transactions as transactions of the fee market.      *)
EXTENDS CosmosTx

\* For the fee market an Ethereum transaction is one of its transactions: the
\* ante handler's reservations and the gas meter's reading arrive together.
FM == INSTANCE FeeMarket WITH
          transientGasWanted <- IF stage = "idle" THEN transientGasWanted ELSE before

\* Every behaviour of the transaction flow is one of the fee market.
ImplementsFeeMarket == FM!Init /\ [][FM!Next]_(FM!feeVars)
=============================================================================
