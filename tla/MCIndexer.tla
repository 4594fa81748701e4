----------------------------- MODULE MCIndexer ------------------------------
(* Blocks without Ethereum transactions, and with each way they can end.     *)
EXTENDS Indexer

Msg(used, failed) == [gas |-> 3, used |-> used, failed |-> failed]
Tx(code, msgs) == [code |-> code, format |-> 2, msgs |-> msgs]
Old(code, msgs) == [code |-> code, format |-> 1, msgs |-> msgs]

One == <<Msg(1, FALSE)>>
Two == <<Msg(1, TRUE), Msg(2, FALSE)>>

MCBlockChoices ==
    {<<Tx("ok", <<>>)>>,
     <<Tx("ok", Two), Tx("rejected", One), Tx("ok", One)>>,
     <<Tx("commit", Two), Tx("ok", One)>>,
     <<Tx("failed", One), Tx("ok", One), Tx("gas", Two), Tx("ok", One)>>,
     <<Old("ok", Two), Old("gas", One)>>}
=============================================================================
