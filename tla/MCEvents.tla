------------------------------ MODULE MCEvents ------------------------------
(* Two subscriptions for either server, to one topic or to two.              *)
EXTENDS Events

MCKindChoices == {<<"logs", "logs">>, <<"pending", "pending">>, <<"blocks", "pending">>}
=============================================================================
