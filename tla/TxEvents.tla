------------------------------ MODULE TxEvents ------------------------------
(* What a block says about its Ethereum transactions: the events that the    *)
(* ante handler and the message server emit, how ParseTxResult reads them    *)
(* back, and what IndexBlock writes for the same block.  A message is known  *)
(* by its place, <<height, transaction, message>>, which stands for its hash.*)
EXTENDS Integers, Sequences, SequencesExt, FiniteSetsExt, TLC

\* A transaction is [code, format, msgs]: how it ends ("ok"; "gas" when it
\* exceeds the gas of the block; "commit" when the StateDB cannot commit;
\* "failed" when its messages fail otherwise; "rejected" by the ante handler),
\* the format of the events of its release, and its messages
\* [gas, used, failed], of which a Cosmos transaction has none.
IsEthTx(tx) == tx.msgs # <<>>

TxSucessOrExpectedFailure(res) == res.code \in {"ok", "gas", "commit"}

SumOf(s) == FoldLeft(LAMBDA n, m : n + m, 0, s)

-----------------------------------------------------------------------------
(* Events of a transaction whose first message has index txIndex.           *)

\* EmitTxHashEvent has two attributes, the hash and the index.
TxHashEvent(h, i, j, txIndex) ==
    [hash |-> <<h, i, j>>, txIndex |-> txIndex, gasUsed |-> 0, failed |-> FALSE, attributes |-> 2]

EthereumTxEvent(h, i, j, txIndex, msg) ==
    [hash |-> <<h, i, j>>, txIndex |-> txIndex, gasUsed |-> msg.used, failed |-> msg.failed, attributes |-> 6]

\* The ante handler's events stay when the messages fail.  Old releases had
\* none of them.
TxEventsOf(h, i, tx, code, txIndex) ==
    (IF tx.format = 1 THEN <<>>
     ELSE [j \in DOMAIN tx.msgs |-> TxHashEvent(h, i, j, txIndex + j - 1)])
    \o (IF code # "ok" THEN <<>>
        ELSE [j \in DOMAIN tx.msgs |-> EthereumTxEvent(h, i, j, txIndex + j - 1, tx.msgs[j])])

\* The index of a message counts the messages that ran before it; the count
\* is rolled back with a transaction that fails.  Nothing runs in a block
\* whose gas is used up.
DeliverTx(h, txs, acc, i) ==
    LET tx == txs[i]
        code == IF acc.full THEN "rejected" ELSE tx.code
    IN  [full |-> acc.full \/ code = "gas",
         txIndex |-> IF code = "ok" THEN acc.txIndex + Len(tx.msgs) ELSE acc.txIndex,
         results |-> Append(acc.results,
             [code |-> code,
              gasUsed |-> SumOf([j \in DOMAIN tx.msgs |-> tx.msgs[j].used]),
              events |-> IF code = "rejected" THEN <<>> ELSE TxEventsOf(h, i, tx, code, acc.txIndex)])]

DeliverBlock(h, txs) ==
    FoldLeft(LAMBDA acc, i : DeliverTx(h, txs, acc, i), [full |-> FALSE, txIndex |-> 0, results |-> <<>>],
             [i \in DOMAIN txs |-> i]).results

-----------------------------------------------------------------------------
(* ParseTxResult.                                                           *)

\* fillTxAttributes
Parsed(ev) == [hash |-> ev.hash, ethTxIndex |-> ev.txIndex, gasUsed |-> ev.gasUsed, failed |-> ev.failed]

NewTx(p, ev) ==
    [p EXCEPT !.txs = Append(@, Parsed(ev)), !.txHashes = (ev.hash :> Len(p.txs) + 1) @@ @]

UpdateTx(p, n, ev) == [p EXCEPT !.txs[n] = Parsed(ev), !.txHashes = (ev.hash :> n) @@ @]

\* The first event tells the format.  In format 2 the n-th long event updates
\* the transaction that the n-th short event introduced.
ParseEvent(q, ev) ==
    LET p == [q EXCEPT !.format = IF @ # 0 THEN @ ELSE IF ev.attributes > 2 THEN 1 ELSE 2,
                       !.eventIndex = IF ev.attributes = 2 THEN @ ELSE @ + 1]
    IN  IF ev.attributes = 2 \/ p.format = 1 THEN NewTx(p, ev) ELSE UpdateTx(p, p.eventIndex, ev)

\* Fault: a transaction that failed keeps what its events say.
ParseTxResult_KeepsGas(res, tx) ==
    LET p == FoldLeft(ParseEvent, [format |-> 0, eventIndex |-> 0, txs |-> <<>>, txHashes |-> <<>>], res.events)
    IN  IF Len(p.txs) = 1 THEN [p EXCEPT !.txs[1].gasUsed = res.gasUsed] ELSE p

\* A single message takes the gas of the result, and one that failed is
\* charged its limit.
ParseTxResult(res, tx) ==
    LET p == FoldLeft(ParseEvent, [format |-> 0, eventIndex |-> 0, txs |-> <<>>, txHashes |-> <<>>], res.events)
        single == IF Len(p.txs) = 1 THEN [p EXCEPT !.txs[1].gasUsed = res.gasUsed] ELSE p
    IN  IF res.code = "ok" THEN single
        ELSE [single EXCEPT !.txs = [n \in DOMAIN @ |->
                 [@[n] EXCEPT !.failed = TRUE, !.gasUsed = tx.msgs[n].gas]]]

\* Indices of messages in p; zero is no message.
GetTxByMsgIndex(p, j) == IF j \in DOMAIN p.txs THEN j ELSE 0

GetTxByHash(p, hash) == IF hash \in DOMAIN p.txHashes THEN p.txHashes[hash] ELSE 0

GetTxByTxIndex(p, k) ==
    IF p.txs = <<>> THEN 0 ELSE GetTxByMsgIndex(p, k - p.txs[1].ethTxIndex + 1)

AccumulativeGasUsed(p, n) == SumOf([m \in 1 .. n |-> p.txs[m].gasUsed])

-----------------------------------------------------------------------------
(* The backend's answers without an indexer, from the node's search by       *)
(* events; a block is [txs, results].                                        *)

TxResult(h, i, j, ethTxIndex, failed, gasUsed, cumulative) ==
    [height |-> h, txIndex |-> i, msgIndex |-> j, ethTxIndex |-> ethTxIndex,
     failed |-> failed, gasUsed |-> gasUsed, cumulative |-> cumulative]

NotFound == "not found"

ParseTxIndexerResult(h, i, p, n) ==
    IF n = 0 THEN NotFound
    ELSE TxResult(h, i, n, p.txs[n].ethTxIndex, p.txs[n].failed, p.txs[n].gasUsed, AccumulativeGasUsed(p, n))

ParsedTxs(block, i) == ParseTxResult(block.results[i], block.txs[i])

\* The first transaction found is looked at, if it is one to answer with;
\* txGetter gives the message looked for in each that is found.
QueryTendermintTxIndexer(h, block, txGetter) ==
    LET i == Min(DOMAIN txGetter) IN
    IF DOMAIN txGetter = {} \/ ~TxSucessOrExpectedFailure(block.results[i]) THEN NotFound
    ELSE ParseTxIndexerResult(h, i, ParsedTxs(block, i), txGetter[i])

GetTxByEthHash(h, block, hash) ==
    LET found == {i \in DOMAIN block.txs : \E ev \in ToSet(block.results[i].events) : ev.hash = hash}
    IN  QueryTendermintTxIndexer(h, block, [i \in found |-> GetTxByHash(ParsedTxs(block, i), hash)])

GetTxByBlockAndIndex(h, block, k) ==
    LET found == {i \in DOMAIN block.txs : \E ev \in ToSet(block.results[i].events) : ev.txIndex = k}
    IN  QueryTendermintTxIndexer(h, block, [i \in found |-> GetTxByTxIndex(ParsedTxs(block, i), k)])

\* The messages of a block in order, as blocks are shown by JSON-RPC.
EthMsgsFromTendermintBlock(h, block) ==
    FlattenSeq([i \in DOMAIN block.txs |->
        IF TxSucessOrExpectedFailure(block.results[i])
        THEN [j \in DOMAIN block.txs[i].msgs |-> <<h, i, j>>] ELSE <<>>])

-----------------------------------------------------------------------------
(* IndexBlock.                                                              *)

\* Fault: messages are indexed by their place in their transaction.
SaveTxResult_ByMsgIndex(db, hash, r) ==
    [byHash |-> (hash :> r) @@ db.byHash, byIndex |-> (<<r.height, r.msgIndex>> :> hash) @@ db.byIndex]

SaveTxResult(db, hash, r) ==
    [byHash |-> (hash :> r) @@ db.byHash, byIndex |-> (<<r.height, r.ethTxIndex>> :> hash) @@ db.byIndex]

\* A message of a failed transaction is charged its limit; a message without
\* events is passed over.
IndexMsg(h, block, acc, hash) ==
    LET i == hash[2]
        j == hash[3]
        ok == block.results[i].code = "ok"
        p == ParseTxResult(block.results[i], block.txs[i])
        n == GetTxByMsgIndex(p, j)
        gasUsed == IF ok THEN p.txs[n].gasUsed ELSE block.txs[i].msgs[j].gas
        cumulative == gasUsed + (IF j = 1 THEN 0 ELSE acc.cumulative)
        r == TxResult(h, i, j, acc.ethTxIndex, IF ok THEN p.txs[n].failed ELSE TRUE, gasUsed, cumulative)
    IN  IF ok /\ n = 0 THEN acc
        ELSE [ethTxIndex |-> acc.ethTxIndex + 1, cumulative |-> cumulative,
              db |-> SaveTxResult(acc.db, hash, r)]

\* The database after the batch of a block.
IndexBlock(db, h, block) ==
    FoldLeft(LAMBDA acc, hash : IndexMsg(h, block, acc, hash),
             [ethTxIndex |-> 0, cumulative |-> 0, db |-> db],
             FlattenSeq([i \in DOMAIN block.txs |->
                 IF TxSucessOrExpectedFailure(block.results[i]) /\ IsEthTx(block.txs[i])
                 THEN [j \in DOMAIN block.txs[i].msgs |-> <<h, i, j>>] ELSE <<>>])).db
=============================================================================
