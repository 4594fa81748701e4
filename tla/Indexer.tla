------------------------------- MODULE Indexer ------------------------------
(* The indexer of Ethereum transactions: its database, the service that      *)
(* follows the chain while the node runs, and the command that indexes old   *)
(* blocks while it does not.  A process may stop between any two steps, and  *)
(* a batch is written whole or not at all.                                   *)
EXTENDS TxEvents

CONSTANTS MaxHeight,    \* bound: blocks of the chain
          BlockChoices  \* bound: what a block may contain, a set of sequences of transactions

VARIABLES chain,       \* blocks of the node, [txs, results]
          db,          \* [byHash, byIndex]
          proc,        \* "none", "service", "backward" or "forward"
          pc,          \* where the service is
          receiver,    \* whether the goroutine of the service has to notify
          headers,     \* headers sent to the subscription and not yet received
          latestBlock, \* variable of the service, shared by its goroutines
          signal,      \* newBlockSignal
          lastBlock,   \* variable of the service
          height,      \* the block the loop of the service or the command is at
          unwritten,   \* history: blocks whose batch failed to be written by the service
          finished     \* history: the command that ended last, without an error and with nothing since

service == <<pc, receiver, headers, latestBlock, signal, lastBlock>>
vars == <<chain, db, proc, service, height, unwritten, finished>>

Heights == 1 .. MaxHeight

EmptyDB == [byHash |-> <<>>, byIndex |-> <<>>]

Init ==
    /\ chain = <<>> /\ db = EmptyDB
    /\ proc = "none" /\ pc = "status" /\ receiver = "receive" /\ headers = <<>>
    /\ latestBlock = 0 /\ signal = FALSE /\ lastBlock = 0 /\ height = 0
    /\ unwritten = {} /\ finished = "none"

\* LoadLastBlock and LoadFirstBlock: -1 when the database is empty.
IndexedBlocks == {key[1] : key \in DOMAIN db.byIndex}
LastIndexedBlock == IF IndexedBlocks = {} THEN -1 ELSE Max(IndexedBlocks)
FirstIndexedBlock == IF IndexedBlocks = {} THEN -1 ELSE Min(IndexedBlocks)

\* The node makes a block; without the service it may do so as well, but not
\* while a command has its databases open.
MakeBlock(txs) ==
    /\ proc \in {"none", "service"} /\ Len(chain) < MaxHeight
    /\ chain' = Append(chain, [txs |-> txs, results |-> DeliverBlock(Len(chain) + 1, txs)])
    /\ headers' = IF proc = "service" /\ pc \notin {"status", "subscribe"}
                  THEN Append(headers, Len(chain) + 1) ELSE headers
    /\ finished' = "none"
    /\ UNCHANGED <<db, proc, pc, receiver, latestBlock, signal, lastBlock, height, unwritten>>

\* Whatever runs stops, by a crash or by an error it returns; only the
\* databases remain.
Stop ==
    /\ proc # "none" /\ proc' = "none"
    /\ pc' = "status" /\ receiver' = "receive" /\ headers' = <<>>
    /\ latestBlock' = 0 /\ signal' = FALSE /\ lastBlock' = 0 /\ height' = 0
    /\ UNCHANGED <<chain, db, unwritten, finished>>

-----------------------------------------------------------------------------
(* EVMIndexerService.OnStart.                                               *)

StartService ==
    /\ proc = "none" /\ proc' = "service" /\ finished' = "none"
    /\ UNCHANGED <<chain, db, service, height, unwritten>>

Running(at) == proc = "service" /\ pc = at

Status ==
    /\ Running("status") /\ latestBlock' = Len(chain) /\ pc' = "subscribe"
    /\ UNCHANGED <<chain, db, proc, receiver, headers, signal, lastBlock, height, unwritten, finished>>

Subscribe ==
    /\ Running("subscribe") /\ pc' = "load"
    /\ UNCHANGED <<chain, db, proc, receiver, headers, latestBlock, signal, lastBlock, height, unwritten, finished>>

\* The goroutine writes latestBlock, which the loop reads without a lock,
\* and then notifies unless a signal is there already.
ReceiveHeader ==
    /\ proc = "service" /\ receiver = "receive" /\ headers # <<>>
    /\ headers' = Tail(headers)
    /\ IF Head(headers) > latestBlock
       THEN latestBlock' = Head(headers) /\ receiver' = "notify"
       ELSE UNCHANGED <<latestBlock, receiver>>
    /\ UNCHANGED <<chain, db, proc, pc, signal, lastBlock, height, unwritten, finished>>

Notify ==
    /\ proc = "service" /\ receiver = "notify"
    /\ signal' = TRUE /\ receiver' = "receive"
    /\ UNCHANGED <<chain, db, proc, pc, headers, latestBlock, lastBlock, height, unwritten, finished>>

\* Fault: a restart goes on from the present.
LoadLastBlock_Latest ==
    /\ Running("load") /\ lastBlock' = latestBlock /\ pc' = "loop"
    /\ UNCHANGED <<chain, db, proc, receiver, headers, latestBlock, signal, height, unwritten, finished>>

LoadLastBlock ==
    /\ Running("load") /\ pc' = "loop"
    /\ lastBlock' = IF LastIndexedBlock = -1 THEN latestBlock ELSE LastIndexedBlock
    /\ UNCHANGED <<chain, db, proc, receiver, headers, latestBlock, signal, height, unwritten, finished>>

Loop ==
    /\ Running("loop")
    /\ IF latestBlock <= lastBlock
       THEN pc' = "wait" /\ UNCHANGED height
       ELSE pc' = "fetch" /\ height' = lastBlock + 1
    /\ UNCHANGED <<chain, db, proc, receiver, headers, latestBlock, signal, lastBlock, unwritten, finished>>

\* A signal, or the timeout.
Wait ==
    /\ Running("wait") /\ pc' = "loop" /\ signal' = FALSE
    /\ UNCHANGED <<chain, db, proc, receiver, headers, latestBlock, lastBlock, height, unwritten, finished>>

FetchBlock ==
    /\ Running("fetch")
    /\ pc' = IF height <= latestBlock THEN "index" ELSE "loop"
    /\ UNCHANGED <<chain, db, proc, receiver, headers, latestBlock, signal, lastBlock, height, unwritten, finished>>

\* Fault: a block that cannot be fetched ends the service.
FetchFails_Ends ==
    /\ Running("fetch") /\ height <= latestBlock /\ pc' = "ended"
    /\ UNCHANGED <<chain, db, proc, receiver, headers, latestBlock, signal, lastBlock, height, unwritten, finished>>

FetchFails ==
    /\ Running("fetch") /\ height <= latestBlock /\ pc' = "loop"
    /\ UNCHANGED <<chain, db, proc, receiver, headers, latestBlock, signal, lastBlock, height, unwritten, finished>>

\* The loop goes on after a batch that could not be written.
IndexNext(written) ==
    /\ Running("index")
    /\ db' = IF written THEN IndexBlock(db, height, chain[height]) ELSE db
    /\ unwritten' = IF written THEN unwritten \ {height} ELSE unwritten \cup {height}
    /\ lastBlock' = height /\ height' = height + 1 /\ pc' = "fetch"
    /\ UNCHANGED <<chain, proc, receiver, headers, latestBlock, signal, finished>>

-----------------------------------------------------------------------------
(* The command index-eth-tx.                                                *)

StartBackward ==
    /\ proc = "none" /\ proc' = "backward" /\ finished' = "none"
    /\ height' = (IF FirstIndexedBlock = -1 THEN Len(chain) ELSE FirstIndexedBlock) - 1
    /\ UNCHANGED <<chain, db, service, unwritten>>

StartForward ==
    /\ proc = "none" /\ proc' = "forward" /\ finished' = "none"
    /\ height' = (IF LastIndexedBlock = -1 THEN 0 ELSE LastIndexedBlock) + 1
    /\ UNCHANGED <<chain, db, service, unwritten>>

InRange == IF proc = "backward" THEN height > 0 ELSE height <= Len(chain)

\* A block that cannot be loaded or indexed ends the command, as Stop does.
CommandBlock ==
    /\ proc \in {"backward", "forward"} /\ InRange
    /\ db' = IndexBlock(db, height, chain[height])
    /\ unwritten' = unwritten \ {height}
    /\ height' = IF proc = "backward" THEN height - 1 ELSE height + 1
    /\ UNCHANGED <<chain, proc, service, finished>>

CommandEnds ==
    /\ proc \in {"backward", "forward"} /\ ~InRange
    /\ proc' = "none" /\ finished' = proc /\ height' = 0
    /\ UNCHANGED <<chain, db, service, unwritten>>

ServiceStep ==
    \/ Status \/ Subscribe \/ LoadLastBlock \/ Loop \/ Wait
    \/ \E written \in BOOLEAN : IndexNext(written)

Next ==
    \/ \E txs \in BlockChoices : MakeBlock(txs)
    \/ Stop \/ StartService \/ StartBackward \/ StartForward
    \/ ServiceStep \/ FetchBlock \/ FetchFails \/ ReceiveHeader \/ Notify
    \/ CommandBlock \/ CommandEnds

\* The goroutines run, and fetching a block does not fail for ever.
Spec ==
    /\ Init /\ [][Next]_vars
    /\ WF_vars(ServiceStep) /\ SF_vars(FetchBlock) /\ WF_vars(ReceiveHeader) /\ WF_vars(Notify)

-----------------------------------------------------------------------------
(* Properties.                                                              *)

EthMsgs(h) == EthMsgsFromTendermintBlock(h, chain[h])
Indexed(h) == h \in DOMAIN chain /\ \A hash \in ToSet(EthMsgs(h)) : hash \in DOMAIN db.byHash

\* Both tables of the database name the same messages: the message at each
\* index of a block has a result with that index, and the indices of a block
\* are those of its messages as JSON-RPC shows them.
TablesAgree ==
    /\ {<<r.height, r.ethTxIndex>> : r \in {db.byHash[x] : x \in DOMAIN db.byHash}} = DOMAIN db.byIndex
    /\ \A key \in DOMAIN db.byIndex :
          LET msgs == EthMsgs(key[1])
          IN  /\ key[2] + 1 \in DOMAIN msgs /\ msgs[key[2] + 1] = db.byIndex[key]
              /\ db.byHash[db.byIndex[key]].ethTxIndex = key[2]

\* How the transactions before one in its block ended.
Before(r) == {chain[r.height].results[i].code : i \in 1 .. r.txIndex - 1}

\* The database answers as the search by events does, gas, failure and index
\* alike, unless the StateDB failed to commit in that block before: the
\* message is then indexed, but not counted by the chain.  Old releases have
\* no events of a failure.
LookupsAgree ==
    \A hash \in DOMAIN db.byHash :
        LET r == db.byHash[hash]
            block == chain[r.height]
        IN  IF block.txs[r.txIndex].format = 1 /\ block.results[r.txIndex].code # "ok"
            THEN GetTxByEthHash(r.height, block, hash) = NotFound
            ELSE /\ "commit" \notin Before(r) => GetTxByEthHash(r.height, block, hash) = r
                 /\ Before(r) \cap {"commit", "failed"} = {} =>
                       GetTxByBlockAndIndex(r.height, block, r.ethTxIndex) = r

Covered(from, to) == \A h \in from .. to : h > 0 /\ h \notin unwritten => Indexed(h)

\* Between the first and the last indexed block no Ethereum message is
\* missing, whenever the node or a command stopped and whichever ran next,
\* except for batches that failed to be written.  A command that ends has
\* indexed all blocks in its direction: backward down to the first one, from
\* the last that is indexed or, on an empty database, from below the latest;
\* forward up to the latest.
NoGaps ==
    /\ Covered(FirstIndexedBlock, LastIndexedBlock)
    /\ finished = "backward" =>
          Covered(1, IF IndexedBlocks = {} THEN Len(chain) - 1 ELSE LastIndexedBlock)
    /\ finished = "forward" =>
          Covered(IF IndexedBlocks = {} THEN 1 ELSE FirstIndexedBlock, Len(chain))

\* A block the service knows of and is behind of is indexed in the end,
\* unless its batch cannot be written or the node stops: no signal is needed
\* that is not there.
FollowsChain ==
    \A h \in Heights :
        proc = "service" /\ pc \notin {"status", "subscribe", "load"} /\ lastBlock < h /\ h <= latestBlock
            ~> proc # "service" \/ h \in unwritten \/ Indexed(h)
=============================================================================
