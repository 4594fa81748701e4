------------------------------ MODULE Epochs ------------------------------
(* x/epochs: the block clock that numbers days and weeks.                   *)
(*                                                                          *)
(* BeginBlocker walks the stored epoch infos in key order and, for each one,*)
(* starts its first epoch, ends the current one, or leaves it alone.  The   *)
(* walk is modelled one epoch info at a time (todo is what is left of it),  *)
(* because the hook of an ended epoch runs inside it.  Heights and events   *)
(* are recorded by the code and read by nothing, and are left out.          *)
EXTENDS Integers, Sequences

CONSTANTS Duration,      \* Duration[id]: the length of an epoch of id
          GenesisTime,   \* block time of InitGenesis
          StartTimes,    \* start times a genesis file may state
          ZeroTime,      \* Go's zero time: "not set" in the genesis file
          MaxStep,       \* bound: longest time between two blocks
          MaxTime        \* bound: last block time explored

VARIABLES blockTime,     \* ctx.BlockTime()
          epochs,        \* the epoch infos, by identifier
          todo,          \* identifiers BeginBlocker has still to visit
          ended          \* the last call of AfterEpochEnd: its identifier and number

epochVars == <<blockTime, epochs, todo, ended>>

Identifiers == {"day", "week"}

\* The key order of the store.
KeyOrder == <<"day", "week">>

EpochInfo == [startTime : Int, currentEpoch : Nat, currentEpochStartTime : Int,
              started : BOOLEAN]

NoCall == [id |-> "none", number |-> 0]

ASSUME EpochsAssumption ==
    /\ Duration \in [Identifiers -> Nat \ {0}]
    /\ GenesisTime \in Nat /\ MaxTime \in Nat /\ MaxStep \in Nat
    /\ ZeroTime \in Int
    /\ ZeroTime < GenesisTime
    /\ StartTimes \subseteq Int

EpochsTypeOK ==
    /\ blockTime \in Int
    /\ epochs \in [Identifiers -> EpochInfo]
    /\ todo \in {KeyOrder, Tail(KeyOrder), <<>>}
    /\ ended \in [id : Identifiers \cup {"none"}, number : Nat]

-----------------------------------------------------------------------------
(* Genesis.                                                                 *)

\* The info of an identifier that has not started, as NewGenesisState lists it.
Unstarted(start) ==
    [startTime |-> start, currentEpoch |-> 0, currentEpochStartTime |-> ZeroTime,
     started |-> FALSE]

\* An epoch info is stored as the genesis file has it, except that one without a
\* start time starts with the chain.
InitGenesis(ei) == IF ei.startTime = ZeroTime THEN [ei EXCEPT !.startTime = GenesisTime] ELSE ei

\* A chain starts with unstarted infos.  The genesis exported from a running
\* chain holds infos that have a start time, and InitGenesis stores them as they
\* were: that chain continues from a state it had already reached.
EpochsInit ==
    /\ blockTime = GenesisTime
    /\ \E start \in [Identifiers -> StartTimes] :
          epochs = [id \in Identifiers |-> InitGenesis(Unstarted(start[id]))]
    /\ todo = <<>>
    /\ ended = NoCall

-----------------------------------------------------------------------------
(* The steps of BeginBlocker.                                               *)

\* Fault: start only in a block of exactly that time.
ShouldInitialEpochStart_Exact(ei) == ~ei.started /\ ei.startTime = blockTime

ShouldInitialEpochStart(ei) == ~ei.started /\ ei.startTime <= blockTime

ShouldEpochEnd(id, ei) ==
    /\ blockTime > ei.currentEpochStartTime + Duration[id]
    /\ ~ShouldInitialEpochStart(ei)
    /\ ei.startTime <= blockTime

StartInitialEpoch(ei) ==
    [ei EXCEPT !.started = TRUE, !.currentEpoch = 1, !.currentEpochStartTime = ei.startTime]

\* Fault: the next epoch starts at block time.
EndEpoch_BlockTime(id, ei) ==
    [ei EXCEPT !.currentEpoch = @ + 1, !.currentEpochStartTime = blockTime]

EndEpoch(id, ei) ==
    [ei EXCEPT !.currentEpoch = ei.currentEpoch + 1,
               !.currentEpochStartTime = ei.currentEpochStartTime + Duration[id]]

\* A block begins: its time is at least the time of the block before.
NewBlock ==
    /\ todo = <<>>
    /\ \E step \in 0 .. MaxStep : blockTime' = blockTime + step /\ blockTime' <= MaxTime
    /\ todo' = KeyOrder
    /\ UNCHANGED <<epochs, ended>>

\* BeginBlocker's visit of the next epoch info, one action per case of its
\* switch.  AfterEpochEnd is called with the number EndEpoch has just advanced;
\* BeforeEpochStart calls hooks that do nothing.
VisitStart ==
    /\ todo # <<>>
    /\ LET id == Head(todo) IN
          /\ ShouldInitialEpochStart(epochs[id])
          /\ epochs' = [epochs EXCEPT ![id] = StartInitialEpoch(@)]
    /\ todo' = Tail(todo)
    /\ UNCHANGED <<blockTime, ended>>

VisitEnd ==
    /\ todo # <<>>
    /\ LET id == Head(todo) IN
          /\ ShouldEpochEnd(id, epochs[id])
          /\ epochs' = [epochs EXCEPT ![id] = EndEpoch(id, @)]
          /\ ended' = [id |-> id, number |-> EndEpoch(id, epochs[id]).currentEpoch]
    /\ todo' = Tail(todo)
    /\ UNCHANGED blockTime

VisitNothing ==
    /\ todo # <<>>
    /\ LET id == Head(todo) IN
          /\ ~ShouldInitialEpochStart(epochs[id])
          /\ ~ShouldEpochEnd(id, epochs[id])
    /\ todo' = Tail(todo)
    /\ UNCHANGED <<blockTime, epochs, ended>>

-----------------------------------------------------------------------------
(* What the clock promises.                                                 *)

\* Epoch n of a started identifier begins exactly n - 1 durations after its
\* start time, however late the blocks come, and never in the future: the
\* clock catches up one epoch per block instead of re-anchoring on block time.
EpochAligned ==
    \A id \in Identifiers : LET ei == epochs[id] IN
        /\ ei.started =>
              /\ ei.currentEpoch >= 1
              /\ ei.currentEpochStartTime = ei.startTime + (ei.currentEpoch - 1) * Duration[id]
              /\ ei.currentEpochStartTime <= blockTime
        /\ ~ei.started => ei.currentEpoch = 0
=============================================================================
