----------------------------- MODULE StateDBSpec -----------------------------
(***************************************************************************)
(* What a StateDB promises the interpreter, without journal, caches or     *)
(* dirty marks: a snapshot is a copy of the whole world, a revert puts the *)
(* copy back, a commit stores the world in one step or not at all.         *)
(* Reads do not appear: they change nothing that can be seen.              *)
(***************************************************************************)
EXTENDS Integers, Sequences

CONSTANTS Addr, Slot, Val, Zero, Code, NoCode, Nil, LogData, RefundGas

VARIABLES
  world,   \* accounts, refund counter, logs and access list of the transaction
  saved,   \* the worlds copied by the snapshots still valid, oldest first
  stored,  \* the accounts between transactions
  over     \* the transaction has been committed or dropped

svars == <<world, saved, stored, over>>

NewAccount ==
  [nonce |-> 0, balance |-> 0, code |-> NoCode, suicided |-> FALSE,
   storage |-> [k \in Slot |-> Zero]]

EmptyWorld(accts) ==
  [view |-> accts, refund |-> 0, logs |-> <<>>, warm |-> {}, warmSlots |-> {}]

\* What one operation may make of an account (of a new one where it is absent).
Becomes(acct, new) ==
  \/ new = acct
  \/ new.balance \in Nat /\ new = [acct EXCEPT !.balance = new.balance]
  \/ new.nonce \in Nat /\ new = [acct EXCEPT !.nonce = new.nonce]
  \/ \E c \in Code : new = [acct EXCEPT !.code = c]
  \/ \E k \in Slot, v \in Val : new = [acct EXCEPT !.storage[k] = v]
  \/ new = [acct EXCEPT !.suicided = TRUE, !.balance = 0]
  \/ new = [NewAccount EXCEPT !.nonce = 1, !.balance = acct.balance]

AccountStep(a) ==
  LET acct == IF world.view[a] = Nil THEN NewAccount ELSE world.view[a]
      new == world'.view[a]
  IN
  /\ new # Nil /\ Becomes(acct, new)
  /\ world' = [world EXCEPT !.view[a] = new]

CounterStep ==
  \/ \E d \in LogData : world' = [world EXCEPT !.logs = Append(@, d)]
  \/ \E gas \in RefundGas : world' = [world EXCEPT !.refund = @ + gas]
  \/ \E gas \in RefundGas : world' = [world EXCEPT !.refund = @ - gas]

ListStep(a) ==
  \/ world' = [world EXCEPT !.warm = @ \cup {a}]
  \/ \E k \in Slot : world' = [world EXCEPT !.warm = @ \cup {a},
                                            !.warmSlots = @ \cup {<<a, k>>}]

Operate ==
  /\ ~over
  /\ CounterStep \/ \E a \in Addr : AccountStep(a) \/ ListStep(a)
  /\ UNCHANGED <<saved, stored, over>>

Snapshot ==
  /\ ~over /\ saved' = Append(saved, world)
  /\ UNCHANGED <<world, stored, over>>

Revert ==
  /\ ~over
  /\ \E r \in DOMAIN saved : world' = saved[r] /\ saved' = SubSeq(saved, 1, r - 1)
  /\ UNCHANGED <<stored, over>>

Persisted(acct) == IF acct # Nil /\ acct.suicided THEN Nil ELSE acct

Commit ==
  /\ ~over /\ over' = TRUE
  /\ stored' = [a \in Addr |-> Persisted(world.view[a])]
  /\ UNCHANGED <<world, saved>>

Drop ==
  /\ ~over /\ over' = TRUE
  /\ UNCHANGED <<world, saved, stored>>

NewTransaction ==
  /\ over /\ over' = FALSE
  /\ world' = EmptyWorld(stored) /\ saved' = <<>>
  /\ UNCHANGED stored

Init == world = EmptyWorld(stored) /\ saved = <<>> /\ over = FALSE

Next == Operate \/ Snapshot \/ Revert \/ Commit \/ Drop \/ NewTransaction

Spec == Init /\ [][Next]_svars
==============================================================================
