--------------------------- MODULE StateDBHistory ---------------------------
(***************************************************************************)
(* What the interpreter sees of a StateDB, the history of it since the     *)
(* transaction began, and the properties of StateDB stated over both.      *)
(* hist[i] is the world just before the i-th journal entry was made and    *)
(* marks[r] the world when revision r was taken; final is the world when   *)
(* Commit began.  None of them influences a step.                          *)
(***************************************************************************)
EXTENDS StateDB

VARIABLES hist, marks, final

hvars == <<vars, hist, marks, final>>

\* An account as the getters of the StateDB report it.
ViewOf(a, o) ==
  IF o = Nil THEN Nil
  ELSE [nonce |-> o.nonce, balance |-> o.balance, code |-> o.code,
        suicided |-> o.suicided, storage |-> [k \in Slot |-> GetState(a, o, k)]]

AccountView == [nonce: Nat, balance: Nat, code: Code, suicided: BOOLEAN,
                storage: [Slot -> Val]]

ASSUME NilViewAssumption == Nil \notin AccountView

View == [a \in Addr |-> ViewOf(a, getStateObject(a))]

World == [view |-> View, dirties |-> dirties, refund |-> refund, logs |-> logs,
          addresses |-> addresses, slots |-> slots]

\* What undoing entry e must make of an account, of all accounts, of a world.
UndoAccount(e, acct) ==
  [nonce |-> IF e.kind = "nonce" THEN e.prev ELSE acct.nonce,
   balance |-> CASE e.kind = "balance" -> e.prev
                 [] e.kind = "suicide" -> e.prevbalance
                 [] OTHER -> acct.balance,
   code |-> IF e.kind = "code" THEN e.prevcode ELSE acct.code,
   suicided |-> IF e.kind = "suicide" THEN e.prev ELSE acct.suicided,
   storage |-> [k \in Slot |-> IF e.kind = "storage" /\ e.key = k THEN e.prevalue
                               ELSE acct.storage[k]]]

UndoView(e, v) ==
  [a \in Addr |->
     CASE e.kind = "create" /\ e.account = a -> Nil
       [] e.kind = "reset" /\ e.account = a -> ViewOf(a, e.prev)
       [] e.kind \in ObjectKinds /\ e.account = a -> UndoAccount(e, v[a])
       [] OTHER -> v[a]]

LastSlot(e, w) == e.kind = "listSlot" /\ w.slots[w.addresses[e.address]] \ {e.slot} = {}

Undo(e, w) ==
  [view |-> UndoView(e, w.view),
   dirties |-> Uncounted(w.dirties, e),
   refund |-> IF e.kind = "refund" THEN e.prev ELSE w.refund,
   logs |-> IF e.kind = "log" THEN SubSeq(w.logs, 1, Len(w.logs) - 1) ELSE w.logs,
   addresses |-> [a \in Addr |->
     CASE e.kind = "listAccount" /\ e.address = a -> Absent
       [] LastSlot(e, w) /\ e.address = a -> NoSlots
       [] OTHER -> w.addresses[a]],
   slots |->
     CASE LastSlot(e, w) -> SubSeq(w.slots, 1, w.addresses[e.address] - 1)
       [] e.kind = "listSlot" /\ ~LastSlot(e, w) ->
            [w.slots EXCEPT ![w.addresses[e.address]] = @ \ {e.slot}]
       [] OTHER -> w.slots]

\* A step makes at most two entries; the world between them is derived.
HistStep ==
  /\ hist' = [i \in 1 .. Len(journal') |->
                IF i <= Len(journal) THEN hist[i]
                ELSE IF i = Len(journal) + 1 THEN World
                ELSE Undo(journal'[i], World')]
  /\ marks' = [r \in 1 .. Len(validRevisions') |->
                IF r <= Len(validRevisions) THEN marks[r] ELSE World]
  /\ final' = IF pc = "run" /\ pc' = "commit" THEN World ELSE final

HInit == Init /\ hist = <<>> /\ marks = <<>> /\ final = World

HNext == Next /\ HistStep

HSpec == HInit /\ [][HNext]_hvars

------------------------------------------------------------------------------
(* Properties *)

\* The variables have their types: every journal entry is of a Go type of
\* journal.go, every revision points into the journal, counters are natural.
TypeOK ==
  /\ accounts \in [Addr -> Account \cup {Nil}]
  /\ storage \in [Addr -> [Slot -> Val]] /\ codes \subseteq Code
  /\ stateObjects \in [Addr -> stateObject \cup {Nil}]
  /\ journal \in Seq(JournalEntry) /\ dirties \in [Addr -> Nat]
  /\ validRevisions \in Seq([id: Nat, journalIndex: Nat]) /\ nextRevisionID \in Nat
  /\ refund \in Nat /\ logs \in Seq(LogData)
  /\ addresses \in [Addr -> Int] /\ slots \in Seq(SUBSET Slot)
  /\ frames \in Seq(Nat) /\ pc \in {"run", "revert", "commit", "done", "failed"}
  /\ target \in Nat /\ pending \subseteq Addr /\ txs \in Nat
  /\ base \in [Addr -> Account \cup {Nil}] \X [Addr -> [Slot -> Val]] \X SUBSET Code

\* RevertToSnapshot restores exactly what the interpreter saw when Snapshot
\* returned the id: every account, slot, log, refund and access list entry, and
\* the dirty counts, whatever was created, reset, destroyed or cached between.
RevertRestores ==
  pc = "revert" /\ Len(journal) = validRevisions[target].journalIndex
    => World = marks[target]

\* No iteration of journal.Revert dereferences a nil object, indexes the access
\* list at -1, cuts an empty log list or drives a dirty count below zero.
EntryUndoable ==
  pc = "revert" /\ Len(journal) > validRevisions[target].journalIndex =>
    LET e == journal[Len(journal)] IN
    /\ e.kind \in ObjectKinds => ~Fresh(e.account)
    /\ e.kind \in ObjectKinds \cup {"create"} => dirties[e.account] > 0
    /\ e.kind = "log" => logs # <<>>
    /\ e.kind = "listSlot" => /\ addresses[e.address] \in DOMAIN slots
                              /\ e.slot \in slots[addresses[e.address]]

\* accessList.go: "Since additions and rollbacks are always performed in order,
\* we can delete the item without worrying about screwing up later indices", and
\* journal.go: "no storage adds can remain when come upon a single (addr) change".
ListUndoneInOrder ==
  pc = "revert" /\ Len(journal) > validRevisions[target].journalIndex =>
    LET e == journal[Len(journal)] IN
    /\ e.kind = "listSlot" /\ slots[addresses[e.address]] = {e.slot}
         => addresses[e.address] = Len(slots)
    /\ e.kind = "listAccount" => addresses[e.address] = NoSlots

\* The id a call frame holds can still be reverted to when the frame fails
\* (RevertToSnapshot does not panic), whatever inner frames did meanwhile.
FramesRevertible ==
  pc = "run" => \A f \in DOMAIN frames : Revertible(frames[f])

\* Neither RevertToSnapshot nor journal.Revert ever panics or corrupts the
\* access list: the ids of open frames are found, each entry can be undone, and
\* list entries are undone in the order DeleteSlot relies on.
UndoSafe == EntryUndoable /\ ListUndoneInOrder /\ FramesRevertible

\* What the keeper holds of an account, in the terms of ViewOf.
StoreView(a) ==
  IF accounts[a] = Nil THEN Nil
  ELSE [nonce |-> accounts[a].nonce, balance |-> accounts[a].balance,
        code |-> accounts[a].code, suicided |-> FALSE, storage |-> storage[a]]

\* An account the interpreter sees changed is dirty, so Commit will visit it;
\* reverts that undo the change may clear the mark, and only they may.
DirtyTracked ==
  pc = "run" => \A a \in Addr : dirties[a] = 0 => View[a] = StoreView(a)

Persisted(acct) == IF acct # Nil /\ acct.suicided THEN Nil ELSE acct

\* After Commit the keeper holds what the interpreter saw when it began: each
\* account with nonce, balance, code and storage, nothing for suicided ones; and
\* the code of every account is in the code store, also when it was set,
\* reverted and set again (dirtyCode).
CommitPersists ==
  pc = "done" => \A a \in Addr :
    /\ StoreView(a) = Persisted(final.view[a])
    /\ accounts[a] # Nil /\ accounts[a].code # NoCode => accounts[a].code \in codes
==============================================================================
