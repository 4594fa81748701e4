------------------------------- MODULE StateDB -------------------------------
(***************************************************************************)
(* The EVM's view of the chain state during one transaction:               *)
(* x/evm/statedb (StateDB, stateObject, journal, accessList) over the      *)
(* keeper of x/evm/keeper/statedb.go.                                      *)
(*                                                                         *)
(* A StateDB caches accounts in stateObjects, records every change in a    *)
(* journal, undoes the journal on RevertToSnapshot and writes the dirty    *)
(* objects to the keeper on Commit.  The interpreter (go-ethereum,         *)
(* external) holds one snapshot id per call frame and reverts to the id of *)
(* the frame that failed.  The loops of journal.Revert and of Commit take  *)
(* one step per entry and per account; nothing interleaves with them.      *)
(***************************************************************************)
EXTENDS Integers, Sequences, FiniteSets

CONSTANTS
  Addr, Slot, Val, Zero,   \* account addresses, storage keys, storage values
  Code, NoCode,            \* contract codes; a code hash is its code
  Nil, Unset,              \* no object / account; key absent from a cache
  Amount, RefundGas,       \* inputs of Add/SubBalance and Add/SubRefund
  LogData,                 \* log payloads
  UsedAddr, WarmAddr,      \* addresses read and written, put on the access list
  accounts0, storage0,     \* the keeper when the first transaction starts
  MaxBalance, MaxNonce, MaxRefund, MaxJournal, MaxRevisions, MaxTx

ASSUME ConstantsAssumption ==
  /\ Zero \in Val /\ NoCode \in Code /\ Unset \notin Val
  /\ Amount \subseteq Nat /\ RefundGas \subseteq Nat
  /\ UsedAddr \subseteq Addr /\ WarmAddr \subseteq Addr
  /\ {MaxBalance, MaxNonce, MaxRefund, MaxJournal, MaxRevisions, MaxTx} \subseteq Nat

Account == [nonce: Nat, balance: Nat, code: Code]
Storage == [Slot -> Val \cup {Unset}]
stateObject == [nonce: Nat, balance: Nat, code: Code, originStorage: Storage,
                dirtyStorage: Storage, dirtyCode: BOOLEAN, suicided: BOOLEAN]

ASSUME NilAssumption == Nil \notin Account /\ Nil \notin stateObject

Blank(acct) == acct.nonce = 0 /\ acct.code = NoCode

\* Only an address that is or was a contract has storage.
ASSUME KeeperAssumption ==
  /\ accounts0 \in [Addr -> Account \cup {Nil}]
  /\ storage0 \in [Addr -> [Slot -> Val]]
  /\ \A a \in Addr : (accounts0[a] = Nil \/ Blank(accounts0[a]))
                      => storage0[a] = [k \in Slot |-> Zero]

VARIABLES
  accounts, storage, codes,  \* the keeper: auth+bank accounts, storage, code store
  stateObjects,              \* live objects of the StateDB
  journal, dirties,          \* entries, number of entries per dirtied address
  validRevisions, nextRevisionID,
  refund, logs,
  addresses, slots,          \* accessList: index into slots per address, slot sets
  frames,                    \* snapshot ids held by the interpreter's call frames
  pc, target, pending,       \* progress of the revert and of the commit loop
  base, txs                  \* keeper state the commit started from; transactions

keeperVars == <<accounts, storage, codes>>
listVars == <<addresses, slots>>
snapVars == <<validRevisions, nextRevisionID, frames>>
ctlVars == <<pc, target, pending, base, txs>>
vars == <<accounts, storage, codes, stateObjects, journal, dirties,
          validRevisions, nextRevisionID, refund, logs, addresses, slots,
          frames, pc, target, pending, base, txs>>

------------------------------------------------------------------------------
(* Journal entries: one record set per Go type of journal.go *)

Absent == -2    \* the address is not on the access list
NoSlots == -1   \* the address is on the list and has no slot

createObjectChange == [kind: {"create"}, account: Addr]
resetObjectChange == [kind: {"reset"}, account: Addr, prev: stateObject]
suicideChange == [kind: {"suicide"}, account: Addr, prev: BOOLEAN, prevbalance: Nat]
balanceChange == [kind: {"balance"}, account: Addr, prev: Nat]
nonceChange == [kind: {"nonce"}, account: Addr, prev: Nat]
codeChange == [kind: {"code"}, account: Addr, prevcode: Code]
storageChange == [kind: {"storage"}, account: Addr, key: Slot, prevalue: Val]
refundChange == [kind: {"refund"}, prev: Nat]
addLogChange == [kind: {"log"}]
accessListAddAccountChange == [kind: {"listAccount"}, address: Addr]
accessListAddSlotChange == [kind: {"listSlot"}, address: Addr, slot: Slot]

JournalEntry ==
  createObjectChange \cup resetObjectChange \cup suicideChange \cup balanceChange
    \cup nonceChange \cup codeChange \cup storageChange \cup refundChange
    \cup addLogChange \cup accessListAddAccountChange \cup accessListAddSlotChange

ObjectKinds == {"suicide", "balance", "nonce", "code", "storage"}

\* Fault: suicideChange reports no address as dirtied.
Dirtied_NotSuicide(e, a) ==
  e.kind \in (ObjectKinds \ {"suicide"}) \cup {"create"} /\ e.account = a

\* Dirtied() of each entry: the address whose count the entry carries.
Dirtied(e, a) == e.kind \in ObjectKinds \cup {"create"} /\ e.account = a

\* The counts d after journal.append(e), and after journal.Revert has undone e.
Counted(d, e) == [a \in Addr |-> IF Dirtied(e, a) THEN d[a] + 1 ELSE d[a]]

Uncounted(d, e) == [a \in Addr |-> IF Dirtied(e, a) THEN d[a] - 1 ELSE d[a]]

------------------------------------------------------------------------------
(* Objects *)

newObject(acct) ==
  [nonce |-> acct.nonce, balance |-> acct.balance, code |-> acct.code,
   originStorage |-> [k \in Slot |-> Unset],
   dirtyStorage |-> [k \in Slot |-> Unset],
   dirtyCode |-> FALSE, suicided |-> FALSE]

EmptyAccount == [nonce |-> 0, balance |-> 0, code |-> NoCode]

getStateObject(a) ==
  IF stateObjects[a] # Nil THEN stateObjects[a]
  ELSE IF accounts[a] = Nil THEN Nil ELSE newObject(accounts[a])

getOrNewStateObject(a) ==
  IF getStateObject(a) = Nil THEN newObject(EmptyAccount) ELSE getStateObject(a)

GetCommittedState(a, o, k) ==
  IF o.originStorage[k] # Unset THEN o.originStorage[k] ELSE storage[a][k]

GetState(a, o, k) ==
  IF o.dirtyStorage[k] # Unset THEN o.dirtyStorage[k] ELSE GetCommittedState(a, o, k)

\* The object after a GetState(k): a key read through is cached as origin.
Cached(a, o, k) ==
  IF o.dirtyStorage[k] # Unset THEN o
  ELSE [o EXCEPT !.originStorage[k] = GetCommittedState(a, o, k)]

setCode(o, c) == [o EXCEPT !.code = c, !.dirtyCode = TRUE]

------------------------------------------------------------------------------
(* Operations of the StateDB during execution *)

Running == pc = "run" /\ Len(journal) < MaxJournal

Fresh(a) == getStateObject(a) = Nil

\* The journal once getOrNewStateObject(a) has run: createObject journals.
Created(a) ==
  IF Fresh(a) THEN Append(journal, [kind |-> "create", account |-> a]) ELSE journal

CreatedDirties(a) ==
  IF Fresh(a) THEN Counted(dirties, [kind |-> "create", account |-> a]) ELSE dirties

\* Fault: the change is journalled before the creation of the object.
Change_EntryFirst(a, o, e) ==
  /\ stateObjects' = [stateObjects EXCEPT ![a] = o]
  /\ journal' = IF Fresh(a)
                THEN Append(Append(journal, e), [kind |-> "create", account |-> a])
                ELSE Append(journal, e)
  /\ dirties' = Counted(CreatedDirties(a), e)

\* getOrNewStateObject(a), then one journalled change e that leaves object o.
Change(a, o, e) ==
  /\ stateObjects' = [stateObjects EXCEPT ![a] = o]
  /\ journal' = Append(Created(a), e)
  /\ dirties' = Counted(CreatedDirties(a), e)

\* getOrNewStateObject(a) alone: object o is cached, nothing else is recorded.
Touch(a, o) ==
  /\ stateObjects' = [stateObjects EXCEPT ![a] = o]
  /\ journal' = Created(a)
  /\ dirties' = CreatedDirties(a)

ObjectOnly ==
  UNCHANGED <<keeperVars, snapVars, ctlVars, listVars, refund, logs>>

AddBalance(a, amount) ==
  LET o == getOrNewStateObject(a) IN
  /\ Running /\ o.balance + amount <= MaxBalance
  /\ IF amount = 0 THEN Touch(a, o)
     ELSE Change(a, [o EXCEPT !.balance = @ + amount],
                 [kind |-> "balance", account |-> a, prev |-> o.balance])
  /\ ObjectOnly

\* The interpreter checks the balance (CanTransfer) before it subtracts.
SubBalance(a, amount) ==
  LET o == getOrNewStateObject(a) IN
  /\ Running /\ amount <= o.balance
  /\ IF amount = 0 THEN Touch(a, o)
     ELSE Change(a, [o EXCEPT !.balance = @ - amount],
                 [kind |-> "balance", account |-> a, prev |-> o.balance])
  /\ ObjectOnly

\* The interpreter moves a nonce forward; before and after a creation
\* ApplyMessageWithConfig sets the sender's, which the ante handler has already
\* moved, back to the message's and one past it.  A sender is no contract: no
\* account with storage gets the nonce zero.
SetNonce(a, n) ==
  LET o == getOrNewStateObject(a) IN
  /\ Running
  /\ n = 0 => \A k \in Slot : {storage[a][k], GetState(a, o, k)} = {Zero}
  /\ Change(a, [o EXCEPT !.nonce = n],
            [kind |-> "nonce", account |-> a, prev |-> o.nonce])
  /\ ObjectOnly

\* The interpreter sets code once, at the end of a contract's creation.
SetCode(a, c) ==
  LET o == getOrNewStateObject(a) IN
  /\ Running /\ o.code = NoCode /\ o.nonce > 0
  /\ Change(a, setCode(o, c), [kind |-> "code", account |-> a, prevcode |-> o.code])
  /\ ObjectOnly

\* Only a contract, deployed or in creation, writes storage.
SetState(a, k, v) ==
  LET o == Cached(a, getOrNewStateObject(a), k)
      prev == GetState(a, o, k)
  IN
  /\ Running /\ ~Blank(o)
  /\ IF prev = v THEN Touch(a, o)
     ELSE Change(a, [o EXCEPT !.dirtyStorage[k] = v],
                 [kind |-> "storage", account |-> a, key |-> k, prevalue |-> prev])
  /\ ObjectOnly

\* Every getter of the StateDB: the object is loaded into the live set.
Exist(a) ==
  /\ pc = "run" /\ stateObjects[a] = Nil /\ ~Fresh(a)
  /\ Touch(a, getStateObject(a))
  /\ ObjectOnly

\* GetState and GetCommittedState of the StateDB cache the slot they read.
ReadState(a, k) ==
  /\ pc = "run" /\ ~Fresh(a)
  /\ Touch(a, Cached(a, getStateObject(a), k))
  /\ ObjectOnly

\* CreateAccount as evm.Call uses it, for an address that does not exist.
CreateAccount(a) ==
  /\ Running /\ Fresh(a)
  /\ Touch(a, newObject(EmptyAccount))
  /\ ObjectOnly

\* CreateAccount as evm.create uses it: the address has neither nonce nor code,
\* a balance it holds is carried over, and SetNonce(1) follows at once.
CreateContract(a) ==
  LET prev == getStateObject(a)
      o == newObject(EmptyAccount)
      new == IF prev = Nil THEN o ELSE [o EXCEPT !.balance = prev.balance]
      made == IF prev = Nil THEN [kind |-> "create", account |-> a]
              ELSE [kind |-> "reset", account |-> a, prev |-> prev]
      moved == [kind |-> "nonce", account |-> a, prev |-> 0]
  IN
  /\ Running /\ (prev # Nil => Blank(prev))
  /\ stateObjects' = [stateObjects EXCEPT ![a] = [new EXCEPT !.nonce = 1]]
  /\ journal' = Append(Append(journal, made), moved)
  /\ dirties' = Counted(Counted(dirties, made), moved)
  /\ ObjectOnly

Suicide(a) ==
  LET o == getStateObject(a) IN
  /\ Running /\ o # Nil
  /\ Change(a, [o EXCEPT !.suicided = TRUE, !.balance = 0],
            [kind |-> "suicide", account |-> a, prev |-> o.suicided,
             prevbalance |-> o.balance])
  /\ ObjectOnly

\* An entry that dirties no address.
Plain == UNCHANGED <<keeperVars, snapVars, ctlVars, stateObjects, dirties>>

AddLog(d) ==
  /\ Running
  /\ journal' = Append(journal, [kind |-> "log"])
  /\ logs' = Append(logs, d)
  /\ UNCHANGED <<refund, listVars>> /\ Plain

AddRefund(gas) ==
  /\ Running /\ refund + gas <= MaxRefund
  /\ journal' = Append(journal, [kind |-> "refund", prev |-> refund])
  /\ refund' = refund + gas
  /\ UNCHANGED <<logs, listVars>> /\ Plain

\* The interpreter never subtracts more than it added (the code panics).
SubRefund(gas) ==
  /\ Running /\ gas <= refund
  /\ journal' = Append(journal, [kind |-> "refund", prev |-> refund])
  /\ refund' = refund - gas
  /\ UNCHANGED <<logs, listVars>> /\ Plain

AddAddressToAccessList(a) ==
  /\ Running /\ addresses[a] = Absent
  /\ addresses' = [addresses EXCEPT ![a] = NoSlots]
  /\ journal' = Append(journal, [kind |-> "listAccount", address |-> a])
  /\ UNCHANGED <<slots, refund, logs>> /\ Plain

\* The index of an address counts from one here, from zero in the code.
AddSlotToAccessList(a, k) ==
  LET i == addresses[a]
      listed == [kind |-> "listAccount", address |-> a]
      added == [kind |-> "listSlot", address |-> a, slot |-> k]
  IN
  /\ Running
  /\ \/ /\ i \in {Absent, NoSlots}
        /\ addresses' = [addresses EXCEPT ![a] = Len(slots) + 1]
        /\ slots' = Append(slots, {k})
        /\ journal' = Append(IF i = Absent THEN Append(journal, listed) ELSE journal,
                             added)
     \/ /\ i \notin {Absent, NoSlots} /\ k \notin slots[i]
        /\ slots' = [slots EXCEPT ![i] = @ \cup {k}]
        /\ journal' = Append(journal, added)
        /\ UNCHANGED addresses
  /\ UNCHANGED <<refund, logs>> /\ Plain

------------------------------------------------------------------------------
(* Snapshots *)

DataVars == <<stateObjects, journal, dirties, refund, logs, listVars>>

\* A call frame opens: the interpreter keeps the id.
Snapshot ==
  /\ pc = "run" /\ nextRevisionID < MaxRevisions
  /\ validRevisions' = Append(validRevisions, [id |-> nextRevisionID,
                                               journalIndex |-> Len(journal)])
  /\ nextRevisionID' = nextRevisionID + 1
  /\ frames' = Append(frames, nextRevisionID)
  /\ UNCHANGED <<keeperVars, ctlVars, DataVars>>

\* A call frame succeeds: its revision stays in validRevisions.
FrameReturn ==
  /\ pc = "run" /\ frames # <<>>
  /\ frames' = SubSeq(frames, 1, Len(frames) - 1)
  /\ UNCHANGED <<keeperVars, ctlVars, DataVars, validRevisions, nextRevisionID>>

\* sort.Search: the first index whose id is not below revid, or one past the end.
Search(revid) ==
  CHOOSE i \in 1 .. Len(validRevisions) + 1 :
    /\ i <= Len(validRevisions) => validRevisions[i].id >= revid
    /\ \A j \in 1 .. i - 1 : validRevisions[j].id < revid

\* The revision RevertToSnapshot finds for revid; otherwise the code panics.
Revertible(revid) ==
  /\ Search(revid) <= Len(validRevisions)
  /\ validRevisions[Search(revid)].id = revid

\* The innermost call frame fails: RevertToSnapshot(id of the frame).
RevertToSnapshot ==
  LET revid == frames[Len(frames)] IN
  /\ pc = "run" /\ frames # <<>> /\ Revertible(revid)
  /\ pc' = "revert" /\ target' = Search(revid)
  /\ frames' = SubSeq(frames, 1, Len(frames) - 1)
  /\ UNCHANGED <<keeperVars, DataVars, validRevisions, nextRevisionID, pending, base, txs>>

\* Fault: suicideChange.Revert does not restore the suicided mark.
RevertObjects_StaysSuicided(e) ==
  LET a == e.account
      Set(o) == [stateObjects EXCEPT ![a] = o]
  IN
  CASE e.kind = "create" -> Set(Nil)
    [] e.kind = "reset" -> Set(e.prev)
    [] e.kind = "suicide" /\ ~Fresh(a) ->
         Set([getStateObject(a) EXCEPT !.balance = e.prevbalance])
    [] e.kind = "balance" -> Set([getStateObject(a) EXCEPT !.balance = e.prev])
    [] e.kind = "nonce" -> Set([getStateObject(a) EXCEPT !.nonce = e.prev])
    [] e.kind = "code" -> Set(setCode(getStateObject(a), e.prevcode))
    [] e.kind = "storage" ->
         Set([getStateObject(a) EXCEPT !.dirtyStorage[e.key] = e.prevalue])
    [] OTHER -> stateObjects

RevertObjects(e) ==
  LET a == e.account
      Set(o) == [stateObjects EXCEPT ![a] = o]
  IN
  CASE e.kind = "create" -> Set(Nil)
    [] e.kind = "reset" -> Set(e.prev)
    [] e.kind = "suicide" /\ ~Fresh(a) ->
         Set([getStateObject(a) EXCEPT !.suicided = e.prev, !.balance = e.prevbalance])
    [] e.kind = "balance" -> Set([getStateObject(a) EXCEPT !.balance = e.prev])
    [] e.kind = "nonce" -> Set([getStateObject(a) EXCEPT !.nonce = e.prev])
    [] e.kind = "code" -> Set(setCode(getStateObject(a), e.prevcode))
    [] e.kind = "storage" ->
         Set([getStateObject(a) EXCEPT !.dirtyStorage[e.key] = e.prevalue])
    [] OTHER -> stateObjects

\* accessList.DeleteSlot: the set that becomes empty and all after it are cut.
DeleteSlot(a, k) ==
  LET i == addresses[a]
      left == slots[i] \ {k}
  IN
  IF left = {}
  THEN /\ slots' = SubSeq(slots, 1, i - 1)
       /\ addresses' = [addresses EXCEPT ![a] = NoSlots]
  ELSE /\ slots' = [slots EXCEPT ![i] = left]
       /\ UNCHANGED addresses

RevertList(e) ==
  \/ e.kind = "listSlot" /\ DeleteSlot(e.address, e.slot)
  \/ /\ e.kind = "listAccount"
     /\ addresses' = [addresses EXCEPT ![e.address] = Absent]
     /\ UNCHANGED slots
  \/ e.kind \notin {"listSlot", "listAccount"} /\ UNCHANGED listVars

\* One iteration of journal.Revert: the newest entry is undone and dropped.
UndoEntry ==
  LET e == journal[Len(journal)] IN
  /\ pc = "revert" /\ Len(journal) > validRevisions[target].journalIndex
  /\ stateObjects' = RevertObjects(e)
  /\ dirties' = Uncounted(dirties, e)
  /\ refund' = IF e.kind = "refund" THEN e.prev ELSE refund
  /\ logs' = IF e.kind = "log" THEN SubSeq(logs, 1, Len(logs) - 1) ELSE logs
  /\ RevertList(e)
  /\ journal' = SubSeq(journal, 1, Len(journal) - 1)
  /\ UNCHANGED <<keeperVars, snapVars, ctlVars>>

\* The loop is over: the revision and every later one are dropped.
RevertDone ==
  /\ pc = "revert" /\ Len(journal) = validRevisions[target].journalIndex
  /\ validRevisions' = SubSeq(validRevisions, 1, target - 1)
  /\ pc' = "run" /\ target' = 0
  /\ UNCHANGED <<keeperVars, DataVars, nextRevisionID, frames, pending, base, txs>>

------------------------------------------------------------------------------
(* Commit *)

\* The transaction is over: Commit iterates over the dirty addresses.
Commit ==
  /\ pc = "run" /\ frames = <<>>
  /\ pc' = "commit" /\ pending' = {a \in Addr : dirties[a] > 0}
  /\ base' = keeperVars
  /\ UNCHANGED <<keeperVars, snapVars, DataVars, target, txs>>

\* keeper.DeleteAccount: nothing to do for an account never stored.
DeleteAccount(a) ==
  /\ accounts' = [accounts EXCEPT ![a] = Nil]
  /\ storage' = [storage EXCEPT ![a] =
                   IF accounts[a] = Nil THEN @ ELSE [k \in Slot |-> Zero]]
  /\ UNCHANGED codes

\* Fault: a slot set to zero is taken for an unchanged one.
Origin_Zero(o, k) == Zero

\* The value Commit compares with: a key missing from originStorage reads zero.
Origin(o, k) == IF o.originStorage[k] = Unset THEN Zero ELSE o.originStorage[k]

\* keeper.SetCode if the code is dirty, keeper.SetAccount, keeper.SetState of
\* each dirty slot whose value is not the original one.
WriteAccount(a, o) ==
  /\ codes' = IF o.dirtyCode /\ o.code # NoCode THEN codes \cup {o.code} ELSE codes
  /\ accounts' = [accounts EXCEPT ![a] =
                    [nonce |-> o.nonce, balance |-> o.balance, code |-> o.code]]
  /\ storage' = [storage EXCEPT ![a] =
                   [k \in Slot |-> IF o.dirtyStorage[k] \in {Unset, Origin(o, k)}
                                   THEN storage[a][k] ELSE o.dirtyStorage[k]]]

CommitAccount(a) ==
  /\ pc = "commit" /\ a \in pending
  /\ IF stateObjects[a].suicided THEN DeleteAccount(a) ELSE WriteAccount(a, stateObjects[a])
  /\ pending' = pending \ {a}
  /\ UNCHANGED <<snapVars, DataVars, pc, target, base, txs>>

\* Fault: what was written before the error stays.
CommitError_Partial ==
  /\ pc = "commit" /\ pending # {}
  /\ pc' = "failed" /\ pending' = {}
  /\ UNCHANGED <<keeperVars, snapVars, DataVars, target, base, txs>>

\* The bank or the auth keeper refuses: Commit returns the error and the caller
\* drops the branch of the store, with what was written so far.
CommitError ==
  /\ pc = "commit" /\ pending # {}
  /\ pc' = "failed" /\ pending' = {}
  /\ accounts' = base[1] /\ storage' = base[2] /\ codes' = base[3]
  /\ UNCHANGED <<snapVars, DataVars, target, base, txs>>

CommitDone ==
  /\ pc = "commit" /\ pending = {}
  /\ pc' = "done"
  /\ UNCHANGED <<keeperVars, snapVars, DataVars, target, pending, base, txs>>

Clear ==
  /\ stateObjects' = [a \in Addr |-> Nil] /\ dirties' = [a \in Addr |-> 0]
  /\ journal' = <<>> /\ refund' = 0 /\ logs' = <<>>
  /\ addresses' = [a \in Addr |-> Absent] /\ slots' = <<>>
  /\ validRevisions' = <<>> /\ nextRevisionID' = 0 /\ frames' = <<>>

\* The next transaction gets a new StateDB over the same keeper.
New ==
  /\ pc \in {"done", "failed"} /\ txs < MaxTx
  /\ Clear
  /\ pc' = "run" /\ txs' = txs + 1
  /\ UNCHANGED <<keeperVars, target, pending, base>>

------------------------------------------------------------------------------
Init ==
  /\ accounts = accounts0 /\ storage = storage0
  /\ codes = {accounts0[a].code : a \in {b \in Addr : accounts0[b] # Nil}} \ {NoCode}
  /\ stateObjects = [a \in Addr |-> Nil] /\ dirties = [a \in Addr |-> 0]
  /\ journal = <<>> /\ refund = 0 /\ logs = <<>>
  /\ addresses = [a \in Addr |-> Absent] /\ slots = <<>>
  /\ validRevisions = <<>> /\ nextRevisionID = 0 /\ frames = <<>>
  /\ pc = "run" /\ target = 0 /\ pending = {} /\ txs = 1
  /\ base = <<accounts0, storage0, codes>>

ObjectNext(a) ==
  \/ \E n \in Amount : AddBalance(a, n) \/ SubBalance(a, n)
  \/ \E n \in 0 .. MaxNonce : SetNonce(a, n)
  \/ \E c \in Code : SetCode(a, c)
  \/ \E k \in Slot, v \in Val : SetState(a, k, v)
  \/ Exist(a)
  \/ \E k \in Slot : ReadState(a, k)
  \/ CreateAccount(a) \/ CreateContract(a) \/ Suicide(a)

PlainNext ==
  \/ \E d \in LogData : AddLog(d)
  \/ \E gas \in RefundGas : AddRefund(gas) \/ SubRefund(gas)
  \/ \E a \in WarmAddr : AddAddressToAccessList(a)
  \/ \E a \in WarmAddr, k \in Slot : AddSlotToAccessList(a, k)

Next ==
  \/ \E a \in UsedAddr : ObjectNext(a)
  \/ PlainNext
  \/ Snapshot \/ FrameReturn \/ RevertToSnapshot \/ UndoEntry \/ RevertDone
  \/ Commit \/ CommitError \/ CommitDone \/ New
  \/ \E a \in Addr : CommitAccount(a)

Spec == Init /\ [][Next]_vars
==============================================================================
