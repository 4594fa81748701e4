---------------------------- MODULE StateDBWorlds ----------------------------
(***************************************************************************)
(* Proofs about StateDB, for every set of addresses, slots, values and     *)
(* codes and every bound.  The inductive invariant says that the journal   *)
(* is a chain: undoing entry i takes the world after it to the world       *)
(* recorded before it.  A revert walks the chain down, so it ends in the   *)
(* world of its snapshot, and never meets an entry it cannot undo.  This   *)
(* module states the invariant and proves that a step keeps it when it     *)
(* records undoable entries, as the operations on the refund counter, the  *)
(* logs and the access list do, or begins, continues or ends Commit.  The  *)
(* last part says what Commit relies on in the objects and the journal,    *)
(* and when that survives an entry made or undone.                         *)
(***************************************************************************)
EXTENDS StateDBHistory, TLAPS

------------------------------------------------------------------------------
(* Sequences *)

\* The elements of a sequence over S are in S.
LEMMA ElementOfSeq ==
    ASSUME NEW S, NEW seq \in Seq(S), NEW n \in 1..Len(seq)
    PROVE  seq[n] \in S
OBVIOUS

\* Sequences of the same length and elements are equal.
LEMMA SeqEqual ==
    ASSUME NEW S, NEW s \in Seq(S), NEW t \in Seq(S), Len(s) = Len(t),
           \A i \in 1..Len(s) : s[i] = t[i]
    PROVE  s = t
OBVIOUS

\* Length and elements of a subsequence.
LEMMA SubSeqProperties ==
    ASSUME NEW S, NEW s, NEW m \in Int, NEW n \in Int, \A i \in m..n : s[i] \in S
    PROVE  /\ SubSeq(s, m, n) \in Seq(S)
           /\ Len(SubSeq(s, m, n)) = IF m <= n THEN n - m + 1 ELSE 0
           /\ \A i \in 1..(n - m + 1) : SubSeq(s, m, n)[i] = s[m + i - 1]
OBVIOUS

\* Appending adds one element at the end.
LEMMA AppendProperties ==
    ASSUME NEW S, NEW s \in Seq(S), NEW x \in S
    PROVE  /\ Append(s, x) \in Seq(S) /\ Append(s, x) # <<>>
           /\ Len(s) \in Nat /\ Len(Append(s, x)) = Len(s) + 1
           /\ DOMAIN s = 1 .. Len(s) /\ DOMAIN Append(s, x) = 1 .. Len(s) + 1
           /\ Append(s, x)[Len(s) + 1] = x
           /\ \A i \in 1 .. Len(s) : Append(s, x)[i] = s[i]
OBVIOUS

\* Dropping the last element undoes an append.
LEMMA AppendUndone ==
    ASSUME NEW S, NEW s \in Seq(S), NEW x \in S
    PROVE  SubSeq(Append(s, x), 1, Len(Append(s, x)) - 1) = s
OBVIOUS

\* Replacing an element changes that element only.
LEMMA SeqExcept ==
    ASSUME NEW S, NEW s \in Seq(S), NEW n \in 1 .. Len(s), NEW x \in S
    PROVE  /\ [s EXCEPT ![n] = x] \in Seq(S) /\ Len([s EXCEPT ![n] = x]) = Len(s)
           /\ DOMAIN [s EXCEPT ![n] = x] = DOMAIN s /\ DOMAIN s = 1 .. Len(s)
           /\ [s EXCEPT ![n] = x][n] = x
           /\ \A j \in DOMAIN s : j # n => [s EXCEPT ![n] = x][j] = s[j]
OBVIOUS

------------------------------------------------------------------------------
(* The inductive invariant *)

WorldType ==
  [view: [Addr -> AccountView \cup {Nil}], dirties: [Addr -> Nat], refund: Nat,
   logs: Seq(LogData), addresses: [Addr -> Int], slots: Seq(SUBSET Slot)]

\* What every world of a transaction satisfies: an account that is not there is
\* not dirty, one that is not dirty is as stored, and the access list's indices
\* point to slot sets, none of them empty.
WorldOK(w) ==
  /\ w \in WorldType
  /\ \A a \in Addr : w.view[a] = Nil => w.dirties[a] = 0
  /\ \A a \in Addr : w.dirties[a] = 0 => w.view[a] = StoreView(a)
  /\ \A a \in Addr : w.addresses[a] \in {Absent, NoSlots} \cup DOMAIN w.slots
  /\ \A i \in DOMAIN w.slots : w.slots[i] # {}

\* What the undo of entry e relies on in the world w after it.
EntryOK(e, w) ==
  /\ e \in JournalEntry
  /\ e.kind \in ObjectKinds \cup {"create"} => w.dirties[e.account] > 0
  /\ e.kind \in ObjectKinds \cup {"reset"} => w.view[e.account] # Nil
  /\ e.kind = "create" => accounts[e.account] = Nil
  /\ e.kind = "log" => w.logs # <<>>
  /\ e.kind = "listAccount" => w.addresses[e.address] = NoSlots
  /\ e.kind = "listSlot" =>
       /\ w.addresses[e.address] \in DOMAIN w.slots
       /\ e.slot \in w.slots[w.addresses[e.address]]
       /\ w.slots[w.addresses[e.address]] = {e.slot} => w.addresses[e.address] = Len(w.slots)

\* The world before entry i; after the last entry, the present one.
WorldAt(i) == IF i <= Len(journal) THEN hist[i] ELSE World

Chain ==
  /\ hist \in [1 .. Len(journal) -> WorldType]
  /\ \A i \in 1 .. Len(journal) + 1 : WorldOK(WorldAt(i))
  /\ \A i \in 1 .. Len(journal) : /\ EntryOK(journal[i], WorldAt(i + 1))
                                  /\ Undo(journal[i], WorldAt(i + 1)) = WorldAt(i)

\* The revisions a revert in progress does not drop, its target included.
Live == IF pc = "revert" THEN target ELSE Len(validRevisions)

Revisions ==
  /\ Live \in 0 .. Len(validRevisions)
  /\ pc = "revert" => Live > 0
  /\ DOMAIN marks = 1 .. Len(validRevisions)
  /\ \A r \in 1 .. Live :
       /\ validRevisions[r].id < nextRevisionID
       /\ validRevisions[r].journalIndex <= Len(journal)
       /\ marks[r] = WorldAt(validRevisions[r].journalIndex + 1)
       /\ \A q \in 1 .. r - 1 :
            /\ validRevisions[q].id < validRevisions[r].id
            /\ validRevisions[q].journalIndex <= validRevisions[r].journalIndex

\* Each open frame holds the id of a revision that no revert in progress drops.
Frames ==
  /\ \A f \in 1 .. Len(frames) : \A g \in 1 .. f - 1 : frames[g] < frames[f]
  /\ \A f \in 1 .. Len(frames) :
       \E r \in 1 .. Live : /\ validRevisions[r].id = frames[f]
                            /\ pc = "revert" => r # target

IInv ==
  /\ TypeOK
  /\ pc \in {"run", "revert"} =>
       /\ Chain /\ Revisions /\ Frames
       /\ \A a \in Addr : dirties[a] > 0 => stateObjects[a] # Nil
  /\ pc = "commit" => \A a \in pending : stateObjects[a] # Nil

------------------------------------------------------------------------------
(* Objects and what is seen of them *)

\* The view of an object is an account view, and not Nil.
LEMMA ObjectView ==
  ASSUME TypeOK, NEW a \in Addr, NEW o \in stateObject
  PROVE  ViewOf(a, o) \in AccountView /\ ViewOf(a, o) # Nil
<1>1. o # Nil
  BY NilAssumption
<1>2. \A k \in Slot : GetState(a, o, k) \in Val
  BY SMTT(30) DEF TypeOK, GetState, GetCommittedState, stateObject, Storage
<1>3. ViewOf(a, o) \in AccountView
  BY <1>1, <1>2 DEF ViewOf, AccountView, stateObject
<1>. QED BY <1>3, NilViewAssumption

\* An object made of an account is an object.
LEMMA NewObjectType ==
  ASSUME NEW acct \in Account
  PROVE  newObject(acct) \in stateObject
BY DEF newObject, Account, stateObject, Storage

\* The empty account is an account.
LEMMA EmptyAccountType == EmptyAccount \in Account
BY ConstantsAssumption DEF EmptyAccount, Account

\* getStateObject finds an object or nothing, getOrNewStateObject an object.
LEMMA GetObjectType ==
  ASSUME TypeOK, NEW a \in Addr
  PROVE  /\ getStateObject(a) \in stateObject \cup {Nil}
         /\ getOrNewStateObject(a) \in stateObject
         /\ ~Fresh(a) => getOrNewStateObject(a) = getStateObject(a)
<1>1. accounts[a] # Nil => newObject(accounts[a]) \in stateObject
  BY NewObjectType DEF TypeOK
<1>2. newObject(EmptyAccount) \in stateObject
  BY NewObjectType, EmptyAccountType
<1>3. getStateObject(a) \in stateObject \cup {Nil}
  BY <1>1 DEF getStateObject, TypeOK
<1>. QED BY <1>2, <1>3 DEF getOrNewStateObject, Fresh

\* The view has its type, and shows nothing exactly where there is no object.
LEMMA ViewType ==
  ASSUME TypeOK
  PROVE  /\ View \in [Addr -> AccountView \cup {Nil}]
         /\ \A a \in Addr : View[a] = Nil <=> Fresh(a)
<1>1. ASSUME NEW a \in Addr
      PROVE  /\ ViewOf(a, getStateObject(a)) \in AccountView \cup {Nil}
             /\ ViewOf(a, getStateObject(a)) = Nil <=> Fresh(a)
  <2>1. CASE getStateObject(a) = Nil
    BY <2>1 DEF ViewOf, Fresh
  <2>2. CASE getStateObject(a) # Nil
    BY <2>2, GetObjectType, ObjectView DEF Fresh
  <2>. QED BY <2>1, <2>2
<1>. QED BY <1>1 DEF View

\* Replacing one object changes the view of that account only.
LEMMA ViewExcept ==
  ASSUME TypeOK, NEW a \in Addr, NEW o \in stateObject,
         stateObjects' = [stateObjects EXCEPT ![a] = o],
         UNCHANGED <<accounts, storage>>
  PROVE  View' = [View EXCEPT ![a] = ViewOf(a, o)]
<1>1. o # Nil
  BY NilAssumption
<1>2. \A b \in Addr : getStateObject(b)' = IF b = a THEN o ELSE getStateObject(b)
  BY <1>1 DEF getStateObject, TypeOK
<1>3. \A b \in Addr : ViewOf(b, getStateObject(b))'
                        = IF b = a THEN ViewOf(a, o) ELSE ViewOf(b, getStateObject(b))
  BY <1>2 DEF ViewOf, GetState, GetCommittedState
<1>. QED BY <1>3, Zenon DEF View

\* The fields of an entry, by its kind.
LEMMA EntryFields ==
  ASSUME NEW e \in JournalEntry
  PROVE  /\ e.kind \in ObjectKinds \cup {"create", "reset"} => e.account \in Addr
         /\ e.kind = "reset" => e.prev \in stateObject
         /\ e.kind = "suicide" => e.prev \in BOOLEAN /\ e.prevbalance \in Nat
         /\ e.kind \in {"balance", "nonce", "refund"} => e.prev \in Nat
         /\ e.kind = "code" => e.prevcode \in Code
         /\ e.kind = "storage" => e.key \in Slot /\ e.prevalue \in Val
         /\ e.kind \in {"listAccount", "listSlot"} => e.address \in Addr
         /\ e.kind = "listSlot" => e.slot \in Slot
BY SMTT(30) DEF JournalEntry, createObjectChange, resetObjectChange, suicideChange, balanceChange,
       nonceChange, codeChange, storageChange, refundChange, addLogChange,
       accessListAddAccountChange, accessListAddSlotChange, ObjectKinds

------------------------------------------------------------------------------
(* Steps that extend the journal *)

\* While the keeper is untouched, worlds and entries are judged as before.
LEMMA KeeperFixed ==
  ASSUME UNCHANGED <<accounts, storage>>, NEW e, NEW w
  PROVE  /\ EntryOK(e, w)' <=> EntryOK(e, w)
         /\ WorldOK(w)' <=> WorldOK(w)
         /\ Undo(e, w)' = Undo(e, w)
<1>1. EntryOK(e, w)' <=> EntryOK(e, w)
  BY DEF EntryOK
<1>2. \A a \in Addr : StoreView(a)' = StoreView(a)
  BY DEF StoreView
<1>3. WorldOK(w)' <=> WorldOK(w)
  BY <1>2 DEF WorldOK
<1>4. \A a \in Addr : ViewOf(a, e.prev)' = ViewOf(a, e.prev)
  BY DEF ViewOf, GetState, GetCommittedState
<1>5. UndoView(e, w.view)' = UndoView(e, w.view)
  BY <1>4 DEF UndoView, UndoAccount
<1>6. Undo(e, w)' = Undo(e, w)
  BY <1>5 DEF Undo
<1>. QED BY <1>1, <1>3, <1>6

\* The worlds recorded so far stay as they are when the journal grows.
LEMMA WorldsKept ==
  ASSUME TypeOK, TypeOK', HistStep, Len(journal') >= Len(journal),
         Len(journal') = Len(journal) => World' = World
  PROVE  \A i \in 1 .. Len(journal) + 1 : WorldAt(i)' = WorldAt(i)
<1>1. Len(journal) \in Nat /\ Len(journal') \in Nat
  BY SMTT(30) DEF TypeOK
<1>2. \A i \in 1 .. Len(journal) : hist'[i] = hist[i]
  BY <1>1 DEF HistStep
<1>3. Len(journal') > Len(journal) => hist'[Len(journal) + 1] = World
  BY <1>1 DEF HistStep
<1>. QED BY <1>1, <1>2, <1>3 DEF WorldAt

\* What an operation leaves alone: everything the revisions and frames are about.
Operation ==
  /\ pc = "run"
  /\ UNCHANGED <<keeperVars, snapVars, ctlVars>>
  /\ HistStep

\* An operation that keeps the journal, or extends it, keeps the revisions.
LEMMA RevisionsKept ==
  ASSUME IInv, TypeOK', Operation, Len(journal') >= Len(journal),
         Len(journal') = Len(journal) => World' = World
  PROVE  Revisions' /\ Frames'
<1>1. pc' = pc /\ Live' = Live /\ Live = Len(validRevisions)
  BY DEF Operation, snapVars, ctlVars, Live
<1>2. Len(journal) \in Nat /\ Len(journal') \in Nat /\ Len(validRevisions) \in Nat
  BY SMTT(30) DEF IInv, TypeOK
<1>3. \A i \in 1 .. Len(journal) + 1 : WorldAt(i)' = WorldAt(i)
  BY WorldsKept DEF IInv, Operation
<1>4. DOMAIN marks' = 1 .. Len(validRevisions') /\ \A r \in 1 .. Live : marks'[r] = marks[r]
  BY <1>1, <1>2 DEF Operation, HistStep, snapVars
<1>5. UNCHANGED <<validRevisions, nextRevisionID, frames>>
  BY DEF Operation, snapVars
<1>6. \A r \in 1 .. Live : validRevisions[r].journalIndex \in Nat
  <2>1. validRevisions \in Seq([id: Nat, journalIndex: Nat])
    BY DEF IInv, TypeOK
  <2>2. \A r \in 1 .. Len(validRevisions) : validRevisions[r] \in [id: Nat, journalIndex: Nat]
    BY <2>1, ElementOfSeq, Zenon
  <2>. QED BY <1>1, <2>2
<1>7. Revisions /\ Frames
  BY DEF IInv, Operation
<1>8. \A r \in 1 .. Live : WorldAt(validRevisions[r].journalIndex + 1)'
                             = WorldAt(validRevisions[r].journalIndex + 1)
  BY <1>1, <1>2, <1>3, <1>5, <1>6, <1>7 DEF Revisions
<1>9. Revisions'
  BY <1>1, <1>2, <1>4, <1>5, <1>6, <1>7, <1>8 DEF Revisions
<1>10. Frames'
  BY <1>1, <1>5, <1>7, Zenon DEF Frames, Operation
<1>. QED BY <1>9, <1>10

\* The three ways an operation may treat the journal: leave it and the world as
\* they are, append an entry that undoes the step, append two.
AppendsNone == journal' = journal /\ World' = World

Undoable(e, w, before) == WorldOK(w) /\ EntryOK(e, w) /\ Undo(e, w) = before

AppendsOne == \E e : journal' = Append(journal, e) /\ Undoable(e, World', World)

AppendsTwo ==
  \E e1, e2 : /\ journal' = Append(Append(journal, e1), e2)
              /\ Undoable(e2, World', Undo(e2, World'))
              /\ Undoable(e1, Undo(e2, World'), World)

Recorded == AppendsNone \/ AppendsOne \/ AppendsTwo

\* The chain so far stays a chain.
LEMMA ChainPrefix ==
  ASSUME Chain, TypeOK, UNCHANGED <<accounts, storage>>,
         \A i \in 1 .. Len(journal) + 1 : WorldAt(i)' = WorldAt(i),
         \A i \in 1 .. Len(journal) : journal'[i] = journal[i]
  PROVE  /\ \A i \in 1 .. Len(journal) + 1 : WorldOK(WorldAt(i))'
         /\ \A i \in 1 .. Len(journal) :
              /\ EntryOK(journal[i], WorldAt(i + 1))'
              /\ (Undo(journal[i], WorldAt(i + 1)) = WorldAt(i))'
<1>1. \A i \in 1 .. Len(journal) : i + 1 \in 1 .. Len(journal) + 1 /\ i \in 1 .. Len(journal) + 1
  BY DEF TypeOK
<1>2. \A i \in 1 .. Len(journal) + 1 : WorldOK(WorldAt(i))'
  BY KeeperFixed DEF Chain
<1>3. \A i \in 1 .. Len(journal) : EntryOK(journal[i], WorldAt(i + 1))'
  BY <1>1, KeeperFixed DEF Chain
<1>4. \A i \in 1 .. Len(journal) : (Undo(journal[i], WorldAt(i + 1)) = WorldAt(i))'
  BY <1>1, KeeperFixed, SMTT(30) DEF Chain
<1>. QED BY <1>2, <1>3, <1>4

\* Such an operation keeps the chain.
LEMMA ChainKept ==
  ASSUME IInv, TypeOK', Operation, Recorded
  PROVE  Chain' /\ Revisions' /\ Frames'
<1>0. PICK n \in Nat : n = Len(journal)
  BY DEF IInv, TypeOK
<1>1. n = Len(journal) /\ Len(journal') \in Nat /\ journal \in Seq(JournalEntry)
  BY <1>0 DEF IInv, TypeOK
<1>2. UNCHANGED <<accounts, storage>>
  BY DEF Operation, keeperVars
<1>3. Chain /\ TypeOK
  BY SMTT(30) DEF IInv, Operation
<1>4. WorldAt(n + 1) = World /\ WorldOK(World) /\ World \in WorldType
  BY <1>1, <1>3 DEF WorldAt, Chain, WorldOK
<1>5. CASE AppendsNone
  <2>1. \A i \in 1 .. n + 1 : WorldAt(i)' = WorldAt(i)
    BY <1>1, <1>5, WorldsKept DEF AppendsNone, IInv, Operation
  <2>2. hist' = hist
    BY <1>1, <1>3, <1>5 DEF Operation, HistStep, AppendsNone, Chain
  <2>3. Chain'
    BY <1>1, <1>2, <1>3, <1>5, <2>1, <2>2, ChainPrefix DEF Chain, AppendsNone
  <2>. QED BY <1>1, <1>5, <2>3, RevisionsKept DEF AppendsNone
<1>6. CASE AppendsOne
  <2>1. PICK e : journal' = Append(journal, e) /\ Undoable(e, World', World)
    BY <1>6 DEF AppendsOne
  <2>2. /\ Len(journal') = n + 1 /\ journal'[n + 1] = e
        /\ \A i \in 1 .. n : journal'[i] = journal[i]
    BY <1>1, <2>1 DEF Undoable, EntryOK
  <2>3. \A i \in 1 .. n + 1 : WorldAt(i)' = WorldAt(i)
    BY <1>1, <2>2, WorldsKept DEF IInv, Operation
  <2>4. WorldAt(n + 2)' = World'
    BY <1>1, <2>2, SMTT(30) DEF WorldAt
  <2>5. hist' \in [1 .. n + 1 -> WorldType]
    BY <1>1, <1>3, <1>4, <2>2 DEF Operation, HistStep, Chain
  <2>6. WorldOK(WorldAt(n + 2))'
    BY <1>2, <2>1, <2>4, KeeperFixed, SMTT(30) DEF Undoable
  <2>7. EntryOK(journal[n + 1], WorldAt(n + 2))'
    BY <1>2, <2>1, <2>2, <2>4, KeeperFixed, SMTT(30) DEF Undoable
  <2>8. Undo(journal[n + 1], WorldAt(n + 2))' = WorldAt(n + 1)'
    BY <1>1, <1>2, <1>4, <2>1, <2>2, <2>3, <2>4, KeeperFixed, SMTT(30) DEF Undoable
  <2>9. Chain'
    BY <1>1, <1>2, <1>3, <2>2, <2>3, <2>5, <2>6, <2>7, <2>8, ChainPrefix, SMTT(30) DEF Chain
  <2>. QED BY <1>1, <2>2, <2>9, RevisionsKept
<1>7. CASE AppendsTwo
  <2>1. PICK e1, e2 : /\ journal' = Append(Append(journal, e1), e2)
                      /\ Undoable(e2, World', Undo(e2, World'))
                      /\ Undoable(e1, Undo(e2, World'), World)
    BY <1>7, SMTT(30) DEF AppendsTwo
  <2>2. /\ Len(journal') = n + 2 /\ journal'[n + 1] = e1 /\ journal'[n + 2] = e2
        /\ \A i \in 1 .. n : journal'[i] = journal[i]
    <3>1. e1 \in JournalEntry /\ e2 \in JournalEntry
      BY <2>1, Zenon DEF Undoable, EntryOK
    <3>. QED BY <1>1, <2>1, <3>1, SMTT(30)
  <2>3. \A i \in 1 .. n + 1 : WorldAt(i)' = WorldAt(i)
    BY <1>1, <2>2, WorldsKept DEF IInv, Operation
  <2>4. WorldAt(n + 3)' = World'
    BY <1>1, <2>2, SMTT(30) DEF WorldAt
  <2>5. hist'[n + 2] = Undo(e2, World')
    BY <1>1, <2>2 DEF Operation, HistStep
  <2>6. WorldAt(n + 2)' = Undo(e2, World')
    BY <1>1, <2>2, <2>5 DEF WorldAt
  <2>7. hist' \in [1 .. n + 2 -> WorldType]
    <3>1. Undo(e2, World') \in WorldType
      BY <2>1 DEF WorldOK, Undoable
    <3>2. \A i \in 1 .. n : hist[i] \in WorldType
      BY <1>1, <1>3, SMTT(30) DEF Chain
    <3>3. \A i \in 1 .. n + 2 : hist'[i] = IF i <= n THEN hist[i]
                                       ELSE IF i = n + 1 THEN World ELSE Undo(e2, World')
      BY <1>1, <2>2, <2>5 DEF Operation, HistStep
    <3>4. \A i \in 1 .. n + 2 : hist'[i] \in WorldType
      BY <1>4, <3>1, <3>2, <3>3
    <3>. QED BY <1>1, <2>2, <3>4, SMTT(30) DEF Operation, HistStep
  <2>8. WorldOK(WorldAt(n + 2))' /\ WorldOK(WorldAt(n + 3))'
    BY <1>2, <2>1, <2>4, <2>6, KeeperFixed, SMTT(30) DEF Undoable
  <2>9. EntryOK(journal[n + 1], WorldAt(n + 2))' /\ EntryOK(journal[n + 2], WorldAt(n + 3))'
    BY <1>2, <2>1, <2>2, <2>4, <2>6, KeeperFixed, SMTT(30) DEF Undoable
  <2>10. Undo(journal[n + 1], WorldAt(n + 2))' = WorldAt(n + 1)'
    BY <1>1, <1>2, <1>4, <2>1, <2>2, <2>3, <2>6, KeeperFixed, SMTT(30) DEF Undoable
  <2>11. Undo(journal[n + 2], WorldAt(n + 3))' = WorldAt(n + 2)'
    BY <1>1, <1>2, <2>1, <2>2, <2>4, <2>6, KeeperFixed, SMTT(30) DEF Undoable
  <2>12. Chain'
    <3>1. /\ \A i \in 1 .. n + 1 : WorldOK(WorldAt(i))'
          /\ \A i \in 1 .. n : /\ EntryOK(journal[i], WorldAt(i + 1))'
                             /\ (Undo(journal[i], WorldAt(i + 1)) = WorldAt(i))'
      BY <1>1, <1>2, <1>3, <2>2, <2>3, ChainPrefix
    <3>2. \A i \in 1 .. n + 3 : WorldOK(WorldAt(i))'
      BY <2>8, <3>1
    <3>3. \A i \in 1 .. n + 2 : /\ EntryOK(journal[i], WorldAt(i + 1))'
                                /\ (Undo(journal[i], WorldAt(i + 1)) = WorldAt(i))'
      BY <2>9, <2>10, <2>11, <3>1
    <3>4. Len(journal') + 1 = n + 3
      BY <2>2
    <3>. QED BY <2>2, <2>7, <3>2, <3>3, <3>4, Zenon DEF Chain
  <2>. QED BY <1>1, <2>2, <2>12, RevisionsKept
<1>. QED BY <1>5, <1>6, <1>7 DEF Recorded

------------------------------------------------------------------------------
(* The present world *)

\* The present world with other accounts and dirty counts.
ObjectWorld(v, d) ==
  [view |-> v, dirties |-> d, refund |-> refund, logs |-> logs,
   addresses |-> addresses, slots |-> slots]

\* The present world with another view and dirty count of account a.
AccountWorld(a, acct, n) ==
  ObjectWorld([View EXCEPT ![a] = acct], [dirties EXCEPT ![a] = n])

\* In a running transaction the present world is well formed.
LEMMA WorldNow ==
  ASSUME IInv, pc \in {"run", "revert"}
  PROVE  TypeOK /\ WorldOK(World) /\ World = ObjectWorld(View, dirties)
<1>1. Len(journal) \in Nat /\ Chain /\ TypeOK
  BY DEF IInv, TypeOK
<1>2. WorldAt(Len(journal) + 1) = World
  BY <1>1 DEF WorldAt
<1>3. WorldOK(World)
  BY <1>1, <1>2 DEF Chain
<1>. QED BY <1>1, <1>3 DEF World, ObjectWorld

------------------------------------------------------------------------------
(* Operations on the refund counter, the logs and the access list *)

\* The present world with other counters, logs and access list.
PlainWorld(r, l, ad, sl) ==
  [view |-> View, dirties |-> dirties, refund |-> r, logs |-> l,
   addresses |-> ad, slots |-> sl]

PlainKinds == {"refund", "log", "listAccount", "listSlot"}

\* Undoing such an entry leaves accounts and dirty counts alone.
LEMMA UndoPlain ==
  ASSUME TypeOK, NEW e, e.kind \in PlainKinds, NEW w, w.view = View, w.dirties = dirties
  PROVE  Undo(e, w) = PlainWorld(Undo(e, w).refund, Undo(e, w).logs,
                                 Undo(e, w).addresses, Undo(e, w).slots)
<1>1. View \in [Addr -> AccountView \cup {Nil}] /\ dirties \in [Addr -> Nat]
  BY ViewType, Zenon DEF TypeOK
<1>2. e.kind \notin ObjectKinds \cup {"create", "reset"}
  BY DEF PlainKinds, ObjectKinds
<1>3. \A a \in Addr : ~Dirtied(e, a)
  BY <1>2 DEF Dirtied
<1>4. UndoView(e, View) = View
  <2>1. \A a \in Addr : UndoView(e, View)[a] = View[a]
    BY <1>2 DEF UndoView
  <2>. QED BY <1>1, <2>1 DEF UndoView
<1>5. Uncounted(dirties, e) = dirties
  BY <1>1, <1>3 DEF Uncounted
<1>. QED BY <1>4, <1>5 DEF Undo, PlainWorld


\* The kinds of these entries.
LEMMA PlainKind ==
  ASSUME NEW e, e.kind = "refund" \/ e.kind = "log" \/ e.kind = "listAccount" \/ e.kind = "listSlot"
  PROVE  e.kind \in PlainKinds
BY DEF PlainKinds

\* A world that differs from the present one in these parts only, with a well
\* formed access list, is well formed.
LEMMA PlainWorldOK ==
  ASSUME TypeOK, WorldOK(World), NEW r \in Nat, NEW l \in Seq(LogData),
         NEW ad \in [Addr -> Int], NEW sl \in Seq(SUBSET Slot),
         \A a \in Addr : ad[a] \in {Absent, NoSlots} \cup DOMAIN sl,
         \A i \in DOMAIN sl : sl[i] # {}
  PROVE  WorldOK(PlainWorld(r, l, ad, sl))
<1>. DEFINE w == PlainWorld(r, l, ad, sl)
<1>1. View \in [Addr -> AccountView \cup {Nil}]
  BY ViewType, SMTT(30)
<1>2. w \in WorldType
  BY <1>1 DEF PlainWorld, WorldType, TypeOK
<1>3. w.view = View /\ w.dirties = dirties /\ w.addresses = ad /\ w.slots = sl
  BY Zenon DEF PlainWorld
<1>4. \A a \in Addr : (View[a] = Nil => dirties[a] = 0) /\ (dirties[a] = 0 => View[a] = StoreView(a))
  BY Zenon DEF WorldOK, World
<1>. HIDE DEF w
<1>5. WorldOK(w)
  BY <1>2, <1>3, <1>4 DEF WorldOK
<1>. QED BY <1>5 DEF w

\* The present world as one of these, and the next one after such an operation.
LEMMA PlainNow ==
  ASSUME TypeOK, TypeOK', WorldOK(World), Plain
  PROVE  /\ World = PlainWorld(refund, logs, addresses, slots)
         /\ World' = PlainWorld(refund', logs', addresses', slots')
         /\ \A a \in Addr : addresses[a] \in {Absent, NoSlots} \cup DOMAIN slots
         /\ \A i \in DOMAIN slots : slots[i] # {}
<1>1. View' = View
  <2>1. UNCHANGED <<stateObjects, accounts, storage>>
    BY Zenon DEF Plain, keeperVars
  <2>2. \A a \in Addr : getStateObject(a)' = getStateObject(a)
    BY <2>1, Zenon DEF getStateObject
  <2>3. \A a \in Addr : ViewOf(a, getStateObject(a))' = ViewOf(a, getStateObject(a))
    BY <2>1, <2>2 DEF ViewOf, GetState, GetCommittedState
  <2>. QED BY <2>3, Zenon DEF View
<1>2. World' = PlainWorld(refund', logs', addresses', slots')
  BY <1>1 DEF Plain, World, PlainWorld
<1>. QED BY <1>2, ZenonT(30) DEF World, PlainWorld, WorldOK

\* An operation that is recorded and keeps the objects keeps the invariant.
LEMMA PlainStep ==
  ASSUME IInv, pc = "run", HistStep, Plain, TypeOK', Recorded
  PROVE  IInv'
<1>1. Chain' /\ Revisions' /\ Frames'
  BY ChainKept DEF Operation, Plain
<1>2. pc' = pc /\ dirties' = dirties /\ stateObjects' = stateObjects
  BY DEF Plain, ctlVars
<1>. QED BY <1>1, <1>2 DEF IInv

\* AddLog keeps the invariant.
LEMMA LogStep ==
  ASSUME IInv, HistStep, NEW d \in LogData, AddLog(d)
  PROVE  IInv'
<1>. DEFINE e == [kind |-> "log"]
<1>1. /\ TypeOK /\ WorldOK(World) /\ pc = "run" /\ Plain
      /\ journal' = Append(journal, e) /\ logs' = Append(logs, d)
      /\ UNCHANGED <<refund, addresses, slots>>
  BY WorldNow DEF AddLog, Running, listVars
<1>2. e \in JournalEntry /\ e.kind = "log"
  BY SMTT(30) DEF JournalEntry, addLogChange
<1>3. logs' \in Seq(LogData) /\ journal' \in Seq(JournalEntry) /\ logs \in Seq(LogData)
  <2>1. logs \in Seq(LogData) /\ journal \in Seq(JournalEntry)
    BY <1>1, Zenon DEF TypeOK
  <2>. QED BY <1>1, <1>2, <2>1, SMTT(30)
<1>4. TypeOK'
  BY <1>1, <1>3, ZenonT(30) DEF TypeOK, Plain, keeperVars, snapVars, ctlVars
<1>5. /\ World = PlainWorld(refund, logs, addresses, slots)
      /\ World' = PlainWorld(refund, logs', addresses, slots)
      /\ \A a \in Addr : addresses[a] \in {Absent, NoSlots} \cup DOMAIN slots
      /\ \A i \in DOMAIN slots : slots[i] # {}
  BY <1>1, <1>4, PlainNow
<1>6. WorldOK(World')
  BY <1>1, <1>3, <1>5, PlainWorldOK, Zenon DEF TypeOK
<1>7. World'.logs # <<>>
  <2>1. World'.logs = logs'
    BY <1>5, Zenon DEF PlainWorld
  <2>2. logs' # <<>>
    <3>1. Len(logs') = Len(logs) + 1
      BY <1>1, <1>3
    <3>. QED BY <1>3, <3>1
  <2>. QED BY <2>1, <2>2, Zenon
<1>8. EntryOK(e, World')
  BY <1>2, <1>7 DEF EntryOK, ObjectKinds
<1>9. Undo(e, World') = World
  <2>1. /\ Undo(e, World').refund = refund /\ Undo(e, World').slots = slots
        /\ Undo(e, World').addresses = [a \in Addr |-> addresses[a]]
    BY <1>5 DEF Undo, PlainWorld, LastSlot
  <2>2. Undo(e, World').logs = SubSeq(logs', 1, Len(logs') - 1)
    BY <1>5 DEF Undo, PlainWorld
  <2>3. SubSeq(logs', 1, Len(logs') - 1) = logs
    BY <1>1, <1>3, AppendUndone
  <2>4. [a \in Addr |-> addresses[a]] = addresses
    BY <1>1, Zenon DEF TypeOK
  <2>5. e.kind \in PlainKinds
    BY <1>2, PlainKind, Zenon
  <2>. HIDE DEF e
  <2>6. Undo(e, World').addresses = addresses /\ Undo(e, World').logs = logs
    BY <2>1, <2>2, <2>3, <2>4, Zenon
  <2>7. World'.view = View /\ World'.dirties = dirties
    BY <1>5, Zenon DEF PlainWorld
  <2>8. Undo(e, World') = PlainWorld(Undo(e, World').refund, Undo(e, World').logs,
                                     Undo(e, World').addresses, Undo(e, World').slots)
    BY <1>1, <2>5, <2>7, UndoPlain, Zenon
  <2>. QED BY <1>5, <2>1, <2>6, <2>8, Zenon
<1>. QED BY <1>1, <1>4, <1>6, <1>8, <1>9, PlainStep DEF Recorded, AppendsOne, Undoable

\* AddRefund and SubRefund keep the invariant.
LEMMA RefundStep ==
  ASSUME IInv, HistStep, NEW gas \in Nat, AddRefund(gas) \/ SubRefund(gas)
  PROVE  IInv'
<1>. DEFINE e == [kind |-> "refund", prev |-> refund]
<1>1. /\ TypeOK /\ WorldOK(World) /\ pc = "run" /\ Plain
      /\ journal' = Append(journal, e)
      /\ UNCHANGED <<logs, addresses, slots>>
  BY WorldNow, SMTT(30) DEF AddRefund, SubRefund, Running, listVars
<1>2. refund \in Nat /\ refund' \in Nat
  BY <1>1 DEF AddRefund, SubRefund, TypeOK
<1>3. e \in JournalEntry /\ e.kind = "refund" /\ e.prev = refund
  BY <1>2, SMTT(30) DEF JournalEntry, refundChange
<1>4. journal' \in Seq(JournalEntry)
  BY <1>1, <1>3, SMTT(30) DEF TypeOK
<1>5. TypeOK'
  BY <1>1, <1>2, <1>4, Zenon DEF TypeOK, Plain, keeperVars, snapVars, ctlVars
<1>6. /\ World = PlainWorld(refund, logs, addresses, slots)
      /\ World' = PlainWorld(refund', logs, addresses, slots)
      /\ \A a \in Addr : addresses[a] \in {Absent, NoSlots} \cup DOMAIN slots
      /\ \A i \in DOMAIN slots : slots[i] # {}
  BY <1>1, <1>5, PlainNow, Zenon
<1>7. WorldOK(World')
  BY <1>1, <1>2, <1>6, PlainWorldOK, Zenon DEF TypeOK
<1>. HIDE DEF e
<1>8. EntryOK(e, World')
  BY <1>3 DEF EntryOK, ObjectKinds
<1>9. Undo(e, World') = World
  <2>1. /\ Undo(e, World').refund = refund /\ Undo(e, World').slots = slots
        /\ Undo(e, World').addresses = [a \in Addr |-> addresses[a]]
        /\ Undo(e, World').logs = logs
    BY <1>3, <1>6, SMTT(30) DEF Undo, PlainWorld, LastSlot
  <2>2. [a \in Addr |-> addresses[a]] = addresses
    BY <1>1, SMTT(30) DEF TypeOK
  <2>3. e.kind \in PlainKinds
    BY <1>3, PlainKind, Zenon
  <2>4. Undo(e, World').addresses = addresses
    BY <2>1, <2>2, Zenon
  <2>5. World'.view = View /\ World'.dirties = dirties
    BY <1>6, Zenon DEF PlainWorld
  <2>6. Undo(e, World') = PlainWorld(Undo(e, World').refund, Undo(e, World').logs,
                                     Undo(e, World').addresses, Undo(e, World').slots)
    BY <1>1, <2>3, <2>5, UndoPlain, Zenon
  <2>. QED BY <1>6, <2>1, <2>4, <2>6, Zenon
<1>. QED BY <1>1, <1>5, <1>7, <1>8, <1>9, PlainStep, SMTT(30) DEF Recorded, AppendsOne, Undoable

\* Undoing an access list entry in terms of the list.
LEMMA UndoListAccount ==
  ASSUME TypeOK, NEW e, e.kind = "listAccount", NEW a \in Addr, e.address = a,
         NEW ad \in [Addr -> Int], NEW sl, NEW ad2, ad2 = [ad EXCEPT ![a] = Absent]
  PROVE  Undo(e, PlainWorld(refund, logs, ad, sl)) = PlainWorld(refund, logs, ad2, sl)
<1>. DEFINE u == Undo(e, PlainWorld(refund, logs, ad, sl))
<1>1. u.refund = refund /\ u.logs = logs /\ u.slots = sl
  BY DEF Undo, PlainWorld, LastSlot
<1>2. \A b \in Addr : u.addresses[b] = IF b = a THEN Absent ELSE ad[b]
  BY DEF Undo, PlainWorld, LastSlot
<1>3. u.addresses = ad2
  <2>1. DOMAIN u.addresses = Addr /\ u.addresses = [b \in Addr |-> u.addresses[b]]
    BY DEF Undo
  <2>. QED BY <1>2, <2>1, ZenonT(30)
<1>4. u = PlainWorld(u.refund, u.logs, u.addresses, u.slots)
  <2>. DEFINE w == PlainWorld(refund, logs, ad, sl)
  <2>1. w.view = View /\ w.dirties = dirties
    BY Zenon DEF PlainWorld
  <2>2. e.kind \in PlainKinds
    BY PlainKind, Zenon
  <2>. HIDE DEF w
  <2>. QED BY <2>1, <2>2, UndoPlain, Zenon DEF w
<1>. QED BY <1>1, <1>3, <1>4, Zenon

\* Lists <<ad, sl>> and <<ad2, sl2>>: the second is the first without the slot of e,
\* the last slot of its address or one of several.
CutsLast(e, ad, sl, ad2, sl2) ==
  /\ e.kind = "listSlot" /\ e.address \in Addr /\ sl[ad[e.address]] \ {e.slot} = {}
  /\ ad2 \in [Addr -> Int]
  /\ \A b \in Addr : ad2[b] = IF b = e.address THEN NoSlots ELSE ad[b]
  /\ sl2 = SubSeq(sl, 1, ad[e.address] - 1)

CutsOther(e, ad, sl, sl2) ==
  /\ e.kind = "listSlot" /\ e.address \in Addr /\ sl[ad[e.address]] \ {e.slot} # {}
  /\ ad \in [Addr -> Int] /\ sl \in Seq(SUBSET Slot) /\ ad[e.address] \in 1 .. Len(sl)
  /\ sl2 \in Seq(SUBSET Slot) /\ Len(sl2) = Len(sl)
  /\ sl2[ad[e.address]] = sl[ad[e.address]] \ {e.slot}
  /\ \A j \in 1 .. Len(sl) : j # ad[e.address] => sl2[j] = sl[j]

\* Undoing the entry of the last slot of an address.
LEMMA UndoLastSlot ==
  ASSUME TypeOK, NEW e, NEW ad, NEW sl, NEW ad2, NEW sl2, CutsLast(e, ad, sl, ad2, sl2)
  PROVE  Undo(e, PlainWorld(refund, logs, ad, sl)) = PlainWorld(refund, logs, ad2, sl2)
<1>. DEFINE w == PlainWorld(refund, logs, ad, sl)
            u == Undo(e, w)
<1>1. /\ w.addresses = ad /\ w.slots = sl /\ w.refund = refund /\ w.logs = logs
      /\ w.view = View /\ w.dirties = dirties
  BY Zenon DEF PlainWorld
<1>. HIDE DEF w
<1>2. u = PlainWorld(u.refund, u.logs, u.addresses, u.slots)
  <2>1. e.kind \in PlainKinds
    BY PlainKind, Zenon DEF CutsLast
  <2>. QED BY <1>1, <2>1, UndoPlain, Zenon
<1>3. e.kind = "listSlot" /\ e.address \in Addr /\ LastSlot(e, w)
  BY <1>1 DEF CutsLast, LastSlot
<1>4. u.refund = refund /\ u.logs = logs /\ u.addresses = [b \in Addr |-> u.addresses[b]]
  BY <1>1, <1>3 DEF Undo
<1>5. \A b \in Addr : u.addresses[b] = IF b = e.address THEN NoSlots ELSE ad[b]
  BY <1>1, <1>3, SMTT(30) DEF Undo
<1>6. u.addresses = ad2
  BY <1>4, <1>5 DEF CutsLast
<1>7. u.slots = sl2
  BY <1>1, <1>3, Zenon DEF Undo, CutsLast
<1>. QED BY <1>2, <1>4, <1>6, <1>7, Zenon DEF w

\* Undoing the entry of one slot of several.
LEMMA UndoOtherSlot ==
  ASSUME TypeOK, NEW e, NEW ad, NEW sl, NEW sl2, CutsOther(e, ad, sl, sl2)
  PROVE  Undo(e, PlainWorld(refund, logs, ad, sl)) = PlainWorld(refund, logs, ad, sl2)
<1>. DEFINE w == PlainWorld(refund, logs, ad, sl)
            u == Undo(e, w)
<1>1. /\ w.addresses = ad /\ w.slots = sl /\ w.refund = refund /\ w.logs = logs
      /\ w.view = View /\ w.dirties = dirties
  BY Zenon DEF PlainWorld
<1>. HIDE DEF w
<1>2. u = PlainWorld(u.refund, u.logs, u.addresses, u.slots)
  <2>1. e.kind \in PlainKinds
    BY PlainKind, Zenon DEF CutsOther
  <2>. QED BY <1>1, <2>1, UndoPlain, Zenon
<1>3. e.kind = "listSlot" /\ e.address \in Addr /\ ~LastSlot(e, w)
  BY <1>1 DEF CutsOther, LastSlot
<1>4. u.refund = refund /\ u.logs = logs /\ u.addresses = [b \in Addr |-> u.addresses[b]]
  BY <1>1, <1>3 DEF Undo
<1>5. \A b \in Addr : u.addresses[b] = ad[b]
  BY <1>1, <1>3, SMTT(30) DEF Undo
<1>6. u.addresses = ad
  BY <1>4, <1>5 DEF CutsOther
<1>7. u.slots = [sl EXCEPT ![ad[e.address]] = sl[ad[e.address]] \ {e.slot}]
  BY <1>1, <1>3 DEF Undo
<1>8. u.slots = sl2
  <2>1. PICK i : i = ad[e.address]
    OBVIOUS
  <2>2. PICK new : new = sl[i] \ {e.slot}
    BY Zenon
  <2>3. /\ sl \in Seq(SUBSET Slot) /\ i \in 1 .. Len(sl) /\ new \in SUBSET Slot
        /\ sl2 \in Seq(SUBSET Slot) /\ Len(sl2) = Len(sl) /\ sl2[i] = new
        /\ \A j \in 1 .. Len(sl) : j # i => sl2[j] = sl[j]
    BY <2>1, <2>2, SMTT(30) DEF CutsOther
  <2>4. u.slots = [sl EXCEPT ![i] = new]
    BY <1>7, <2>1, <2>2, SMTT(30)
  <2>. HIDE DEF u
  <2>5. u.slots \in Seq(SUBSET Slot) /\ Len(u.slots) = Len(sl)
    BY <2>3, <2>4
  <2>6. \A j \in 1 .. Len(sl) : u.slots[j] = sl2[j]
    BY <2>3, <2>4
  <2>. QED BY <2>3, <2>5, <2>6, SeqEqual
<1>. QED BY <1>2, <1>4, <1>6, <1>8, Zenon DEF w

\* AddAddressToAccessList keeps the invariant.
LEMMA ListAddressStep ==
  ASSUME IInv, HistStep, NEW a \in Addr, AddAddressToAccessList(a)
  PROVE  IInv'
<1>. DEFINE e == [kind |-> "listAccount", address |-> a]
<1>1. /\ TypeOK /\ WorldOK(World) /\ pc = "run" /\ Plain
      /\ addresses[a] = Absent /\ addresses' = [addresses EXCEPT ![a] = NoSlots]
      /\ journal' = Append(journal, e) /\ UNCHANGED <<refund, logs, slots>>
  BY WorldNow DEF AddAddressToAccessList, Running
<1>2. e \in JournalEntry /\ e.kind = "listAccount" /\ e.address = a
  BY SMTT(30) DEF JournalEntry, accessListAddAccountChange
<1>3. /\ addresses \in [Addr -> Int] /\ addresses' \in [Addr -> Int]
      /\ journal' \in Seq(JournalEntry)
  <2>1. addresses \in [Addr -> Int] /\ journal \in Seq(JournalEntry)
    BY <1>1, Zenon DEF TypeOK
  <2>2. addresses' \in [Addr -> Int]
    BY <1>1, <2>1 DEF NoSlots
  <2>. HIDE DEF e
  <2>3. journal' \in Seq(JournalEntry)
    BY <1>1, <1>2, <2>1, AppendProperties, Zenon
  <2>. QED BY <2>1, <2>2, <2>3, Zenon
<1>4. TypeOK'
  BY <1>1, <1>3, Zenon DEF TypeOK, Plain, keeperVars, snapVars, ctlVars
<1>5. /\ World = PlainWorld(refund, logs, addresses, slots)
      /\ World' = PlainWorld(refund, logs, addresses', slots)
      /\ \A b \in Addr : addresses[b] \in {Absent, NoSlots} \cup DOMAIN slots
      /\ \A i \in DOMAIN slots : slots[i] # {}
  BY <1>1, <1>4, PlainNow, Zenon
<1>6. \A b \in Addr : addresses'[b] \in {Absent, NoSlots} \cup DOMAIN slots
  BY <1>1, <1>3, <1>5, Zenon
<1>7. WorldOK(World')
  BY <1>1, <1>3, <1>5, <1>6, PlainWorldOK, Zenon DEF TypeOK
<1>8. World'.addresses[a] = NoSlots
  BY <1>1, <1>3, <1>5, Zenon DEF PlainWorld
<1>. HIDE DEF e
<1>9. EntryOK(e, World')
  BY <1>2, <1>8, Zenon DEF EntryOK, ObjectKinds
<1>10. [addresses' EXCEPT ![a] = Absent] = addresses
  BY <1>1, <1>3, Zenon
<1>11. Undo(e, World') = World
  <2>1. PICK ad \in [Addr -> Int] : ad = addresses'
    BY <1>3
  <2>2. TypeOK
    BY <1>1
  <2>3. [ad EXCEPT ![a] = Absent] = addresses
    BY <1>10, <2>1, Zenon
  <2>4. e.kind = "listAccount" /\ e.address = a
    BY <1>2
  <2>5. Undo(e, PlainWorld(refund, logs, ad, slots)) = PlainWorld(refund, logs, addresses, slots)
    BY <2>2, <2>3, <2>4, UndoListAccount, SMTT(30)
  <2>. QED BY <1>5, <2>1, <2>5, Zenon
<1>. QED BY <1>1, <1>4, <1>7, <1>9, <1>11, PlainStep, SMTT(30) DEF Recorded, AppendsOne, Undoable

\* An entry of the access list is undone in a world where it is the newest one.
LEMMA ListEntryOK ==
  ASSUME NEW a \in Addr, NEW k \in Slot, NEW w
  PROVE  /\ w.addresses[a] = NoSlots => EntryOK([kind |-> "listAccount", address |-> a], w)
         /\ /\ w.addresses[a] \in DOMAIN w.slots /\ k \in w.slots[w.addresses[a]]
            /\ w.slots[w.addresses[a]] = {k} => w.addresses[a] = Len(w.slots)
            => EntryOK([kind |-> "listSlot", address |-> a, slot |-> k], w)
<1>1. /\ [kind |-> "listAccount", address |-> a] \in JournalEntry
      /\ [kind |-> "listSlot", address |-> a, slot |-> k] \in JournalEntry
  BY DEF JournalEntry, accessListAddAccountChange, accessListAddSlotChange
<1>. QED BY <1>1, Zenon DEF EntryOK, ObjectKinds

\* AddSlotToAccessList keeps the invariant.
LEMMA ListSlotStep ==
  ASSUME IInv, HistStep, NEW a \in Addr, NEW k \in Slot, AddSlotToAccessList(a, k)
  PROVE  IInv'
<1>. DEFINE i == addresses[a]
            m == Len(slots)
            e1 == [kind |-> "listAccount", address |-> a]
            e2 == [kind |-> "listSlot", address |-> a, slot |-> k]
<1>1. /\ TypeOK /\ WorldOK(World) /\ pc = "run" /\ Plain /\ UNCHANGED <<refund, logs>>
  BY WorldNow DEF AddSlotToAccessList, Running
<1>2. e1 \in JournalEntry /\ e2 \in JournalEntry
  BY Zenon DEF JournalEntry, accessListAddAccountChange, accessListAddSlotChange
<1>3. /\ addresses \in [Addr -> Int] /\ slots \in Seq(SUBSET Slot) /\ m \in Nat
      /\ journal \in Seq(JournalEntry)
  <2>1. /\ addresses \in [Addr -> Int] /\ slots \in Seq(SUBSET Slot)
        /\ journal \in Seq(JournalEntry)
    BY <1>1, Zenon DEF TypeOK
  <2>. QED BY <2>1
<1>4. \A b \in Addr : addresses[b] \in {Absent, NoSlots} \cup DOMAIN slots
  BY <1>1, Zenon DEF WorldOK, World
<1>5. \A j \in DOMAIN slots : slots[j] # {}
  BY <1>1, Zenon DEF WorldOK, World
<1>6. ASSUME addresses' \in [Addr -> Int], slots' \in Seq(SUBSET Slot), journal' \in Seq(JournalEntry)
      PROVE  /\ TypeOK' /\ World = PlainWorld(refund, logs, addresses, slots)
             /\ World' = PlainWorld(refund, logs, addresses', slots')
  <2>1. TypeOK'
    BY <1>1, <1>6, Zenon DEF TypeOK, Plain, keeperVars, snapVars, ctlVars
  <2>. QED BY <1>1, <2>1, PlainNow, Zenon
<1>7. CASE i \notin {Absent, NoSlots}
  <2>1. /\ k \notin slots[i] /\ slots' = [slots EXCEPT ![i] = @ \cup {k}]
        /\ journal' = Append(journal, e2) /\ addresses' = addresses
    BY <1>7 DEF AddSlotToAccessList
  <2>2. i \in DOMAIN slots /\ i \in 1 .. m
    BY <1>3, <1>4, <1>7, SMTT(30)
  <2>3. /\ slots' \in Seq(SUBSET Slot) /\ Len(slots') = m /\ DOMAIN slots' = DOMAIN slots
        /\ slots'[i] = slots[i] \cup {k}
        /\ \A j \in DOMAIN slots : j # i => slots'[j] = slots[j]
    <3>1. slots[i] \cup {k} \in SUBSET Slot
      BY <1>3, <2>2, ElementOfSeq
    <3>2. slots' = [slots EXCEPT ![i] = slots[i] \cup {k}]
      BY <2>1, Zenon
    <3>. HIDE DEF i
    <3>. QED BY <1>3, <2>2, <3>1, <3>2, SeqExcept
  <2>4. journal' \in Seq(JournalEntry)
    BY <1>2, <1>3, <2>1, AppendProperties, Zenon
  <2>5. /\ TypeOK' /\ World = PlainWorld(refund, logs, addresses, slots)
        /\ World' = PlainWorld(refund, logs, addresses, slots')
    BY <1>3, <1>6, <2>1, <2>3, <2>4, SMTT(30)
  <2>6. \A j \in DOMAIN slots' : slots'[j] # {}
    BY <1>5, <2>3
  <2>7. WorldOK(World')
    BY <1>1, <1>3, <1>4, <2>3, <2>5, <2>6, PlainWorldOK, Zenon DEF TypeOK
  <2>8. World'.addresses = addresses /\ World'.slots = slots'
    BY <2>5, SMTT(30) DEF PlainWorld
  <2>9. slots'[i] # {k} /\ slots'[i] \ {k} # {} /\ slots'[i] \ {k} = slots[i]
    BY <1>5, <2>1, <2>2, <2>3
  <2>10. EntryOK(e2, World')
    BY <2>2, <2>3, <2>8, <2>9, ListEntryOK, ZenonT(30)
  <2>11. CutsOther(e2, addresses, slots', slots)
    <3>1. e2.kind = "listSlot" /\ e2.address = a /\ e2.slot = k
      OBVIOUS
    <3>2. \A j \in 1 .. Len(slots') : j # i => slots[j] = slots'[j]
      BY <2>3, <1>3
    <3>. HIDE DEF e2
    <3>. QED BY <1>3, <2>2, <2>3, <2>9, <3>1, <3>2, Zenon DEF CutsOther
  <2>12. Undo(e2, World') = World
    BY <1>1, <2>5, <2>11, UndoOtherSlot
  <2>. HIDE DEF e2
  <2>. QED BY <1>1, <2>1, <2>5, <2>7, <2>10, <2>12, PlainStep, Zenon
            DEF Recorded, AppendsOne, Undoable
<1>8. CASE i \in {Absent, NoSlots}
  <2>1. /\ addresses' = [addresses EXCEPT ![a] = m + 1] /\ slots' = Append(slots, {k})
        /\ journal' = Append(IF i = Absent THEN Append(journal, e1) ELSE journal, e2)
    BY <1>8, SMTT(30) DEF AddSlotToAccessList
  <2>2. /\ addresses' \in [Addr -> Int] /\ slots' \in Seq(SUBSET Slot) /\ Len(slots') = m + 1
        /\ slots'[m + 1] = {k} /\ \A j \in 1 .. m : slots'[j] = slots[j]
    <3>1. addresses' \in [Addr -> Int]
      BY <1>3, <2>1
    <3>2. {k} \in SUBSET Slot
      OBVIOUS
    <3>. QED BY <1>3, <2>1, <3>1, <3>2, AppendProperties, SMTT(30)
  <2>3. journal' \in Seq(JournalEntry)
    <3>1. Append(journal, e1) \in Seq(JournalEntry)
      BY <1>2, <1>3, AppendProperties, Zenon
    <3>. HIDE DEF e1, e2
    <3>. QED BY <1>2, <1>3, <2>1, <3>1, AppendProperties, Zenon
  <2>4. /\ TypeOK' /\ World = PlainWorld(refund, logs, addresses, slots)
        /\ World' = PlainWorld(refund, logs, addresses', slots')
    BY <1>6, <2>2, <2>3, Zenon
  <2>5. DOMAIN slots = 1 .. m /\ DOMAIN slots' = 1 .. m + 1
    <3>1. {k} \in SUBSET Slot
      OBVIOUS
    <3>. QED BY <1>3, <2>1, <3>1, AppendProperties, Zenon
  <2>6. \A b \in Addr : addresses'[b] \in {Absent, NoSlots} \cup DOMAIN slots'
    BY <1>3, <1>4, <2>1, <2>5
  <2>7. \A j \in DOMAIN slots' : slots'[j] # {}
    <3>1. \A j \in 1 .. m + 1 : j \in 1 .. m \/ j = m + 1
      BY <1>3
    <3>. QED BY <1>5, <2>2, <2>5, <3>1, Zenon
  <2>8. WorldOK(World')
    BY <1>1, <2>2, <2>4, <2>6, <2>7, PlainWorldOK, ZenonT(30) DEF TypeOK
  <2>9. World'.addresses = addresses' /\ World'.slots = slots' /\ addresses'[a] = m + 1
    BY <1>3, <2>1, <2>4 DEF PlainWorld
  <2>10. EntryOK(e2, World')
    <3>1. m + 1 \in 1 .. m + 1 /\ k \in {k}
      BY <1>3, SMTT(30)
    <3>2. World'.addresses[a] \in DOMAIN World'.slots /\ k \in World'.slots[World'.addresses[a]]
          /\ World'.addresses[a] = Len(World'.slots)
      BY <2>2, <2>5, <2>9, <3>1, SMTT(30)
    <3>. QED BY <3>2, ListEntryOK, Zenon
  <2>. DEFINE ad == [addresses EXCEPT ![a] = NoSlots]
              w == PlainWorld(refund, logs, ad, slots)
  <2>11. Undo(e2, World') = w
    <3>1. SubSeq(slots', 1, addresses'[a] - 1) = slots
      <4>1. {k} \in SUBSET Slot /\ addresses'[a] - 1 = Len(slots') - 1
        BY <1>3, <2>2, <2>9
      <4>. QED BY <1>3, <2>1, <4>1, AppendUndone, SMTT(30)
    <3>2. slots'[addresses'[a]] \ {k} = {}
      BY <2>2, <2>9, Zenon
    <3>3. ad \in [Addr -> Int] /\ \A b \in Addr : ad[b] = IF b = a THEN NoSlots ELSE addresses'[b]
      BY <1>3, <2>1 DEF NoSlots
    <3>4. CutsLast(e2, addresses', slots', ad, slots)
      BY <3>1, <3>2, <3>3, Zenon DEF CutsLast
    <3>. HIDE DEF e2, ad
    <3>. QED BY <1>1, <2>4, <3>4, UndoLastSlot, SMTT(30)
  <2>12. ad \in [Addr -> Int] /\ ad[a] = NoSlots
         /\ \A b \in Addr : ad[b] \in {Absent, NoSlots} \cup DOMAIN slots
    BY <1>3, <1>4 DEF NoSlots
  <2>13. WorldOK(w) /\ w.addresses = ad
    BY <1>1, <1>3, <1>5, <2>12, PlainWorldOK, Zenon DEF TypeOK, PlainWorld
  <2>14. CASE i = NoSlots
    <3>1. ad = addresses
      BY <1>3, <2>14, SMTT(30)
    <3>2. Undo(e2, World') = World
      BY <2>4, <2>11, <3>1, SMTT(30)
    <3>3. journal' = Append(journal, e2)
      BY <2>1, <2>14 DEF Absent, NoSlots
    <3>. HIDE DEF e2
    <3>. QED BY <1>1, <2>4, <2>8, <2>10, <3>2, <3>3, PlainStep, SMTT(30) DEF Recorded, AppendsOne, Undoable
  <2>15. CASE i = Absent
    <3>1. [ad EXCEPT ![a] = Absent] = addresses
      BY <1>3, <2>15, Zenon
    <3>2. Undo(e1, w) = World
      <4>1. e1.kind = "listAccount" /\ e1.address = a
        OBVIOUS
      <4>. HIDE DEF e1, ad
      <4>2. Undo(e1, w) = PlainWorld(refund, logs, addresses, slots)
        BY <1>1, <2>12, <3>1, <4>1, UndoListAccount, SMTT(30)
      <4>. QED BY <2>4, <4>2, Zenon
    <3>3. EntryOK(e1, w)
      BY <2>12, <2>13, ListEntryOK, Zenon
    <3>4. journal' = Append(Append(journal, e1), e2)
      BY <2>1, <2>15
    <3>. HIDE DEF e1, e2, w
    <3>. QED BY <1>1, <2>4, <2>8, <2>10, <2>11, <2>13, <3>2, <3>3, <3>4, PlainStep, Zenon
              DEF Recorded, AppendsTwo, Undoable
  <2>. QED BY <1>8, <2>14, <2>15, SMTT(30)
<1>. QED BY <1>7, <1>8

------------------------------------------------------------------------------
(* Commit and the next transaction *)

\* The start of Commit keeps the invariant: every dirty address has its object.
LEMMA CommitStep ==
  ASSUME IInv, Commit
  PROVE  IInv'
<1>1. TypeOK /\ pc = "run" /\ pc' = "commit"
  BY DEF IInv, Commit
<1>2. UNCHANGED <<accounts, storage, codes, stateObjects, journal, dirties, refund, logs>>
  BY DEF Commit, keeperVars, DataVars
<1>3. UNCHANGED <<addresses, slots, validRevisions, nextRevisionID, frames, target, txs>>
  BY DEF Commit, DataVars, listVars, snapVars
<1>4. base' \in [Addr -> Account \cup {Nil}] \X [Addr -> [Slot -> Val]] \X SUBSET Code
  BY <1>1 DEF Commit, keeperVars, TypeOK
<1>5. pending' = {a \in Addr : dirties[a] > 0}
  BY DEF Commit
<1>6. TypeOK'
  BY <1>1, <1>2, <1>3, <1>4, <1>5, ZenonT(30) DEF TypeOK
<1>7. \A a \in pending' : stateObjects'[a] # Nil
  BY <1>1, <1>2, <1>5, ZenonT(30) DEF IInv
<1>. QED BY <1>1, <1>6, <1>7 DEF IInv

\* Writing one account keeps the invariant.
LEMMA CommitAccountStep ==
  ASSUME IInv, NEW a \in Addr, CommitAccount(a)
  PROVE  IInv'
<1>. DEFINE o == stateObjects[a]
<1>1. /\ TypeOK /\ pc = "commit" /\ pc' = "commit" /\ a \in pending
      /\ \A b \in pending : stateObjects[b] # Nil
  BY Zenon DEF IInv, CommitAccount
<1>2. /\ UNCHANGED <<stateObjects, journal, dirties, refund, logs, addresses, slots>>
      /\ UNCHANGED <<validRevisions, nextRevisionID, frames, target, base, txs>>
      /\ pending' = pending \ {a}
  BY DEF CommitAccount, DataVars, listVars, snapVars
<1>3. o \in stateObject
  BY <1>1 DEF TypeOK
<1>4. accounts \in [Addr -> Account \cup {Nil}] /\ storage \in [Addr -> [Slot -> Val]]
      /\ codes \subseteq Code
  BY <1>1 DEF TypeOK
<1>5. /\ accounts' \in [Addr -> Account \cup {Nil}] /\ storage' \in [Addr -> [Slot -> Val]]
      /\ codes' \subseteq Code
  <2>1. CASE o.suicided
    <3>1. [k \in Slot |-> Zero] \in [Slot -> Val]
      BY ConstantsAssumption
    <3>. QED BY <1>4, <2>1, <3>1 DEF CommitAccount, DeleteAccount
  <2>2. CASE ~o.suicided
    <3>1. WriteAccount(a, o)
      BY <2>2 DEF CommitAccount
    <3>2. [nonce |-> o.nonce, balance |-> o.balance, code |-> o.code] \in Account
      BY <1>3 DEF stateObject, Account
    <3>3. [k \in Slot |-> IF o.dirtyStorage[k] \in {Unset, Origin(o, k)}
                          THEN storage[a][k] ELSE o.dirtyStorage[k]] \in [Slot -> Val]
      BY <1>3, <1>4 DEF stateObject, Storage
    <3>4. o.code \in Code
      BY <1>3 DEF stateObject
    <3>. HIDE DEF o
    <3>. QED BY <1>4, <3>1, <3>2, <3>3, <3>4 DEF WriteAccount
  <2>. QED BY <2>1, <2>2
<1>6. TypeOK'
  BY <1>1, <1>2, <1>5, ZenonT(30) DEF TypeOK
<1>. QED BY <1>1, <1>2, <1>6, ZenonT(30) DEF IInv

\* An error drops what was written; the end of Commit leaves all as it is.
LEMMA CommitEndStep ==
  ASSUME IInv, CommitError \/ CommitDone
  PROVE  IInv'
<1>1. /\ UNCHANGED <<stateObjects, journal, dirties, refund, logs, addresses, slots>>
      /\ UNCHANGED <<validRevisions, nextRevisionID, frames, target, base, txs>>
      /\ pc' \in {"done", "failed"} /\ pending' = {}
  BY DEF CommitError, CommitDone, DataVars, listVars, snapVars
<1>2. /\ accounts' \in [Addr -> Account \cup {Nil}] /\ storage' \in [Addr -> [Slot -> Val]]
      /\ codes' \subseteq Code
  BY ZenonT(30) DEF IInv, TypeOK, CommitError, CommitDone, keeperVars
<1>3. TypeOK'
  BY <1>1, <1>2 DEF IInv, TypeOK
<1>. QED BY <1>1, <1>3 DEF IInv

\* A StateDB as statedb.New returns it.
Empty ==
  /\ TypeOK /\ pc = "run"
  /\ stateObjects = [a \in Addr |-> Nil] /\ dirties = [a \in Addr |-> 0]
  /\ journal = <<>> /\ refund = 0 /\ logs = <<>>
  /\ addresses = [a \in Addr |-> Absent] /\ slots = <<>>
  /\ validRevisions = <<>> /\ frames = <<>>
  /\ DOMAIN hist = {} /\ hist = [i \in DOMAIN hist |-> hist[i]] /\ DOMAIN marks = {}

\* A new StateDB satisfies the invariant: it shows what the keeper holds.
LEMMA EmptyIInv == Empty => IInv
<1>. SUFFICES ASSUME Empty PROVE IInv
  OBVIOUS
<1>1. TypeOK /\ Len(journal) = 0 /\ Len(validRevisions) = 0 /\ Len(frames) = 0
  BY DEF Empty
<1>2. View \in [Addr -> AccountView \cup {Nil}]
  BY <1>1, ViewType
<1>3. ASSUME NEW a \in Addr PROVE View[a] = StoreView(a)
  <2>1. CASE accounts[a] = Nil
    BY <2>1 DEF Empty, View, ViewOf, getStateObject, StoreView
  <2>2. CASE accounts[a] # Nil
    <3>1. newObject(accounts[a]) # Nil /\ getStateObject(a) = newObject(accounts[a])
      BY <1>1, <2>2, NewObjectType, NilAssumption, SMTT(30) DEF Empty, getStateObject, TypeOK
    <3>2. \A k \in Slot : GetState(a, newObject(accounts[a]), k) = storage[a][k]
      BY DEF GetState, GetCommittedState, newObject
    <3>3. storage[a] = [k \in Slot |-> storage[a][k]]
      BY <1>1 DEF TypeOK
    <3>4. [k \in Slot |-> GetState(a, newObject(accounts[a]), k)] = storage[a]
      BY <3>2, <3>3
    <3>5. View[a] = ViewOf(a, newObject(accounts[a]))
      BY <3>1 DEF View
    <3>6. /\ newObject(accounts[a]).nonce = accounts[a].nonce
          /\ newObject(accounts[a]).balance = accounts[a].balance
          /\ newObject(accounts[a]).code = accounts[a].code
          /\ newObject(accounts[a]).suicided = FALSE
      BY DEF newObject
    <3>. QED BY <2>2, <3>1, <3>4, <3>5, <3>6, ZenonT(30) DEF ViewOf, StoreView
  <2>. QED BY <2>1, <2>2
<1>4. World \in WorldType
  BY <1>1, <1>2, ZenonT(30) DEF World, WorldType, TypeOK
<1>5. WorldOK(World)
  <2>1. /\ World.view = View /\ World.dirties = dirties /\ World.addresses = addresses
        /\ World.slots = slots
    BY DEF World
  <2>2. \A a \in Addr : dirties[a] = 0 /\ addresses[a] = Absent
    BY DEF Empty
  <2>3. DOMAIN slots = {}
    BY DEF Empty
  <2>. QED BY <1>3, <1>4, <2>1, <2>2, <2>3, SMTT(30) DEF WorldOK
<1>6. Chain
  <2>1. WorldAt(1) = World
    BY <1>1 DEF WorldAt
  <2>2. hist \in [1 .. Len(journal) -> WorldType]
    BY <1>1 DEF Empty
  <2>. QED BY <1>1, <1>5, <2>1, <2>2 DEF Chain
<1>7. Live = 0
  BY <1>1 DEF Live, Empty
<1>8. Revisions
  BY <1>1, <1>7 DEF Revisions, Empty
<1>9. Frames
  BY <1>1 DEF Frames
<1>10. \A a \in Addr : ~(dirties[a] > 0)
  BY DEF Empty
<1>11. pc = "run"
  BY DEF Empty
<1>. QED BY <1>1, <1>6, <1>8, <1>9, <1>10, <1>11, SMTT(30) DEF IInv

\* The initial state satisfies the invariant.
LEMMA InitIInv == HInit => IInv
<1>. SUFFICES ASSUME HInit PROVE Empty
  BY EmptyIInv
<1>1. /\ accounts = accounts0 /\ storage = storage0 /\ pc = "run" /\ target = 0 /\ pending = {}
      /\ txs = 1 /\ nextRevisionID = 0 /\ base = <<accounts0, storage0, codes>>
      /\ codes = {accounts0[a].code : a \in {b \in Addr : accounts0[b] # Nil}} \ {NoCode}
  BY DEF HInit, Init
<1>2. /\ stateObjects = [a \in Addr |-> Nil] /\ dirties = [a \in Addr |-> 0]
      /\ journal = <<>> /\ refund = 0 /\ logs = <<>>
      /\ addresses = [a \in Addr |-> Absent] /\ slots = <<>>
      /\ validRevisions = <<>> /\ frames = <<>> /\ hist = <<>> /\ marks = <<>>
  BY DEF HInit, Init
<1>3. codes \subseteq Code
  BY <1>1, KeeperAssumption, SMTT(30) DEF Account
<1>4. TypeOK
  <2>1. /\ accounts \in [Addr -> Account \cup {Nil}] /\ storage \in [Addr -> [Slot -> Val]]
        /\ base \in [Addr -> Account \cup {Nil}] \X [Addr -> [Slot -> Val]] \X SUBSET Code
    BY <1>1, <1>3, KeeperAssumption
  <2>2. /\ stateObjects \in [Addr -> stateObject \cup {Nil}] /\ dirties \in [Addr -> Nat]
        /\ addresses \in [Addr -> Int] /\ refund \in Nat
    BY <1>2 DEF Absent
  <2>3. /\ journal \in Seq(JournalEntry) /\ logs \in Seq(LogData) /\ slots \in Seq(SUBSET Slot)
        /\ validRevisions \in Seq([id: Nat, journalIndex: Nat]) /\ frames \in Seq(Nat)
    BY <1>2
  <2>4. /\ nextRevisionID \in Nat /\ target \in Nat /\ pending \subseteq Addr /\ txs \in Nat
        /\ pc \in {"run", "revert", "commit", "done", "failed"}
    BY <1>1
  <2>. QED BY <1>3, <2>1, <2>2, <2>3, <2>4, Zenon DEF TypeOK
<1>. QED BY <1>1, <1>2, <1>4 DEF Empty

\* The next transaction starts from a new StateDB.
LEMMA NewStep ==
  ASSUME IInv, HistStep, New
  PROVE  IInv'
<1>1. /\ TypeOK /\ pc' = "run" /\ txs' = txs + 1
      /\ UNCHANGED <<accounts, storage, codes, target, pending, base>>
      /\ nextRevisionID' = 0
  BY Zenon DEF IInv, New, keeperVars, Clear
<1>2. /\ stateObjects' = [a \in Addr |-> Nil] /\ dirties' = [a \in Addr |-> 0]
      /\ journal' = <<>> /\ refund' = 0 /\ logs' = <<>>
      /\ addresses' = [a \in Addr |-> Absent] /\ slots' = <<>>
      /\ validRevisions' = <<>> /\ frames' = <<>>
  BY SMTT(30) DEF New, Clear
<1>3. TypeOK'
  <2>1. /\ accounts' \in [Addr -> Account \cup {Nil}] /\ storage' \in [Addr -> [Slot -> Val]]
        /\ base' \in [Addr -> Account \cup {Nil}] \X [Addr -> [Slot -> Val]] \X SUBSET Code
        /\ codes' \subseteq Code /\ pending' \subseteq Addr
    BY <1>1, Zenon DEF TypeOK
  <2>2. /\ stateObjects' \in [Addr -> stateObject \cup {Nil}] /\ dirties' \in [Addr -> Nat]
        /\ addresses' \in [Addr -> Int] /\ refund' \in Nat
    BY <1>2 DEF Absent
  <2>3. /\ journal' \in Seq(JournalEntry) /\ logs' \in Seq(LogData)
        /\ slots' \in Seq(SUBSET Slot) /\ frames' \in Seq(Nat)
        /\ validRevisions' \in Seq([id: Nat, journalIndex: Nat])
    BY <1>2
  <2>4. txs \in Nat /\ target \in Nat
    BY <1>1, Zenon DEF TypeOK
  <2>5. /\ nextRevisionID' \in Nat /\ target' \in Nat /\ txs' \in Nat
        /\ pc' \in {"run", "revert", "commit", "done", "failed"}
    BY <1>1, <2>4
  <2>. QED BY <2>1, <2>2, <2>3, <2>5, Zenon DEF TypeOK
<1>4. Len(journal') = 0 /\ Len(validRevisions') = 0
  BY <1>2
<1>5. DOMAIN hist' = {} /\ hist' = [i \in DOMAIN hist' |-> hist'[i]] /\ DOMAIN marks' = {}
  BY <1>4 DEF HistStep
<1>6. Empty'
  BY <1>1, <1>2, <1>3, <1>5 DEF Empty
<1>7. (Empty => IInv)'
  BY EmptyIInv, PTL
<1>. QED BY <1>6, <1>7

------------------------------------------------------------------------------
(* What Commit relies on in the objects and the journal *)

\* What Commit relies on in an object: originStorage holds values of the keeper,
\* a dirty slot was read first, and a code the code store misses is dirty.
Sound(a, o) ==
  /\ \A k \in Slot : o.originStorage[k] # Unset => o.originStorage[k] = storage[a][k]
  /\ \A k \in Slot : o.dirtyStorage[k] # Unset => o.originStorage[k] # Unset
  /\ o.code \in codes \cup {NoCode} \/ o.dirtyCode

AllSound(objs) == \A a \in Addr : objs[a] # Nil => Sound(a, objs[a])

Replaces(e, a) == e.kind \in {"create", "reset"} /\ e.account = a

\* The live object of a has read slot k.
HasRead(objs, a, k) == objs[a] # Nil /\ objs[a].originStorage[k] # Unset

\* The object of a that entry i changed has read slot k: it is the live one, or
\* the one that the next reset of a put away.
Read(objs, jnl, i, a, k) ==
  \/ (\A j \in i + 1 .. Len(jnl) : ~Replaces(jnl[j], a)) /\ HasRead(objs, a, k)
  \/ \E j \in i + 1 .. Len(jnl) :
       /\ jnl[j].kind = "reset" /\ jnl[j].account = a /\ jnl[j].prev.originStorage[k] # Unset
       /\ \A m \in i + 1 .. j - 1 : ~Replaces(jnl[m], a)

\* Live objects and those put away by resets are sound, and a slot whose change
\* may be undone has been read by the object it is undone on.
Objects(objs, jnl) ==
  /\ AllSound(objs)
  /\ \A i \in 1 .. Len(jnl) : jnl[i].kind = "reset" => Sound(jnl[i].account, jnl[i].prev)
  /\ \A i \in 1 .. Len(jnl) :
       jnl[i].kind = "storage" => Read(objs, jnl, i, jnl[i].account, jnl[i].key)

ObjectMap == [Addr -> stateObject \cup {Nil}]

\* The object o has read what p has.
ReadsMore(o, p) ==
  \A k \in Slot : p.originStorage[k] # Unset => o.originStorage[k] # Unset

\* A step that makes entry e and turns the objects objs into new loses no slot
\* that was read: the object stays live, or the entry puts it away.
Keeps(objs, e, new) ==
  \A b \in Addr, k \in Slot : HasRead(objs, b, k) =>
    \/ ~Replaces(e, b) /\ HasRead(new, b, k)
    \/ e.kind = "reset" /\ e.account = b /\ e.prev.originStorage[k] # Unset

\* Undoing e loses no slot either, and brings back an object put away.
Restores(objs, e, new) ==
  /\ \A b \in Addr, k \in Slot : ~Replaces(e, b) /\ HasRead(objs, b, k) => HasRead(new, b, k)
  /\ e.kind = "reset" => e.prev # Nil /\ new[e.account] = e.prev

\* Positions in a journal, and in the journal with one entry more.
LEMMA Positions ==
  ASSUME NEW n \in Nat
  PROVE  /\ n + 1 \in 1 .. n + 1
         /\ \A i \in 1 .. n + 1 : i = n + 1 \/ i \in 1 .. n
         /\ \A j \in (n + 1) + 1 .. n + 1 : FALSE
         /\ \A i \in 1 .. n :
              /\ i \in 1 .. n + 1 /\ n + 1 \in i + 1 .. n + 1
              /\ \A j \in i + 1 .. n : j \in i + 1 .. n + 1 /\ j \in 1 .. n
              /\ \A j \in i + 1 .. n + 1 : j = n + 1 \/ j \in i + 1 .. n
              /\ \A j \in i + 1 .. n + 1 : \A m \in i + 1 .. j - 1 : m \in i + 1 .. n
              /\ \A m \in i + 1 .. n : m \in i + 1 .. (n + 1) - 1
OBVIOUS

\* When the journal grows, a slot that was read stays read.
LEMMA ReadKept ==
  ASSUME NEW objs, NEW jnl, NEW n \in Nat, Len(jnl) = n, NEW longer, Len(longer) = n + 1,
         \A j \in 1 .. n : longer[j] = jnl[j],
         NEW i \in 1 .. n, NEW a \in Addr, NEW k \in Slot, Read(objs, jnl, i, a, k),
         NEW new, Keeps(objs, longer[n + 1], new)
  PROVE  Read(new, longer, i, a, k)
<1>1. /\ n + 1 \in i + 1 .. n + 1
      /\ \A j \in i + 1 .. n : j \in i + 1 .. n + 1 /\ j \in 1 .. n
      /\ \A j \in i + 1 .. n + 1 : j = n + 1 \/ j \in i + 1 .. n
      /\ \A j \in i + 1 .. n + 1 : \A m \in i + 1 .. j - 1 : m \in i + 1 .. n
  BY Positions, Zenon
<1>2. \A j \in i + 1 .. n : longer[j] = jnl[j]
  BY <1>1, Zenon
<1>3. CASE (\A j \in i + 1 .. n : ~Replaces(jnl[j], a)) /\ HasRead(objs, a, k)
  <2>1. CASE ~Replaces(longer[n + 1], a) /\ HasRead(new, a, k)
    <3>1. \A j \in i + 1 .. n + 1 : ~Replaces(longer[j], a)
      BY <1>1, <1>2, <1>3, <2>1, Zenon
    <3>. QED BY <2>1, <3>1, Zenon DEF Read
  <2>2. CASE /\ longer[n + 1].kind = "reset" /\ longer[n + 1].account = a
             /\ longer[n + 1].prev.originStorage[k] # Unset
    <3>1. \A m \in i + 1 .. (n + 1) - 1 : ~Replaces(longer[m], a)
      BY <1>1, <1>2, <1>3, Zenon
    <3>. QED BY <1>1, <2>2, <3>1, Zenon DEF Read
  <2>. QED BY <1>3, <2>1, <2>2, Zenon DEF Keeps
<1>4. ASSUME NEW j \in i + 1 .. n, jnl[j].kind = "reset", jnl[j].account = a,
             jnl[j].prev.originStorage[k] # Unset,
             \A m \in i + 1 .. j - 1 : ~Replaces(jnl[m], a)
      PROVE  Read(new, longer, i, a, k)
  <2>1. j \in i + 1 .. n + 1 /\ longer[j] = jnl[j]
    BY <1>1, <1>2, Zenon
  <2>2. \A m \in i + 1 .. j - 1 : ~Replaces(longer[m], a)
    BY <1>1, <1>2, <1>4, <2>1, Zenon
  <2>. QED BY <1>4, <2>1, <2>2, Zenon DEF Read
<1>. QED BY <1>3, <1>4, Zenon DEF Read

\* One entry more, and the objects after it.
LEMMA ObjectsGrow ==
  ASSUME NEW objs, NEW jnl \in Seq(JournalEntry), Objects(objs, jnl),
         NEW new, NEW e \in JournalEntry, AllSound(new), Keeps(objs, e, new),
         e.kind = "reset" => Sound(e.account, e.prev),
         e.kind = "storage" => HasRead(new, e.account, e.key)
  PROVE  Objects(new, Append(jnl, e))
<1>1. PICK n \in Nat : n = Len(jnl)
  BY AppendProperties
<1>2. PICK longer : longer = Append(jnl, e)
  BY Zenon
<1>3. Len(longer) = n + 1 /\ longer[n + 1] = e /\ \A j \in 1 .. n : longer[j] = jnl[j]
  BY ONLY <1>1, <1>2, AppendProperties, jnl \in Seq(JournalEntry), e \in JournalEntry
<1>4. ASSUME NEW i \in 1 .. n + 1, longer[i].kind = "storage"
      PROVE  Read(new, longer, i, longer[i].account, longer[i].key)
  <2>1. CASE i = n + 1
    <3>1. \A j \in i + 1 .. Len(longer) : FALSE
      BY <1>3, <2>1, Positions, Zenon
    <3>. QED BY <1>3, <1>4, <2>1, <3>1, Zenon DEF Read
  <2>2. CASE i \in 1 .. n
    <3>1. jnl[i] \in JournalEntry /\ jnl[i].kind = "storage" /\ longer[i] = jnl[i]
      BY <1>1, <1>3, <1>4, <2>2, ElementOfSeq, Zenon
    <3>2. jnl[i].account \in Addr /\ jnl[i].key \in Slot
      BY ONLY <3>1, EntryFields DEF ObjectKinds
    <3>3. Read(objs, jnl, i, jnl[i].account, jnl[i].key)
      BY <1>1, <2>2, <3>1, Zenon DEF Objects
    <3>4. Read(new, longer, i, jnl[i].account, jnl[i].key)
      BY <1>1, <1>3, <2>2, <3>2, <3>3, ReadKept, Zenon
    <3>. QED BY <3>1, <3>4, Zenon
  <2>. QED BY <2>1, <2>2, Positions, Zenon
<1>5. ASSUME NEW i \in 1 .. n + 1, longer[i].kind = "reset"
      PROVE  Sound(longer[i].account, longer[i].prev)
  BY <1>1, <1>3, <1>5, Positions, Zenon DEF Objects
<1>6. Objects(new, longer)
  BY <1>3, <1>4, <1>5, Zenon DEF Objects
<1>. QED BY <1>2, <1>6, Zenon

\* The newest entry gone, and the objects after it.
LEMMA ObjectsShrink ==
  ASSUME NEW objs, NEW jnl \in Seq(JournalEntry), Objects(objs, jnl),
         NEW n \in Nat, Len(jnl) = n + 1,
         NEW new, NEW rest, Len(rest) = n, \A i \in 1 .. n : rest[i] = jnl[i],
         AllSound(new), Restores(objs, jnl[n + 1], new)
  PROVE  Objects(new, rest)
<1>1. ASSUME NEW i \in 1 .. n, rest[i].kind = "storage"
      PROVE  Read(new, rest, i, rest[i].account, rest[i].key)
  <2>1. /\ i \in 1 .. Len(jnl) /\ n + 1 \in i + 1 .. n + 1
        /\ \A j \in i + 1 .. n : j \in i + 1 .. n + 1 /\ j \in 1 .. n
        /\ \A j \in i + 1 .. n + 1 : j = n + 1 \/ j \in i + 1 .. n
        /\ \A j \in i + 1 .. n + 1 : \A m \in i + 1 .. j - 1 : m \in i + 1 .. n
        /\ \A m \in i + 1 .. n : m \in i + 1 .. (n + 1) - 1
    BY Positions, Zenon
  <2>2. jnl[i] \in JournalEntry /\ jnl[i].kind = "storage" /\ rest[i] = jnl[i]
    BY <1>1, <2>1, ElementOfSeq, Zenon
  <2>3. PICK b \in Addr, k \in Slot : b = jnl[i].account /\ k = jnl[i].key
    BY ONLY <2>2, EntryFields DEF ObjectKinds
  <2>4. Read(objs, jnl, i, b, k)
    BY <2>1, <2>2, <2>3, Zenon DEF Objects
  <2>5. \A j \in i + 1 .. n : rest[j] = jnl[j]
    BY <2>1, Zenon
  <2>6. CASE (\A j \in i + 1 .. n + 1 : ~Replaces(jnl[j], b)) /\ HasRead(objs, b, k)
    <3>1. HasRead(new, b, k)
      BY <2>1, <2>6, Zenon DEF Restores
    <3>2. \A j \in i + 1 .. n : ~Replaces(rest[j], b)
      BY <2>1, <2>5, <2>6, Zenon
    <3>. QED BY <2>2, <2>3, <3>1, <3>2, Zenon DEF Read
  <2>7. ASSUME NEW j \in i + 1 .. n + 1, jnl[j].kind = "reset", jnl[j].account = b,
               jnl[j].prev.originStorage[k] # Unset,
               \A m \in i + 1 .. j - 1 : ~Replaces(jnl[m], b)
        PROVE  Read(new, rest, i, b, k)
    <3>1. \A m \in i + 1 .. j - 1 : ~Replaces(rest[m], b)
      BY <2>1, <2>5, <2>7, Zenon
    <3>2. CASE j \in i + 1 .. n
      BY <2>5, <2>7, <3>1, <3>2, Zenon DEF Read
    <3>3. CASE j = n + 1
      <4>1. HasRead(new, b, k)
        BY <2>7, <3>3, Zenon DEF Restores, HasRead
      <4>2. \A m \in i + 1 .. n : ~Replaces(rest[m], b)
        BY <2>1, <3>1, <3>3, Zenon
      <4>. QED BY <4>1, <4>2, Zenon DEF Read
    <3>. QED BY <2>1, <3>2, <3>3, Zenon
  <2>8. Read(new, rest, i, b, k) => Read(new, rest, i, rest[i].account, rest[i].key)
    BY <2>2, <2>3, Zenon
  <2>. QED BY <2>4, <2>6, <2>7, <2>8, Zenon DEF Read
<1>2. ASSUME NEW i \in 1 .. n, rest[i].kind = "reset"
      PROVE  Sound(rest[i].account, rest[i].prev)
  <2>1. i \in 1 .. Len(jnl) /\ rest[i] = jnl[i]
    BY Positions, Zenon
  <2>. QED BY <1>2, <2>1, Zenon DEF Objects
<1>. QED BY <1>1, <1>2, Zenon DEF Objects

\* The setters of an object keep it sound and forget nothing it has read.
LEMMA SettersSound ==
  ASSUME TypeOK, NEW a \in Addr, NEW o \in stateObject, Sound(a, o)
  PROVE  /\ \A x \in Nat : Sound(a, [o EXCEPT !.balance = x]) /\ ReadsMore([o EXCEPT !.balance = x], o)
         /\ \A x \in Nat : Sound(a, [o EXCEPT !.nonce = x]) /\ ReadsMore([o EXCEPT !.nonce = x], o)
         /\ \A x \in BOOLEAN, y \in Nat :
              /\ Sound(a, [o EXCEPT !.suicided = x, !.balance = y])
              /\ ReadsMore([o EXCEPT !.suicided = x, !.balance = y], o)
         /\ \A c \in Code : Sound(a, setCode(o, c)) /\ ReadsMore(setCode(o, c), o)
         /\ \A k \in Slot, v \in Val : o.originStorage[k] # Unset =>
              /\ Sound(a, [o EXCEPT !.dirtyStorage[k] = v])
              /\ ReadsMore([o EXCEPT !.dirtyStorage[k] = v], o)
<1>1. \A x \in Nat : Sound(a, [o EXCEPT !.balance = x]) /\ ReadsMore([o EXCEPT !.balance = x], o)
  BY DEF Sound, ReadsMore, stateObject
<1>2. \A x \in Nat : Sound(a, [o EXCEPT !.nonce = x]) /\ ReadsMore([o EXCEPT !.nonce = x], o)
  BY DEF Sound, ReadsMore, stateObject
<1>3. \A x \in BOOLEAN, y \in Nat :
        /\ Sound(a, [o EXCEPT !.suicided = x, !.balance = y])
        /\ ReadsMore([o EXCEPT !.suicided = x, !.balance = y], o)
  BY DEF Sound, ReadsMore, stateObject
<1>4. \A c \in Code : Sound(a, setCode(o, c)) /\ ReadsMore(setCode(o, c), o)
  BY DEF Sound, ReadsMore, stateObject, setCode
<1>5. ASSUME NEW k \in Slot, NEW v \in Val, o.originStorage[k] # Unset
      PROVE  /\ Sound(a, [o EXCEPT !.dirtyStorage[k] = v])
             /\ ReadsMore([o EXCEPT !.dirtyStorage[k] = v], o)
  BY <1>5 DEF Sound, ReadsMore, stateObject, Storage
<1>. QED BY <1>1, <1>2, <1>3, <1>4, <1>5, Zenon

\* An object that has read a slot is as sound as before, and has read it.
LEMMA CachedSound ==
  ASSUME TypeOK, NEW a \in Addr, NEW o \in stateObject, Sound(a, o), NEW k \in Slot
  PROVE  /\ Sound(a, Cached(a, o, k)) /\ ReadsMore(Cached(a, o, k), o)
         /\ Cached(a, o, k).originStorage[k] # Unset
<1>1. storage[a][k] \in Val /\ Unset \notin Val
  BY ConstantsAssumption DEF TypeOK
<1>2. CASE o.dirtyStorage[k] # Unset
  BY <1>2 DEF Cached, Sound, ReadsMore
<1>3. CASE o.dirtyStorage[k] = Unset
  <2>1. Cached(a, o, k) = [o EXCEPT !.originStorage[k] = storage[a][k]]
    BY <1>3 DEF Cached, GetCommittedState, Sound
  <2>. QED BY <1>1, <2>1 DEF Sound, ReadsMore, stateObject, Storage
<1>. QED BY <1>2, <1>3

\* The code store has the code of every stored account.
Coded(accts, store) == \A a \in Addr : accts[a] # Nil => accts[a].code \in store \cup {NoCode}

\* An object loaded from the keeper, or new, is sound.
LEMMA NewSound ==
  ASSUME NEW a \in Addr, NEW acct \in Account, acct.code \in codes \cup {NoCode}
  PROVE  Sound(a, newObject(acct)) /\ \A k \in Slot : newObject(acct).originStorage[k] = Unset
BY DEF Sound, newObject
==============================================================================
