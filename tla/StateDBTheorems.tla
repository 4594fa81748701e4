--------------------------- MODULE StateDBTheorems ---------------------------
(***************************************************************************)
(* The operations on accounts record undoable entries, so they keep the    *)
(* invariant of StateDBWorlds: reverts restore and never fail, and changes *)
(* are dirty.  That Commit writes what was seen needs a second invariant,  *)
(* about the objects: the origin values that Commit compares with are the  *)
(* keeper's, a slot that is dirty has been read, also after reverts, and a *)
(* code that the code store misses is dirty.                               *)
(***************************************************************************)
EXTENDS StateDBReverts

------------------------------------------------------------------------------
(* Operations on accounts *)

\* An account that is dirty, or as stored, leaves the world well formed.
LEMMA AccountWorldOK ==
  ASSUME TypeOK, WorldOK(World), NEW a \in Addr, NEW acct \in AccountView, NEW n \in Nat,
         n = 0 => acct = StoreView(a)
  PROVE  WorldOK(AccountWorld(a, acct, n))
<1>. DEFINE w == ObjectWorld([View EXCEPT ![a] = acct], [dirties EXCEPT ![a] = n])
<1>1. View \in [Addr -> AccountView \cup {Nil}]
  BY ViewType
<1>2. w \in WorldType
  BY <1>1 DEF ObjectWorld, WorldType, TypeOK
<1>3. \A b \in Addr : w.view[b] = (IF b = a THEN acct ELSE View[b])
                      /\ w.dirties[b] = (IF b = a THEN n ELSE dirties[b])
  BY <1>1 DEF ObjectWorld, TypeOK
<1>4. w.addresses = addresses /\ w.slots = slots
  BY DEF ObjectWorld
<1>5. \A b \in Addr : (View[b] = Nil => dirties[b] = 0) /\ (dirties[b] = 0 => View[b] = StoreView(b))
  BY DEF WorldOK, World
<1>6. \A b \in Addr : addresses[b] \in {Absent, NoSlots} \cup DOMAIN slots
  BY DEF WorldOK, World
<1>7. \A i \in DOMAIN slots : slots[i] # {}
  BY DEF WorldOK, World
<1>8. acct # Nil
  BY NilViewAssumption
<1>. HIDE DEF w
<1>9. WorldOK(w)
  BY <1>2, <1>3, <1>4, <1>5, <1>6, <1>7, <1>8 DEF WorldOK
<1>. QED BY <1>9 DEF w, AccountWorld

\* Undoing an entry of an object changes accounts and dirty counts only.
LEMMA UndoObject ==
  ASSUME TypeOK, NEW e, e.kind \in ObjectKinds \cup {"create", "reset"}, NEW v, NEW d
  PROVE  Undo(e, ObjectWorld(v, d)) = ObjectWorld(UndoView(e, v), Uncounted(d, e))
<1>1. e.kind \notin {"refund", "log", "listAccount", "listSlot"}
  BY DEF ObjectKinds
<1>2. ~LastSlot(e, ObjectWorld(v, d))
  BY <1>1 DEF LastSlot
<1>3. [a \in Addr |-> addresses[a]] = addresses
  BY DEF TypeOK
<1>. QED BY <1>1, <1>2, <1>3 DEF Undo, ObjectWorld

\* The fields of such a world, and when it is the present one.
LEMMA AccountWorldFields ==
  ASSUME TypeOK, NEW a \in Addr, NEW acct, NEW n
  PROVE  /\ AccountWorld(a, acct, n).view[a] = acct
         /\ AccountWorld(a, acct, n).dirties[a] = n
         /\ acct = View[a] /\ n = dirties[a] => AccountWorld(a, acct, n) = World
<1>1. View \in [Addr -> AccountView \cup {Nil}] /\ dirties \in [Addr -> Nat]
  BY ViewType DEF TypeOK
<1>. QED BY <1>1 DEF AccountWorld, ObjectWorld, World

\* The present world is the one with what is now seen of an account.
LEMMA SameAccountWorld ==
  ASSUME TypeOK, NEW a \in Addr
  PROVE  AccountWorld(a, View[a], dirties[a]) = World
BY AccountWorldFields

\* Undoing an object's entry in such a world, in terms of the one account.
LEMMA UndoAccountWorld ==
  ASSUME TypeOK, NEW a \in Addr, NEW acct, NEW n \in Nat, NEW e, e.account = a
  PROVE  /\ e.kind \in ObjectKinds => Undo(e, AccountWorld(a, acct, n))
                                        = AccountWorld(a, UndoAccount(e, acct), n - 1)
         /\ e.kind = "create" => Undo(e, AccountWorld(a, acct, n)) = AccountWorld(a, Nil, n - 1)
         /\ e.kind = "reset" => Undo(e, AccountWorld(a, acct, n))
                                  = AccountWorld(a, ViewOf(a, e.prev), n)
<1>. DEFINE v == [View EXCEPT ![a] = acct]
            d == [dirties EXCEPT ![a] = n]
<1>1. View \in [Addr -> AccountView \cup {Nil}] /\ dirties \in [Addr -> Nat]
  BY ViewType DEF TypeOK
<1>2. \A b \in Addr : v[b] = (IF b = a THEN acct ELSE View[b])
                      /\ d[b] = (IF b = a THEN n ELSE dirties[b])
  BY <1>1
<1>3. d \in [Addr -> Int] /\ DOMAIN v = Addr /\ AccountWorld(a, acct, n) = ObjectWorld(v, d)
  BY <1>1 DEF AccountWorld
<1>. HIDE DEF v, d
<1>4. CASE e.kind \in ObjectKinds
  <2>1. e.kind \notin {"create", "reset"}
    BY <1>4 DEF ObjectKinds
  <2>2. \A b \in Addr : UndoView(e, v)[b] = IF b = a THEN UndoAccount(e, acct) ELSE View[b]
    BY <1>2, <1>4, <2>1 DEF UndoView
  <2>3. \A b \in Addr : Dirtied(e, b) <=> b = a
    BY <1>4 DEF Dirtied
  <2>4. UndoView(e, v) = [View EXCEPT ![a] = UndoAccount(e, acct)]
    BY <1>1, <2>2, Zenon DEF UndoView
  <2>5. Uncounted(d, e) = [dirties EXCEPT ![a] = n - 1]
    BY <1>1, <1>2, <2>3, Zenon DEF Uncounted
  <2>6. Undo(e, ObjectWorld(v, d)) = ObjectWorld(UndoView(e, v), Uncounted(d, e))
    BY <1>4, UndoObject
  <2>7. Undo(e, ObjectWorld(v, d)) = AccountWorld(a, UndoAccount(e, acct), n - 1)
    BY <2>4, <2>5, <2>6 DEF AccountWorld
  <2>. QED BY <1>3, <1>4, <2>1, <2>7
<1>5. CASE e.kind = "create"
  <2>1. e.kind \notin ObjectKinds \cup {"reset"}
    BY <1>5 DEF ObjectKinds
  <2>2. \A b \in Addr : UndoView(e, v)[b] = IF b = a THEN Nil ELSE View[b]
    BY <1>2, <1>5, <2>1 DEF UndoView
  <2>3. \A b \in Addr : Dirtied(e, b) <=> b = a
    BY <1>5 DEF Dirtied
  <2>4. UndoView(e, v) = [View EXCEPT ![a] = Nil]
    BY <1>1, <2>2, Zenon DEF UndoView
  <2>5. Uncounted(d, e) = [dirties EXCEPT ![a] = n - 1]
    BY <1>1, <1>2, <2>3, ZenonT(30) DEF Uncounted
  <2>6. Undo(e, ObjectWorld(v, d)) = ObjectWorld(UndoView(e, v), Uncounted(d, e))
    BY <1>5, UndoObject
  <2>7. Undo(e, ObjectWorld(v, d)) = AccountWorld(a, Nil, n - 1)
    BY <2>4, <2>5, <2>6 DEF AccountWorld
  <2>. QED BY <1>3, <1>5, <2>1, <2>7
<1>6. CASE e.kind = "reset"
  <2>1. e.kind \notin ObjectKinds \cup {"create"}
    BY <1>6 DEF ObjectKinds
  <2>2. \A b \in Addr : UndoView(e, v)[b] = IF b = a THEN ViewOf(a, e.prev) ELSE View[b]
    BY <1>2, <1>6, <2>1 DEF UndoView
  <2>3. \A b \in Addr : ~Dirtied(e, b)
    BY <2>1 DEF Dirtied
  <2>4. UndoView(e, v) = [View EXCEPT ![a] = ViewOf(a, e.prev)]
    BY <1>1, <2>2, Zenon DEF UndoView
  <2>5. Uncounted(d, e) = d
    BY <1>3, <2>3 DEF Uncounted
  <2>6. Uncounted(d, e) = [dirties EXCEPT ![a] = n]
    BY <2>5 DEF d
  <2>7. Undo(e, ObjectWorld(v, d)) = ObjectWorld(UndoView(e, v), Uncounted(d, e))
    BY <1>6, UndoObject
  <2>8. Undo(e, ObjectWorld(v, d)) = AccountWorld(a, ViewOf(a, e.prev), n)
    BY <2>4, <2>6, <2>7 DEF AccountWorld
  <2>. QED BY <1>3, <1>6, <2>1, <2>8
<1>. QED BY <1>4, <1>5, <1>6

\* An entry of an object is undone on an object that is there and is dirty.
LEMMA ObjectEntryOK ==
  ASSUME NEW e \in JournalEntry, NEW w, e.kind \in ObjectKinds \cup {"create", "reset"},
         e.kind # "reset" => w.dirties[e.account] > 0,
         e.kind # "create" => w.view[e.account] # Nil,
         e.kind = "create" => accounts[e.account] = Nil
  PROVE  EntryOK(e, w)
BY DEF EntryOK, ObjectKinds

\* Where there is no object, nothing is seen, nothing is stored, nothing is dirty.
LEMMA FreshAccount ==
  ASSUME TypeOK, WorldOK(World), NEW a \in Addr, Fresh(a)
  PROVE  View[a] = Nil /\ accounts[a] = Nil /\ stateObjects[a] = Nil /\ dirties[a] = 0
<1>1. View[a] = Nil
  BY ViewType
<1>2. dirties[a] = 0
  BY <1>1 DEF WorldOK, World
<1>3. accounts[a] # Nil => newObject(accounts[a]) # Nil
  BY NewObjectType, NilAssumption DEF TypeOK
<1>4. accounts[a] = Nil /\ stateObjects[a] = Nil
  BY <1>3 DEF Fresh, getStateObject
<1>. QED BY <1>1, <1>2, <1>4

\* An appended entry of one of the kinds that dirty its account counts once there.
LEMMA CountedOnce ==
  ASSUME NEW d \in [Addr -> Nat], NEW a \in Addr, NEW e,
         e.kind \in ObjectKinds \cup {"create"}, e.account = a
  PROVE  Counted(d, e) = [d EXCEPT ![a] = @ + 1]
<1>1. \A b \in Addr : Dirtied(e, b) <=> b = a
  BY Zenon DEF Dirtied
<1>. QED BY <1>1, Zenon DEF Counted

\* The counts after getOrNewStateObject: one more for an account it creates.
LEMMA CreatedCounts ==
  ASSUME dirties \in [Addr -> Nat], NEW a \in Addr
  PROVE  CreatedDirties(a) = [dirties EXCEPT ![a] = @ + (IF Fresh(a) THEN 1 ELSE 0)]
<1>. DEFINE c == [kind |-> "create", account |-> a]
<1>1. c.kind \in ObjectKinds \cup {"create"} /\ c.account = a
  OBVIOUS
<1>2. CreatedDirties(a) = IF Fresh(a) THEN Counted(dirties, c) ELSE dirties
  BY Zenon DEF CreatedDirties
<1>. HIDE DEF c
<1>3. CASE Fresh(a)
  <2>1. CreatedDirties(a) = [dirties EXCEPT ![a] = @ + 1]
    BY <1>1, <1>2, <1>3, CountedOnce, Zenon
  <2>. QED BY <1>3, <2>1, Zenon
<1>4. CASE ~Fresh(a)
  <2>1. CreatedDirties(a) = dirties
    BY <1>2, <1>4, Zenon
  <2>. QED BY <1>4, <2>1
<1>. QED BY <1>3, <1>4

\* The counts after a change: one more than that.
LEMMA ChangeCounts ==
  ASSUME dirties \in [Addr -> Nat], NEW a \in Addr, NEW o, NEW e,
         e.kind \in ObjectKinds, e.account = a, Change(a, o, e)
  PROVE  dirties' = [dirties EXCEPT ![a] = @ + (IF Fresh(a) THEN 2 ELSE 1)]
<1>1. PICK n \in 0 .. 1 : n = IF Fresh(a) THEN 1 ELSE 0
  OBVIOUS
<1>2. CreatedDirties(a) = [dirties EXCEPT ![a] = @ + n]
  BY <1>1, CreatedCounts, Zenon
<1>3. [dirties EXCEPT ![a] = @ + n] \in [Addr -> Nat]
  OBVIOUS
<1>4. dirties' = [[dirties EXCEPT ![a] = @ + n] EXCEPT ![a] = @ + 1]
  <2>1. PICK d \in [Addr -> Nat] : d = [dirties EXCEPT ![a] = @ + n]
    BY <1>3, Zenon
  <2>2. dirties' = Counted(d, e)
    BY <1>2, <2>1, Zenon DEF Change
  <2>3. e.kind \in ObjectKinds \cup {"create"}
    OBVIOUS
  <2>4. Counted(d, e) = [d EXCEPT ![a] = @ + 1]
    BY <2>3, CountedOnce, Zenon
  <2>. QED BY <2>1, <2>2, <2>4, Zenon
<1>. QED BY <1>1, <1>4

\* Change of an object is undone by its entry, and by the creation of the object
\* before it.
LEMMA ChangeRecorded ==
  ASSUME IInv, pc = "run", NEW a \in Addr, NEW o \in stateObject, NEW e \in JournalEntry,
         e.kind \in ObjectKinds, e.account = a,
         UndoAccount(e, ViewOf(a, o)) = ViewOf(a, getOrNewStateObject(a)),
         Change(a, o, e), ObjectOnly
  PROVE  Recorded
<1>. DEFINE acct == ViewOf(a, o)
            old == ViewOf(a, getOrNewStateObject(a))
<1>1. TypeOK /\ WorldOK(World) /\ World = ObjectWorld(View, dirties)
  BY WorldNow, SMTT(30)
<1>2. acct \in AccountView /\ old \in AccountView /\ dirties[a] \in Nat
  BY <1>1, ObjectView, GetObjectType, SMTT(30) DEF TypeOK
<1>3. UNCHANGED <<accounts, storage, refund, logs, addresses, slots>>
  BY DEF ObjectOnly, keeperVars, listVars
<1>4. View' = [View EXCEPT ![a] = acct]
  BY <1>1, <1>3, ViewExcept, Zenon DEF Change
<1>5. World' = ObjectWorld(View', dirties')
  BY <1>3 DEF World, ObjectWorld
<1>6. dirties \in [Addr -> Nat] /\ \A x \in AccountView : x # Nil
  BY <1>1, NilViewAssumption DEF TypeOK
<1>7. UndoAccount(e, acct) = old /\ (~Fresh(a) => old = View[a])
  BY <1>1, GetObjectType DEF View
<1>. HIDE DEF acct, old
<1>8. CASE ~Fresh(a)
  <2>1. journal' = Append(journal, e) /\ dirties' = [dirties EXCEPT ![a] = dirties[a] + 1]
    <3>1. journal' = Append(journal, e)
      BY <1>8, Zenon DEF Change, Created
    <3>2. dirties' = [dirties EXCEPT ![a] = @ + (IF Fresh(a) THEN 2 ELSE 1)]
      BY <1>6, ChangeCounts, Zenon
    <3>. QED BY <1>8, <3>1, <3>2, Zenon
  <2>2. World' = AccountWorld(a, acct, dirties[a] + 1)
    BY <1>4, <1>5, <2>1, SMTT(30) DEF AccountWorld
  <2>3. Undo(e, World') = World
    <3>1. dirties[a] + 1 \in Nat /\ (dirties[a] + 1) - 1 = dirties[a]
      BY <1>2
    <3>. QED BY <1>1, <1>7, <1>8, <2>2, <3>1, UndoAccountWorld, AccountWorldFields, SMTT(30)
  <2>4. World'.view[a] = acct /\ World'.dirties[a] > 0
    BY <1>1, <1>2, <2>2, AccountWorldFields, SMTT(30)
  <2>5. EntryOK(e, World')
    BY <1>2, <1>6, <2>4, ObjectEntryOK DEF ObjectKinds
  <2>6. WorldOK(World')
    BY <1>1, <1>2, <2>2, AccountWorldOK, SMTT(30)
  <2>. QED BY <2>1, <2>3, <2>5, <2>6 DEF Recorded, AppendsOne, Undoable
<1>9. CASE Fresh(a)
  <2>. DEFINE c == [kind |-> "create", account |-> a]
              w == AccountWorld(a, old, 1)
  <2>1. View[a] = Nil /\ accounts[a] = Nil /\ dirties[a] = 0
    BY <1>1, <1>9, FreshAccount, SMTT(30)
  <2>2. journal' = Append(Append(journal, c), e) /\ dirties' = [dirties EXCEPT ![a] = 2]
    <3>1. journal' = Append(Append(journal, c), e)
      BY <1>9, Zenon DEF Change, Created
    <3>2. dirties' = [dirties EXCEPT ![a] = @ + (IF Fresh(a) THEN 2 ELSE 1)]
      BY <1>6, ChangeCounts, Zenon
    <3>3. dirties[a] + (IF Fresh(a) THEN 2 ELSE 1) = 2
      BY <1>9, <2>1
    <3>. QED BY <3>1, <3>2, <3>3, Zenon
  <2>3. World' = AccountWorld(a, acct, 2)
    BY <1>4, <1>5, <2>2, SMTT(30) DEF AccountWorld
  <2>4. Undo(e, World') = w
    BY <1>1, <1>7, <2>3, UndoAccountWorld
  <2>5. Undo(c, w) = World
    BY <1>1, <2>1, UndoAccountWorld, AccountWorldFields
  <2>6. c \in JournalEntry /\ c.kind = "create" /\ c.account = a
    BY DEF JournalEntry, createObjectChange
  <2>7. /\ World'.view[a] = acct /\ World'.dirties[a] = 2
        /\ w.view[a] = old /\ w.dirties[a] = 1
    BY <1>1, <2>3, AccountWorldFields
  <2>8. WorldOK(World') /\ WorldOK(w)
    BY <1>1, <1>2, <2>3, AccountWorldOK, SMTT(30)
  <2>. HIDE DEF c, w
  <2>9. EntryOK(e, World')
    BY <1>2, <1>6, <2>7, ObjectEntryOK, SMTT(30) DEF ObjectKinds
  <2>10. EntryOK(c, w)
    BY <2>1, <2>6, <2>7, ObjectEntryOK DEF ObjectKinds
  <2>. QED BY <2>2, <2>4, <2>5, <2>8, <2>9, <2>10, SMTT(30) DEF Recorded, AppendsTwo, Undoable
<1>. QED BY <1>8, <1>9

\* A loaded or new object shows what was seen, or is undone by its creation.
LEMMA TouchRecorded ==
  ASSUME IInv, pc = "run", NEW a \in Addr, NEW o \in stateObject,
         ViewOf(a, o) = ViewOf(a, getOrNewStateObject(a)),
         Touch(a, o), ObjectOnly
  PROVE  Recorded
<1>. DEFINE acct == ViewOf(a, o)
<1>1. TypeOK /\ WorldOK(World) /\ World = ObjectWorld(View, dirties)
  BY WorldNow, SMTT(30)
<1>2. acct \in AccountView /\ dirties[a] \in Nat
  BY <1>1, ObjectView, SMTT(30) DEF TypeOK
<1>3. UNCHANGED <<accounts, storage, refund, logs, addresses, slots>>
  BY DEF ObjectOnly, keeperVars, listVars
<1>4. View' = [View EXCEPT ![a] = acct]
  BY <1>1, <1>3, ViewExcept, Zenon DEF Touch
<1>5. World' = ObjectWorld(View', dirties')
  BY <1>3 DEF World, ObjectWorld
<1>6. dirties \in [Addr -> Nat] /\ View \in [Addr -> AccountView \cup {Nil}]
  BY <1>1, ViewType, Zenon DEF TypeOK
<1>7. ~Fresh(a) => acct = View[a]
  BY <1>1, GetObjectType DEF View
<1>. HIDE DEF acct
<1>8. CASE ~Fresh(a)
  <2>1. journal' = journal /\ dirties' = dirties
    BY <1>6, <1>8, CreatedCounts DEF Touch, Created
  <2>2. View' = View
    BY <1>4, <1>6, <1>7, <1>8, SMTT(30)
  <2>. QED BY <1>1, <1>5, <2>1, <2>2 DEF Recorded, AppendsNone
<1>9. CASE Fresh(a)
  <2>. DEFINE c == [kind |-> "create", account |-> a]
  <2>1. View[a] = Nil /\ accounts[a] = Nil /\ dirties[a] = 0
    BY <1>1, <1>9, FreshAccount
  <2>2. journal' = Append(journal, c) /\ dirties' = [dirties EXCEPT ![a] = 1]
    BY <1>6, <1>9, <2>1, CreatedCounts DEF Touch, Created
  <2>3. World' = AccountWorld(a, acct, 1)
    BY <1>4, <1>5, <2>2, SMTT(30) DEF AccountWorld
  <2>4. Undo(c, World') = World
    BY <1>1, <2>1, <2>3, UndoAccountWorld, AccountWorldFields
  <2>5. c \in JournalEntry /\ c.kind = "create" /\ c.account = a
    BY Zenon DEF JournalEntry, createObjectChange
  <2>6. World'.dirties[a] = 1 /\ WorldOK(World')
    BY <1>1, <1>2, <2>3, AccountWorldFields, AccountWorldOK, SMTT(30)
  <2>. HIDE DEF c
  <2>7. EntryOK(c, World')
    BY <2>1, <2>5, <2>6, ObjectEntryOK DEF ObjectKinds
  <2>. QED BY <2>2, <2>4, <2>6, <2>7, SMTT(30) DEF Recorded, AppendsOne, Undoable
<1>. QED BY <1>8, <1>9

\* An operation on an object keeps the types and leaves dirty objects in place.
LEMMA ObjectStep ==
  ASSUME IInv, pc = "run", HistStep, ObjectOnly, NEW a \in Addr, NEW o \in stateObject,
         stateObjects' = [stateObjects EXCEPT ![a] = o],
         NEW n \in Nat, dirties' = [dirties EXCEPT ![a] = @ + n],
         journal' \in Seq(JournalEntry), Recorded
  PROVE  IInv'
<1>1. TypeOK
  BY DEF IInv
<1>2. stateObjects' \in [Addr -> stateObject \cup {Nil}] /\ dirties' \in [Addr -> Nat]
  BY <1>1, SMTT(30) DEF TypeOK
<1>3. UNCHANGED <<keeperVars, snapVars, ctlVars>>
  BY DEF ObjectOnly
<1>4. TypeOK'
  BY <1>1, <1>2, Zenon DEF TypeOK, ObjectOnly, keeperVars, snapVars, ctlVars, listVars
<1>5. Chain' /\ Revisions' /\ Frames'
  BY <1>3, <1>4, ChainKept DEF Operation
<1>6. o # Nil
  BY NilAssumption
<1>7. \A b \in Addr : dirties'[b] > 0 => stateObjects'[b] # Nil
  BY <1>1, <1>6 DEF IInv, TypeOK
<1>8. pc' = "run"
  BY DEF ObjectOnly, ctlVars
<1>. QED BY <1>4, <1>5, <1>7, <1>8 DEF IInv

\* Change and Touch keep the invariant.
LEMMA ChangeStep ==
  ASSUME IInv, pc = "run", HistStep, NEW a \in Addr, NEW o \in stateObject,
         NEW e \in JournalEntry, e.kind \in ObjectKinds, e.account = a,
         UndoAccount(e, ViewOf(a, o)) = ViewOf(a, getOrNewStateObject(a)),
         Change(a, o, e), ObjectOnly
  PROVE  IInv'
<1>1. Recorded
  BY ChangeRecorded
<1>2. [kind |-> "create", account |-> a] \in JournalEntry
  BY SMTT(30) DEF JournalEntry, createObjectChange
<1>3. journal \in Seq(JournalEntry)
  BY DEF IInv, TypeOK
<1>4. journal' \in Seq(JournalEntry)
  BY <1>2, <1>3 DEF Change, Created
<1>5. PICK n \in Nat : dirties' = [dirties EXCEPT ![a] = @ + n]
  <2>1. dirties \in [Addr -> Nat]
    BY DEF IInv, TypeOK
  <2>2. dirties' = [dirties EXCEPT ![a] = @ + (IF Fresh(a) THEN 2 ELSE 1)]
    BY <2>1, ChangeCounts, Zenon
  <2>. QED BY <2>2, Zenon
<1>6. stateObjects' = [stateObjects EXCEPT ![a] = o]
  BY DEF Change
<1>. QED BY <1>1, <1>4, <1>5, <1>6, ObjectStep, Zenon

\* Touch keeps the invariant when the object it caches shows what is seen.
LEMMA TouchStep ==
  ASSUME IInv, pc = "run", HistStep, NEW a \in Addr, NEW o \in stateObject,
         ViewOf(a, o) = ViewOf(a, getOrNewStateObject(a)), Touch(a, o), ObjectOnly
  PROVE  IInv'
<1>1. Recorded
  BY TouchRecorded
<1>2. [kind |-> "create", account |-> a] \in JournalEntry
  BY SMTT(30) DEF JournalEntry, createObjectChange
<1>3. journal \in Seq(JournalEntry)
  BY DEF IInv, TypeOK
<1>4. journal' \in Seq(JournalEntry)
  BY <1>2, <1>3 DEF Touch, Created
<1>5. PICK n \in Nat : dirties' = [dirties EXCEPT ![a] = @ + n]
  <2>1. dirties \in [Addr -> Nat]
    BY DEF IInv, TypeOK
  <2>2. dirties' = [dirties EXCEPT ![a] = @ + (IF Fresh(a) THEN 1 ELSE 0)]
    BY <2>1, CreatedCounts, Zenon DEF Touch
  <2>. QED BY <2>2, Zenon
<1>6. stateObjects' = [stateObjects EXCEPT ![a] = o]
  BY DEF Touch
<1>. QED BY <1>1, <1>4, <1>5, <1>6, ObjectStep, Zenon

\* Each operation on an object keeps the invariant.
LEMMA BalanceStep ==
  ASSUME IInv, HistStep, NEW a \in Addr, NEW n \in Nat, AddBalance(a, n) \/ SubBalance(a, n)
  PROVE  IInv'
<1>. DEFINE o == getOrNewStateObject(a)
            e == [kind |-> "balance", account |-> a, prev |-> o.balance]
<1>1. TypeOK /\ o \in stateObject /\ o.balance \in Nat /\ pc = "run" /\ ObjectOnly
  BY GetObjectType, SMTT(30) DEF IInv, AddBalance, SubBalance, Running, stateObject
<1>2. e \in JournalEntry /\ e.kind \in ObjectKinds /\ e.account = a
  BY <1>1 DEF JournalEntry, balanceChange, ObjectKinds
<1>3. CASE Touch(a, o)
  BY <1>1, <1>3, TouchStep
<1>4. ASSUME NEW x \in Nat, Change(a, [o EXCEPT !.balance = x], e)
      PROVE  IInv'
  <2>1. [o EXCEPT !.balance = x] \in stateObject
        /\ UndoAccount(e, ViewOf(a, [o EXCEPT !.balance = x])) = ViewOf(a, o)
    BY <1>1, FieldUndone, Zenon
  <2>. HIDE DEF e
  <2>. QED BY <1>1, <1>2, <1>4, <2>1, ChangeStep
<1>5. CASE AddBalance(a, n)
  <2>1. Touch(a, o) \/ Change(a, [o EXCEPT !.balance = o.balance + n], e)
    BY <1>5 DEF AddBalance
  <2>. QED BY <1>1, <1>3, <1>4, <2>1
<1>6. CASE SubBalance(a, n)
  <2>1. Touch(a, o) \/ (n <= o.balance /\ Change(a, [o EXCEPT !.balance = o.balance - n], e))
    BY <1>6 DEF SubBalance
  <2>. QED BY <1>1, <1>3, <1>4, <2>1
<1>. QED BY <1>5, <1>6

\* SetNonce keeps the invariant.
LEMMA NonceStep ==
  ASSUME IInv, HistStep, NEW a \in Addr, NEW n \in Nat, SetNonce(a, n)
  PROVE  IInv'
<1>. DEFINE o == getOrNewStateObject(a)
            e == [kind |-> "nonce", account |-> a, prev |-> o.nonce]
            new == [o EXCEPT !.nonce = n]
<1>1. /\ TypeOK /\ pc = "run" /\ ObjectOnly
      /\ o \in stateObject /\ o.nonce \in Nat
  BY GetObjectType, SMTT(30) DEF IInv, SetNonce, Running, stateObject
<1>2. e \in JournalEntry /\ e.kind \in ObjectKinds /\ e.account = a
  BY <1>1 DEF JournalEntry, nonceChange, ObjectKinds
<1>3. Change(a, new, e)
  BY DEF SetNonce
<1>4. new \in stateObject /\ UndoAccount(e, ViewOf(a, new)) = ViewOf(a, o)
  BY <1>1, FieldUndone, Zenon
<1>. HIDE DEF e, new
<1>. QED BY <1>1, <1>2, <1>3, <1>4, ChangeStep

\* SetCode keeps the invariant.
LEMMA CodeStep ==
  ASSUME IInv, HistStep, NEW a \in Addr, NEW c \in Code, SetCode(a, c)
  PROVE  IInv'
<1>. DEFINE o == getOrNewStateObject(a)
            e == [kind |-> "code", account |-> a, prevcode |-> o.code]
<1>1. TypeOK /\ o \in stateObject /\ o.code \in Code /\ pc = "run" /\ ObjectOnly
  BY GetObjectType, Zenon DEF IInv, SetCode, Running, stateObject
<1>2. e \in JournalEntry /\ e.kind \in ObjectKinds /\ e.account = a
  BY <1>1 DEF JournalEntry, codeChange, ObjectKinds
<1>3. Change(a, setCode(o, c), e)
  BY DEF SetCode
<1>4. setCode(o, c) \in stateObject /\ UndoAccount(e, ViewOf(a, setCode(o, c))) = ViewOf(a, o)
  BY <1>1, FieldUndone, Zenon
<1>. HIDE DEF e
<1>. QED BY <1>1, <1>2, <1>3, <1>4, ChangeStep

\* SetState keeps the invariant, also when it changes nothing.
LEMMA StateStep ==
  ASSUME IInv, HistStep, NEW a \in Addr, NEW k \in Slot, NEW v \in Val, SetState(a, k, v)
  PROVE  IInv'
<1>. DEFINE o == Cached(a, getOrNewStateObject(a), k)
            prev == GetState(a, o, k)
            e == [kind |-> "storage", account |-> a, key |-> k, prevalue |-> prev]
            new == [o EXCEPT !.dirtyStorage[k] = v]
<1>1. TypeOK /\ pc = "run" /\ ObjectOnly
  BY DEF IInv, SetState, Running
<1>2. /\ o \in stateObject /\ prev \in Val
      /\ ViewOf(a, o) = ViewOf(a, getOrNewStateObject(a))
  BY <1>1, CachedView, GetObjectType, SMTT(30)
<1>3. e \in JournalEntry /\ e.kind \in ObjectKinds /\ e.account = a
  BY <1>2 DEF JournalEntry, storageChange, ObjectKinds
<1>4. new \in stateObject /\ UndoAccount(e, ViewOf(a, new)) = ViewOf(a, o)
  BY <1>1, <1>2, FieldUndone, Zenon
<1>5. Touch(a, o) \/ Change(a, new, e)
  BY DEF SetState
<1>. HIDE DEF o, e, new
<1>6. CASE Touch(a, o)
  BY <1>1, <1>2, <1>6, TouchStep, SMTT(30)
<1>7. CASE Change(a, new, e)
  BY <1>1, <1>2, <1>3, <1>4, <1>7, ChangeStep, SMTT(30)
<1>. QED BY <1>5, <1>6, <1>7

\* Getters, which load objects and cache slots, keep the invariant.
LEMMA ReadStep ==
  ASSUME IInv, HistStep, NEW a \in Addr,
         Exist(a) \/ \E k \in Slot : ReadState(a, k)
  PROVE  IInv'
<1>. DEFINE o == getStateObject(a)
<1>1. TypeOK /\ pc = "run" /\ ObjectOnly /\ ~Fresh(a)
  BY DEF IInv, Exist, ReadState
<1>2. o \in stateObject /\ o = getOrNewStateObject(a)
  BY <1>1, GetObjectType DEF Fresh
<1>3. CASE Exist(a)
  BY <1>1, <1>2, <1>3, TouchStep, SMTT(30) DEF Exist
<1>4. ASSUME NEW k \in Slot, ReadState(a, k)
      PROVE  IInv'
  <2>1. Cached(a, o, k) \in stateObject /\ ViewOf(a, Cached(a, o, k)) = ViewOf(a, o)
    BY <1>1, <1>2, CachedView
  <2>. QED BY <1>1, <1>2, <1>4, <2>1, TouchStep, SMTT(30) DEF ReadState
<1>. QED BY <1>3, <1>4, SMTT(30)

\* CreateAccount of an absent address keeps the invariant.
LEMMA CreateAccountStep ==
  ASSUME IInv, HistStep, NEW a \in Addr, CreateAccount(a)
  PROVE  IInv'
<1>1. TypeOK /\ pc = "run" /\ ObjectOnly /\ Fresh(a) /\ Touch(a, newObject(EmptyAccount))
  BY DEF IInv, CreateAccount, Running
<1>2. newObject(EmptyAccount) \in stateObject
  BY NewObjectType, EmptyAccountType
<1>3. getOrNewStateObject(a) = newObject(EmptyAccount)
  BY <1>1 DEF getOrNewStateObject, Fresh
<1>. QED BY <1>1, <1>2, <1>3, TouchStep, SMTT(30)

\* Suicide keeps the invariant.
LEMMA SuicideStep ==
  ASSUME IInv, HistStep, NEW a \in Addr, Suicide(a)
  PROVE  IInv'
<1>. DEFINE o == getStateObject(a)
            e == [kind |-> "suicide", account |-> a, prev |-> o.suicided, prevbalance |-> o.balance]
            new == [o EXCEPT !.suicided = TRUE, !.balance = 0]
<1>1. TypeOK /\ pc = "run" /\ ObjectOnly /\ o # Nil /\ Change(a, new, e)
  BY DEF IInv, Suicide, Running
<1>2. o \in stateObject /\ o = getOrNewStateObject(a)
  BY <1>1, GetObjectType DEF Fresh
<1>3. o.suicided \in BOOLEAN /\ o.balance \in Nat
  BY <1>2, SMTT(30) DEF stateObject
<1>4. e \in JournalEntry /\ e.kind \in ObjectKinds /\ e.account = a
  BY <1>3 DEF JournalEntry, suicideChange, ObjectKinds
<1>5. new \in stateObject /\ UndoAccount(e, ViewOf(a, new)) = ViewOf(a, o)
  BY <1>1, <1>2, FieldUndone, Zenon
<1>. HIDE DEF o, e, new
<1>. QED BY <1>1, <1>2, <1>4, <1>5, ChangeStep

\* A new object of an address that is not dirty and has neither nonce nor code,
\* with the balance of the old one, shows what is stored.
LEMMA ResetView ==
  ASSUME TypeOK, WorldOK(World), NEW a \in Addr, NEW prev \in stateObject,
         prev = getStateObject(a), Blank(prev), dirties[a] = 0
  PROVE  ViewOf(a, [newObject(EmptyAccount) EXCEPT !.balance = prev.balance]) = StoreView(a)
<1>. DEFINE new == [newObject(EmptyAccount) EXCEPT !.balance = prev.balance]
<1>1. ViewOf(a, prev) = StoreView(a) /\ ViewOf(a, prev) # Nil /\ prev # Nil
  BY ObjectView, NilAssumption, Zenon DEF WorldOK, World, View
<1>2. /\ accounts[a] # Nil /\ accounts[a].nonce = prev.nonce
      /\ accounts[a].balance = prev.balance /\ accounts[a].code = prev.code
  BY <1>1 DEF StoreView, ViewOf
<1>3. new \in stateObject
  BY NewObjectType, EmptyAccountType DEF stateObject
<1>4. /\ new # Nil /\ new.nonce = 0 /\ new.code = NoCode /\ new.balance = prev.balance
      /\ new.suicided = FALSE
  BY <1>3, NilAssumption, Zenon DEF newObject, EmptyAccount, stateObject
<1>5. \A k \in Slot : GetState(a, new, k) = storage[a][k]
  BY DEF GetState, GetCommittedState, newObject
<1>6. [k \in Slot |-> storage[a][k]] = storage[a]
  BY Zenon DEF TypeOK
<1>. HIDE DEF new
<1>7. ViewOf(a, new) = [nonce |-> 0, balance |-> prev.balance, code |-> NoCode,
                        suicided |-> FALSE, storage |-> storage[a]]
  BY <1>4, <1>5, <1>6, Zenon DEF ViewOf
<1>8. StoreView(a) = [nonce |-> 0, balance |-> prev.balance, code |-> NoCode,
                      suicided |-> FALSE, storage |-> storage[a]]
  BY <1>2, Zenon DEF StoreView, Blank
<1>9. ViewOf(a, new) = StoreView(a)
  BY <1>7, <1>8
<1>. QED BY <1>9 DEF new

\* CreateAccount over an existing account, and the nonce that follows, keep the
\* invariant: the entry of the reset undoes what its own lack of a dirty mark hides.
LEMMA CreateContractStep ==
  ASSUME IInv, HistStep, NEW a \in Addr, CreateContract(a)
  PROVE  IInv'
<1>. DEFINE prev == getStateObject(a)
            o == newObject(EmptyAccount)
            new == IF prev = Nil THEN o ELSE [o EXCEPT !.balance = prev.balance]
            new1 == [new EXCEPT !.nonce = 1]
            e1 == IF prev = Nil THEN [kind |-> "create", account |-> a]
                  ELSE [kind |-> "reset", account |-> a, prev |-> prev]
            e2 == [kind |-> "nonce", account |-> a, prev |-> 0]
            n == IF prev = Nil THEN 2 ELSE 1
            w == AccountWorld(a, ViewOf(a, new), dirties[a] + n - 1)
<1>1. /\ TypeOK /\ WorldOK(World) /\ World = ObjectWorld(View, dirties)
      /\ pc = "run" /\ ObjectOnly
  BY WorldNow DEF CreateContract, Running
<1>2. /\ stateObjects' = [stateObjects EXCEPT ![a] = new1]
      /\ journal' = Append(Append(journal, e1), e2)
      /\ dirties' = [dirties EXCEPT ![a] = @ + n]
      /\ prev # Nil => Blank(prev)
  <2>1. /\ stateObjects' = [stateObjects EXCEPT ![a] = new1]
        /\ journal' = Append(Append(journal, e1), e2)
        /\ dirties' = Counted(Counted(dirties, e1), e2)
        /\ prev # Nil => Blank(prev)
    BY Zenon DEF CreateContract
  <2>2. dirties \in [Addr -> Nat]
    BY <1>1, Zenon DEF TypeOK
  <2>3. e2.kind \in ObjectKinds \cup {"create"} /\ e2.account = a
    BY DEF ObjectKinds
  <2>4. ASSUME NEW d \in [Addr -> Nat] PROVE Counted(d, e2) = [d EXCEPT ![a] = @ + 1]
    <3>. HIDE DEF e2
    <3>. QED BY <2>3, CountedOnce, Zenon
  <2>5. CASE prev = Nil
    <3>1. e1.kind \in ObjectKinds \cup {"create"} /\ e1.account = a
      BY <2>5
    <3>. HIDE DEF e1, e2, prev
    <3>2. Counted(dirties, e1) = [dirties EXCEPT ![a] = @ + 1]
      BY <2>2, <3>1, CountedOnce, Zenon
    <3>3. [dirties EXCEPT ![a] = @ + 1] \in [Addr -> Nat]
      BY <2>2
    <3>4. dirties' = [[dirties EXCEPT ![a] = @ + 1] EXCEPT ![a] = @ + 1]
      BY <2>1, <2>4, <3>2, <3>3, Zenon
    <3>5. dirties' = [dirties EXCEPT ![a] = @ + 2]
      BY <2>2, <3>4
    <3>. QED BY <2>1, <2>5, <3>5, Zenon
  <2>6. CASE prev # Nil
    <3>1. e1.kind = "reset"
      BY <2>6
    <3>. HIDE DEF e1, e2, prev
    <3>2. \A b \in Addr : ~Dirtied(e1, b)
      BY <3>1 DEF Dirtied, ObjectKinds
    <3>3. Counted(dirties, e1) = dirties
      BY <2>2, <3>2, Zenon DEF Counted
    <3>. QED BY <2>1, <2>2, <2>4, <2>6, <3>3, Zenon
  <2>. QED BY <2>5, <2>6
<1>3. prev \in stateObject \cup {Nil} /\ o \in stateObject /\ o.nonce = 0
  BY <1>1, GetObjectType, NewObjectType, EmptyAccountType DEF newObject, EmptyAccount
<1>4. new \in stateObject /\ new.nonce = 0
  BY <1>3 DEF stateObject
<1>5. new1 \in stateObject /\ UndoAccount(e2, ViewOf(a, new1)) = ViewOf(a, new)
  BY <1>1, <1>4, FieldUndone, Zenon
<1>6. e1 \in JournalEntry /\ e2 \in JournalEntry
  BY <1>3, Zenon DEF JournalEntry, createObjectChange, resetObjectChange, nonceChange
<1>7. /\ e1.account = a /\ e1.kind = (IF prev = Nil THEN "create" ELSE "reset")
      /\ e2.account = a /\ e2.kind = "nonce" /\ (prev # Nil => e1.prev = prev)
  OBVIOUS
<1>8. UNCHANGED <<accounts, storage, refund, logs, addresses, slots>>
  BY <1>1, SMTT(30) DEF ObjectOnly, keeperVars, listVars
<1>9. dirties \in [Addr -> Nat] /\ dirties[a] \in Nat /\ View[a] = ViewOf(a, prev)
      /\ n \in Nat /\ n > 0 /\ (prev = Nil <=> n = 2) /\ (prev # Nil <=> n = 1)
  <2>1. dirties \in [Addr -> Nat]
    BY <1>1, Zenon DEF TypeOK
  <2>2. View[a] = ViewOf(a, prev)
    BY Zenon DEF View
  <2>. QED BY <2>1, <2>2
<1>10. View[a] = Nil <=> prev = Nil
  BY <1>1, ViewType DEF Fresh
<1>11. prev # Nil /\ dirties[a] = 0 => ViewOf(a, new) = StoreView(a)
  BY <1>1, <1>2, <1>3, ResetView, SMTT(30)
<1>12. prev = Nil => dirties[a] = 0 /\ accounts[a] = Nil
  BY <1>1, FreshAccount DEF Fresh
<1>13. ViewOf(a, new) \in AccountView /\ ViewOf(a, new1) \in AccountView
       /\ ViewOf(a, new) # Nil /\ ViewOf(a, new1) # Nil
  BY <1>1, <1>4, <1>5, ObjectView
<1>14. View' = [View EXCEPT ![a] = ViewOf(a, new1)]
  BY <1>1, <1>2, <1>5, <1>8, ViewExcept, Zenon
<1>15. journal' \in Seq(JournalEntry)
  BY <1>1, <1>2, <1>6, SMTT(30) DEF TypeOK
<1>. HIDE DEF prev, o, new, new1, e1, e2, n
<1>16. World' = AccountWorld(a, ViewOf(a, new1), dirties[a] + n)
  BY <1>2, <1>8, <1>9, <1>14, Zenon DEF AccountWorld, ObjectWorld, World
<1>17. Undo(e2, World') = w
  <2>1. PICK m \in Nat : m = dirties[a] + n
    BY <1>9
  <2>2. e2.kind \in ObjectKinds
    BY <1>7 DEF ObjectKinds
  <2>3. Undo(e2, AccountWorld(a, ViewOf(a, new1), m))
          = AccountWorld(a, UndoAccount(e2, ViewOf(a, new1)), m - 1)
    <3>1. e2.account = a
      BY <1>7
    <3>. QED BY <1>1, <2>2, <3>1, UndoAccountWorld, SMTT(30)
  <2>4. m - 1 = dirties[a] + n - 1
    BY <1>9, <2>1
  <2>. QED BY <1>5, <1>16, <2>1, <2>3, <2>4, SMTT(30)
<1>18. Undo(e1, w) = World
  <2>1. dirties[a] + n - 1 \in Nat
    BY <1>9
  <2>2. CASE prev = Nil
    <3>1. PICK m \in Nat : m = dirties[a] + n - 1 /\ m - 1 = dirties[a]
      BY <1>9, <2>1, <2>2, SMTT(30)
    <3>2. Undo(e1, AccountWorld(a, ViewOf(a, new), m)) = AccountWorld(a, Nil, m - 1)
      <4>1. e1.account = a /\ e1.kind = "create"
        BY <1>7, <2>2, Zenon
      <4>. QED BY <1>1, <4>1, UndoAccountWorld, SMTT(30)
    <3>3. Undo(e1, w) = AccountWorld(a, View[a], dirties[a])
      BY <1>10, <2>2, <3>1, <3>2, Zenon
    <3>. QED BY <1>1, <3>3, SameAccountWorld, Zenon
  <2>3. CASE prev # Nil
    <3>1. PICK m \in Nat : m = dirties[a] + n - 1 /\ m = dirties[a]
      BY <1>9, <2>1, <2>3
    <3>2. e1.account = a /\ e1.kind = "reset" /\ e1.prev = prev
      BY <1>7, <2>3, Zenon
    <3>3. Undo(e1, AccountWorld(a, ViewOf(a, new), m)) = AccountWorld(a, ViewOf(a, prev), m)
      BY <1>1, <3>2, UndoAccountWorld, SMTT(30)
    <3>4. Undo(e1, w) = AccountWorld(a, View[a], dirties[a])
      BY <1>9, <3>1, <3>3, Zenon
    <3>. QED BY <1>1, <3>4, SameAccountWorld, Zenon
  <2>. QED BY <2>2, <2>3
<1>19. WorldOK(World')
  <2>1. dirties[a] + n \in Nat /\ dirties[a] + n > 0
    BY <1>9
  <2>. QED BY <1>1, <1>13, <1>16, <2>1, AccountWorldOK
<1>20. WorldOK(w)
  <2>1. dirties[a] + n - 1 \in Nat
    BY <1>9
  <2>2. dirties[a] + n - 1 = 0 => ViewOf(a, new) = StoreView(a)
    BY <1>9, <1>11, SMTT(30)
  <2>. QED BY <1>1, <1>13, <2>1, <2>2, AccountWorldOK, SMTT(30)
<1>21. /\ World'.view[a] = ViewOf(a, new1) /\ World'.dirties[a] = dirties[a] + n
       /\ w.view[a] = ViewOf(a, new) /\ w.dirties[a] = dirties[a] + n - 1
  <2>1. \A acct, d : /\ AccountWorld(a, acct, d).view[a] = acct
                     /\ AccountWorld(a, acct, d).dirties[a] = d
    BY <1>1, AccountWorldFields, SMTT(30)
  <2>. QED BY <1>16, <2>1, Zenon
<1>. HIDE DEF w
<1>22. EntryOK(e2, World')
  <2>1. dirties[a] + n > 0
    BY <1>9
  <2>2. e2.kind \in ObjectKinds /\ e2.kind # "create" /\ e2.kind # "reset"
    BY <1>7 DEF ObjectKinds
  <2>. QED BY <1>6, <1>7, <1>13, <1>21, <2>1, <2>2, ObjectEntryOK, Zenon
<1>23. EntryOK(e1, w)
  <2>1. prev = Nil => dirties[a] + n - 1 > 0
    BY <1>9
  <2>2. (e1.kind = "create" /\ prev = Nil) \/ (e1.kind = "reset" /\ prev # Nil)
    BY <1>7, Zenon
  <2>. QED BY <1>6, <1>7, <1>12, <1>13, <1>21, <2>1, <2>2, ObjectEntryOK, Zenon
<1>24. Recorded
  BY <1>2, <1>17, <1>18, <1>19, <1>20, <1>22, <1>23, SMTT(30) DEF Recorded, AppendsTwo, Undoable
<1>. QED BY <1>1, <1>2, <1>5, <1>9, <1>15, <1>24, ObjectStep, Zenon

------------------------------------------------------------------------------
(* Theorems *)

\* The invariant and the next-state relation.
LEMMA NextIInv == IInv /\ [HNext]_hvars => IInv'
<1>. SUFFICES ASSUME IInv, [HNext]_hvars PROVE IInv'
  OBVIOUS
<1>0. UsedAddr \subseteq Addr /\ WarmAddr \subseteq Addr /\ Amount \subseteq Nat /\ RefundGas \subseteq Nat
  BY ConstantsAssumption
<1>1. CASE UNCHANGED hvars
  <2>1. UNCHANGED <<accounts, storage, codes, stateObjects, journal, dirties, validRevisions>>
    BY <1>1 DEF hvars, vars
  <2>2. UNCHANGED <<nextRevisionID, refund, logs, addresses, slots, frames, pc, target, pending>>
    BY <1>1 DEF hvars, vars
  <2>3. UNCHANGED <<base, txs, hist, marks>>
    BY <1>1 DEF hvars, vars
  <2>4. TypeOK' = TypeOK
    BY <2>1, <2>2, <2>3, Zenon DEF TypeOK
  <2>5. World' = World
    <3>1. \A a \in Addr : getStateObject(a)' = getStateObject(a)
      BY <2>1, Zenon DEF getStateObject
    <3>2. \A a \in Addr : ViewOf(a, getStateObject(a))' = ViewOf(a, getStateObject(a))
      BY <2>1, <3>1 DEF ViewOf, GetState, GetCommittedState
    <3>3. View' = View
      BY <3>2, Zenon DEF View
    <3>. QED BY <2>1, <2>2, <3>3, Zenon DEF World
  <2>6. \A i \in 1 .. Len(journal) + 1 : WorldAt(i)' = WorldAt(i)
    BY <2>1, <2>3, <2>5 DEF WorldAt
  <2>7. \A i : WorldAt(i)' = WorldAt(i)
    BY <2>1, <2>3, <2>5, SMTT(30) DEF WorldAt
  <2>8. TypeOK /\ Chain => Chain'
    BY <2>1, <2>3, <2>6, ChainPrefix, Zenon DEF Chain
  <2>9. Revisions' = Revisions /\ Frames' = Frames
    <3>1. Live' = Live
      BY <2>1, <2>2, Zenon DEF Live
    <3>2. Frames' = Frames
      BY <2>1, <2>2, <3>1, Zenon DEF Frames
    <3>3. Revisions' = Revisions
      BY <2>1, <2>2, <2>3, <2>7, <3>1, Zenon DEF Revisions
    <3>. QED BY <3>2, <3>3
  <2>. QED BY <2>1, <2>2, <2>4, <2>8, <2>9, SMTT(30) DEF IInv
<1>2. ASSUME NEW a \in UsedAddr, ObjectNext(a), HistStep PROVE IInv'
  <2>1. a \in Addr
    BY <1>0
  <2>2. ASSUME NEW n \in Amount, AddBalance(a, n) \/ SubBalance(a, n) PROVE IInv'
    BY <1>0, <1>2, <2>1, <2>2, BalanceStep, SMTT(30)
  <2>3. ASSUME NEW n \in 0 .. MaxNonce, SetNonce(a, n) PROVE IInv'
    <3>1. n \in Nat
      BY ConstantsAssumption
    <3>. QED BY <1>2, <2>1, <2>3, <3>1, NonceStep
  <2>4. ASSUME NEW c \in Code, SetCode(a, c) PROVE IInv'
    BY <1>2, <2>1, <2>4, CodeStep, SMTT(30)
  <2>5. ASSUME NEW k \in Slot, NEW v \in Val, SetState(a, k, v) PROVE IInv'
    BY <1>2, <2>1, <2>5, StateStep, SMTT(30)
  <2>6. CASE Exist(a) \/ \E k \in Slot : ReadState(a, k)
    BY <1>2, <2>1, <2>6, ReadStep, SMTT(30)
  <2>7. CASE CreateAccount(a)
    BY <1>2, <2>1, <2>7, CreateAccountStep, Zenon
  <2>8. CASE CreateContract(a)
    BY <1>2, <2>1, <2>8, CreateContractStep, Zenon
  <2>9. CASE Suicide(a)
    BY <1>2, <2>1, <2>9, SuicideStep, Zenon
  <2>. QED BY <1>2, <2>2, <2>3, <2>4, <2>5, <2>6, <2>7, <2>8, <2>9, SMTT(30) DEF ObjectNext
<1>3. ASSUME PlainNext, HistStep PROVE IInv'
  <2>1. ASSUME NEW d \in LogData, AddLog(d) PROVE IInv'
    BY <1>3, <2>1, LogStep
  <2>2. ASSUME NEW gas \in RefundGas, AddRefund(gas) \/ SubRefund(gas) PROVE IInv'
    BY <1>0, <1>3, <2>2, RefundStep
  <2>3. ASSUME NEW a \in WarmAddr, AddAddressToAccessList(a) PROVE IInv'
    BY <1>0, <1>3, <2>3, ListAddressStep
  <2>4. ASSUME NEW a \in WarmAddr, NEW k \in Slot, AddSlotToAccessList(a, k) PROVE IInv'
    BY <1>0, <1>3, <2>4, ListSlotStep, SMTT(30)
  <2>. QED BY <1>3, <2>1, <2>2, <2>3, <2>4, SMTT(30) DEF PlainNext
<1>4. ASSUME HNext PROVE IInv'
  <2>1. HistStep /\ Next
    BY <1>4 DEF HNext
  <2>2. CASE \E a \in UsedAddr : ObjectNext(a)
    BY <1>2, <2>1, <2>2
  <2>3. CASE PlainNext
    BY <1>3, <2>1, <2>3
  <2>4. CASE Snapshot
    BY <2>1, <2>4, SnapshotStep
  <2>5. CASE FrameReturn
    BY <2>1, <2>5, FrameReturnStep, SMTT(30)
  <2>6. CASE RevertToSnapshot
    BY <2>1, <2>6, RevertStep
  <2>7. CASE UndoEntry
    BY <2>1, <2>7, UndoEntryStep
  <2>8. CASE RevertDone
    BY <2>1, <2>8, RevertDoneStep
  <2>9. CASE Commit
    BY <2>9, CommitStep
  <2>10. CASE CommitError \/ CommitDone
    BY <2>10, CommitEndStep, SMTT(30)
  <2>11. CASE New
    BY <2>1, <2>11, NewStep
  <2>12. CASE \E a \in Addr : CommitAccount(a)
    BY <2>12, CommitAccountStep
  <2>. QED BY <2>1, <2>2, <2>3, <2>4, <2>5, <2>6, <2>7, <2>8, <2>9, <2>10, <2>11, <2>12, SMTT(30)
            DEF Next
<1>. QED BY <1>1, <1>4

\* The invariant holds always: in every reachable state of every transaction the
\* journal is a chain of undo steps that leads back through the worlds seen.
THEOREM Invariance == HSpec => []IInv
BY InitIInv, NextIInv, PTL DEF HSpec

\* The variables of the StateDB keep their types.
THEOREM TypeCorrect == HSpec => []TypeOK
<1>1. IInv => TypeOK
  BY DEF IInv
<1>. QED BY <1>1, Invariance, PTL

\* RevertToSnapshot (journal.Revert) brings back exactly the world in which the
\* Snapshot was taken, for every program of calls, however deep they nest.
THEOREM RevertCorrect == HSpec => []RevertRestores
<1>1. IInv => RevertRestores
  <2>. SUFFICES ASSUME IInv, pc = "revert", Len(journal) = validRevisions[target].journalIndex
                PROVE  World = marks[target]
    BY DEF RevertRestores
  <2>1. TypeOK /\ Revisions /\ Live = target
    BY SMTT(30) DEF IInv, Live
  <2>2. target \in 1 .. Live /\ Len(journal) \in Nat
    <3>1. target \in 0 .. Len(validRevisions) /\ target > 0
      BY <2>1, Zenon DEF Revisions
    <3>2. journal \in Seq(JournalEntry)
      BY <2>1, Zenon DEF TypeOK
    <3>. QED BY <2>1, <3>1, <3>2, RevisionType, SMTT(30)
  <2>3. marks[target] = WorldAt(Len(journal) + 1)
    BY <2>1, <2>2, Zenon DEF Revisions
  <2>. QED BY <2>2, <2>3 DEF WorldAt
<1>. QED BY <1>1, Invariance, PTL

\* The access list is undone in the order accessList.DeleteSlot relies on: a slot
\* set that empties is the last, an address that goes has no slots left.
LEMMA ListOrder == IInv => ListUndoneInOrder
<1>. SUFFICES ASSUME IInv, pc = "revert", Len(journal) > validRevisions[target].journalIndex
              PROVE  LET e == journal[Len(journal)] IN
                     /\ e.kind = "listSlot" /\ slots[addresses[e.address]] = {e.slot}
                          => addresses[e.address] = Len(slots)
                     /\ e.kind = "listAccount" => addresses[e.address] = NoSlots
  BY DEF ListUndoneInOrder
<1>1. EntryOK(journal[Len(journal)], World)
  BY NewestEntry, SMTT(30)
<1>2. World.addresses = addresses /\ World.slots = slots
  BY Zenon DEF World
<1>. QED BY <1>1, <1>2, Zenon DEF EntryOK

\* RevertToSnapshot never panics on the id of an open call frame.
LEMMA FramesCanRevert == IInv => FramesRevertible
<1>. SUFFICES ASSUME IInv, pc = "run", NEW f \in DOMAIN frames
              PROVE  Revertible(frames[f])
  BY SMTT(30) DEF FramesRevertible
<1>1. f \in 1 .. Len(frames) /\ Len(validRevisions) \in Nat
  <2>1. TypeOK /\ frames \in Seq(Nat)
    BY Zenon DEF IInv, TypeOK
  <2>. QED BY <2>1, RevisionType, SMTT(30)
<1>. QED BY <1>1, FrameFound DEF Revertible

\* A revert never panics and never corrupts the access list: the snapshot is
\* found, every entry can be undone, and the list is undone in order.
THEOREM UndoIsSafe == HSpec => []UndoSafe
<1>1. IInv => UndoSafe
  BY EntriesUndo, ListOrder, FramesCanRevert DEF UndoSafe
<1>. QED BY <1>1, Invariance, PTL

\* An account seen changed is marked dirty, so that Commit visits it.
THEOREM ChangesAreDirty == HSpec => []DirtyTracked
<1>1. IInv => DirtyTracked
  <2>. SUFFICES ASSUME IInv, pc = "run", NEW a \in Addr, dirties[a] = 0
                PROVE  View[a] = StoreView(a)
    BY ZenonT(30) DEF DirtyTracked
  <2>1. WorldOK(World) /\ World.view = View /\ World.dirties = dirties
    BY WorldNow DEF World
  <2>. QED BY <2>1, ZenonT(30) DEF WorldOK
<1>. QED BY <1>1, Invariance, PTL

------------------------------------------------------------------------------
(* The operations and what Commit relies on *)

\* So are the objects that the getters find.
LEMMA FoundSound ==
  ASSUME TypeOK, Coded(accounts, codes), Objects(stateObjects, journal), NEW a \in Addr
  PROVE  /\ Sound(a, getOrNewStateObject(a))
         /\ getStateObject(a) # Nil => Sound(a, getStateObject(a))
         /\ stateObjects[a] # Nil => /\ getStateObject(a) = stateObjects[a]
                                     /\ getOrNewStateObject(a) = stateObjects[a]
<1>1. EmptyAccount \in Account /\ EmptyAccount.code = NoCode
  BY EmptyAccountType DEF EmptyAccount
<1>2. Sound(a, newObject(EmptyAccount))
  BY <1>1, NewSound
<1>3. accounts[a] # Nil => Sound(a, newObject(accounts[a]))
  BY NewSound DEF TypeOK, Coded
<1>4. stateObjects[a] # Nil => Sound(a, stateObjects[a])
  BY Zenon DEF Objects, AllSound
<1>5. getStateObject(a) # Nil => Sound(a, getStateObject(a))
  BY <1>3, <1>4, Zenon DEF getStateObject
<1>6. stateObjects[a] # Nil => /\ getStateObject(a) = stateObjects[a]
                               /\ getOrNewStateObject(a) = stateObjects[a]
  BY Zenon DEF getStateObject, getOrNewStateObject
<1>. QED BY <1>2, <1>5, <1>6, Zenon DEF getOrNewStateObject

\* getOrNewStateObject leaves the objects and the journal as Commit needs them,
\* also with an object that has read more.
LEMMA TouchObjects ==
  ASSUME TypeOK, Coded(accounts, codes), Objects(stateObjects, journal), NEW a \in Addr,
         NEW o \in stateObject, Sound(a, o), ReadsMore(o, getOrNewStateObject(a))
  PROVE  Objects([stateObjects EXCEPT ![a] = o], Created(a)) /\ Created(a) \in Seq(JournalEntry)
<1>. DEFINE new == [stateObjects EXCEPT ![a] = o]
            c == [kind |-> "create", account |-> a]
<1>1. stateObjects \in ObjectMap /\ journal \in Seq(JournalEntry) /\ new \in ObjectMap
  BY Zenon DEF TypeOK, ObjectMap
<1>2. o # Nil /\ \A b \in Addr : new[b] = IF b = a THEN o ELSE stateObjects[b]
  BY <1>1, NilAssumption DEF ObjectMap
<1>3. AllSound(new)
  BY <1>2, Zenon DEF Objects, AllSound
<1>4. stateObjects[a] # Nil => ReadsMore(o, stateObjects[a])
  BY FoundSound, Zenon
<1>5. c \in JournalEntry /\ c.kind = "create" /\ c.account = a
  BY DEF JournalEntry, createObjectChange
<1>6. Fresh(a) => stateObjects[a] = Nil
  BY FoundSound, Zenon DEF Fresh
<1>7. \A b \in Addr, k \in Slot : HasRead(stateObjects, b, k) => HasRead(new, b, k)
  BY <1>2, <1>4, Zenon DEF ReadsMore, HasRead
<1>. HIDE DEF new, c
<1>8. CASE Fresh(a)
  <2>1. Keeps(stateObjects, c, new)
    BY <1>5, <1>6, <1>7, <1>8, Zenon DEF Keeps, Replaces, HasRead
  <2>2. Objects(new, Append(journal, c))
    BY <1>1, <1>3, <1>5, <2>1, ObjectsGrow
  <2>3. Created(a) = Append(journal, c)
    BY <1>8 DEF Created, c
  <2>4. Append(journal, c) \in Seq(JournalEntry)
    BY <1>1, <1>5, AppendProperties
  <2>. QED BY <2>2, <2>3, <2>4 DEF new
<1>9. CASE ~Fresh(a)
  <2>1. Created(a) = journal
    BY <1>9 DEF Created
  <2>2. ASSUME NEW i \in 1 .. Len(journal), journal[i].kind = "storage"
        PROVE  Read(new, journal, i, journal[i].account, journal[i].key)
    <3>1. PICK b \in Addr, k \in Slot : b = journal[i].account /\ k = journal[i].key
      <4>1. journal[i] \in JournalEntry
        BY <1>1, ElementOfSeq
      <4>. QED BY <2>2, <4>1, EntryFields DEF ObjectKinds
    <3>2. Read(stateObjects, journal, i, b, k)
      BY <2>2, <3>1, Zenon DEF Objects
    <3>3. Read(new, journal, i, b, k)
      BY <1>7, <3>2, Zenon DEF Read
    <3>. QED BY <3>1, <3>3
  <2>3. Objects(new, journal)
    BY <1>3, <2>2, Zenon DEF Objects
  <2>. QED BY <1>1, <2>1, <2>3 DEF new
<1>. QED BY <1>8, <1>9

\* The same for a change and the entry that undoes it.
LEMMA ChangeObjects ==
  ASSUME TypeOK, Coded(accounts, codes), Objects(stateObjects, journal), NEW a \in Addr,
         NEW o \in stateObject, Sound(a, o), ReadsMore(o, getOrNewStateObject(a)),
         NEW e \in JournalEntry, e.kind \in ObjectKinds, e.account = a,
         e.kind = "storage" => o.originStorage[e.key] # Unset
  PROVE  Objects([stateObjects EXCEPT ![a] = o], Append(Created(a), e))
<1>. DEFINE new == [stateObjects EXCEPT ![a] = o]
<1>1. Objects(new, Created(a)) /\ Created(a) \in Seq(JournalEntry)
  BY TouchObjects
<1>2. new \in ObjectMap /\ new[a] = o /\ o # Nil
  BY NilAssumption, Zenon DEF TypeOK, ObjectMap
<1>. HIDE DEF new
<1>3. AllSound(new) /\ (e.kind = "storage" => HasRead(new, e.account, e.key))
  BY <1>1, <1>2, Zenon DEF Objects, HasRead
<1>4. e.kind # "reset" /\ Keeps(new, e, new)
  BY Zenon DEF Keeps, Replaces, ObjectKinds
<1>5. Objects(new, Append(Created(a), e))
  BY <1>1, <1>3, <1>4, ObjectsGrow, Zenon
<1>. QED BY <1>5 DEF new

\* CreateAccount over an existing account puts the old object away in its entry.
LEMMA ContractObjects ==
  ASSUME TypeOK, Coded(accounts, codes), Objects(stateObjects, journal), NEW a \in Addr,
         CreateContract(a)
  PROVE  Objects(stateObjects', journal')
<1>. DEFINE prev == getStateObject(a)
            o == newObject(EmptyAccount)
            new == IF prev = Nil THEN o ELSE [o EXCEPT !.balance = prev.balance]
            new1 == [new EXCEPT !.nonce = 1]
            e == [kind |-> "nonce", account |-> a, prev |-> 0]
            reset == [kind |-> "reset", account |-> a, prev |-> prev]
<1>1. /\ stateObjects' = [stateObjects EXCEPT ![a] = new1]
      /\ journal' = Append(IF prev = Nil THEN Append(journal, [kind |-> "create", account |-> a])
                           ELSE Append(journal, reset), e)
  BY Zenon DEF CreateContract
<1>2. prev \in stateObject \cup {Nil} /\ o \in stateObject /\ o.code = NoCode
  BY GetObjectType, NewObjectType, EmptyAccountType DEF newObject, EmptyAccount
<1>3. \A k \in Slot : o.originStorage[k] = Unset /\ o.dirtyStorage[k] = Unset
  BY DEF newObject
<1>4. /\ new1 \in stateObject /\ new1.code = NoCode
      /\ new1.originStorage = o.originStorage /\ new1.dirtyStorage = o.dirtyStorage
  BY <1>2 DEF stateObject
<1>5. e \in JournalEntry /\ e.kind = "nonce" /\ e.account = a
  BY DEF JournalEntry, nonceChange
<1>6. prev # Nil => reset \in JournalEntry
  BY <1>2 DEF JournalEntry, resetObjectChange
<1>7. reset.kind = "reset" /\ reset.account = a /\ reset.prev = prev
  OBVIOUS
<1>8. Fresh(a) => getOrNewStateObject(a) = o
  BY DEF Fresh, getOrNewStateObject
<1>. HIDE DEF o, new, new1, e, reset
<1>9. Sound(a, new1)
  BY <1>3, <1>4, Zenon DEF Sound
<1>10. CASE prev = Nil
  <2>1. journal' = Append(Created(a), e) /\ Fresh(a)
    BY <1>1, <1>10 DEF Created, Fresh
  <2>2. ReadsMore(new1, getOrNewStateObject(a))
    BY <1>3, <1>8, <2>1 DEF ReadsMore
  <2>3. e.kind \in ObjectKinds /\ e.kind # "storage"
    BY <1>5 DEF ObjectKinds
  <2>. QED BY <1>1, <1>4, <1>5, <1>9, <2>1, <2>2, <2>3, ChangeObjects, Zenon
<1>11. CASE prev # Nil
  <2>. DEFINE objs == [stateObjects EXCEPT ![a] = new1]
              longer == Append(journal, reset)
  <2>1. stateObjects \in ObjectMap /\ journal \in Seq(JournalEntry) /\ objs \in ObjectMap
    BY <1>4 DEF TypeOK, ObjectMap
  <2>2. \A b \in Addr : objs[b] = IF b = a THEN new1 ELSE stateObjects[b]
    BY <2>1 DEF ObjectMap
  <2>3. longer \in Seq(JournalEntry)
    BY <1>6, <1>11, <2>1, AppendProperties
  <2>. HIDE DEF objs
  <2>4. Sound(a, prev) /\ (stateObjects[a] # Nil => prev = stateObjects[a])
    BY <1>11, FoundSound, Zenon
  <2>5. AllSound(objs)
    BY <1>9, <2>2, Zenon DEF Objects, AllSound
  <2>6. \A b \in Addr : b # a => ~Replaces(reset, b) /\ objs[b] = stateObjects[b]
    BY <1>7, <2>2 DEF Replaces
  <2>7. Keeps(stateObjects, reset, objs)
    BY <1>7, <2>4, <2>6, Zenon DEF Keeps, HasRead
  <2>8. Objects(objs, longer)
    BY <1>6, <1>7, <1>11, <2>1, <2>4, <2>5, <2>7, ObjectsGrow
  <2>9. e.kind # "reset" /\ e.kind # "storage" /\ Keeps(objs, e, objs)
    BY <1>5 DEF Keeps, Replaces
  <2>. HIDE DEF longer
  <2>10. Objects(objs, Append(longer, e))
    BY <1>5, <2>1, <2>3, <2>5, <2>8, <2>9, ObjectsGrow
  <2>. QED BY <1>1, <1>11, <2>10 DEF objs, longer
<1>. QED BY <1>10, <1>11

\* Every operation on an account does.
LEMMA OperationObjects ==
  ASSUME TypeOK, Coded(accounts, codes), Objects(stateObjects, journal), NEW a \in Addr,
         ObjectNext(a)
  PROVE  Objects(stateObjects', journal')
<1>. DEFINE o == getOrNewStateObject(a)
<1>0. Amount \subseteq Nat
  BY ConstantsAssumption
<1>1. o \in stateObject /\ Sound(a, o)
  BY GetObjectType, FoundSound, Zenon
<1>2. o.balance \in Nat /\ o.nonce \in Nat /\ o.code \in Code /\ o.suicided \in BOOLEAN
  BY <1>1 DEF stateObject
<1>3. ASSUME NEW p \in stateObject, Sound(a, p), ReadsMore(p, o), Touch(a, p)
      PROVE  Objects(stateObjects', journal')
  BY <1>3, TouchObjects, Zenon DEF Touch
<1>4. ASSUME NEW p \in stateObject, Sound(a, p), ReadsMore(p, o), NEW e \in JournalEntry,
             e.kind \in ObjectKinds, e.account = a,
             e.kind = "storage" => p.originStorage[e.key] # Unset, Change(a, p, e)
      PROVE  Objects(stateObjects', journal')
  BY <1>4, ChangeObjects, Zenon DEF Change
<1>5. ReadsMore(o, o)
  BY DEF ReadsMore
<1>6. ASSUME NEW n \in Amount, AddBalance(a, n) \/ SubBalance(a, n)
      PROVE  Objects(stateObjects', journal')
  <2>. DEFINE e == [kind |-> "balance", account |-> a, prev |-> o.balance]
  <2>1. e \in JournalEntry /\ e.kind = "balance" /\ e.account = a
    BY <1>2 DEF JournalEntry, balanceChange
  <2>2. e.kind \in ObjectKinds /\ e.kind # "storage"
    BY DEF ObjectKinds
  <2>3. ASSUME NEW x \in Nat, Change(a, [o EXCEPT !.balance = x], e)
        PROVE  Objects(stateObjects', journal')
    <3>1. /\ [o EXCEPT !.balance = x] \in stateObject
          /\ Sound(a, [o EXCEPT !.balance = x]) /\ ReadsMore([o EXCEPT !.balance = x], o)
      BY <1>1, FieldUndone, SettersSound, Zenon
    <3>. HIDE DEF e
    <3>. QED BY <1>4, <2>1, <2>2, <2>3, <3>1
  <2>4. \/ Touch(a, o) \/ Change(a, [o EXCEPT !.balance = o.balance + n], e)
        \/ n <= o.balance /\ Change(a, [o EXCEPT !.balance = o.balance - n], e)
    BY <1>6 DEF AddBalance, SubBalance
  <2>5. o.balance + n \in Nat /\ (n <= o.balance => o.balance - n \in Nat)
    BY <1>0, <1>2
  <2>. HIDE DEF e, o
  <2>. QED BY <1>1, <1>3, <1>5, <2>3, <2>4, <2>5
<1>7. ASSUME NEW n \in 0 .. MaxNonce, SetNonce(a, n) PROVE Objects(stateObjects', journal')
  <2>. DEFINE e == [kind |-> "nonce", account |-> a, prev |-> o.nonce]
              p == [o EXCEPT !.nonce = n]
  <2>1. e \in JournalEntry /\ e.kind \in ObjectKinds /\ e.kind # "storage" /\ e.account = a
    BY <1>2, Zenon DEF JournalEntry, nonceChange, ObjectKinds
  <2>2. n \in Nat
    BY ConstantsAssumption
  <2>3. p \in stateObject /\ Sound(a, p) /\ ReadsMore(p, o)
    BY <1>1, <2>2, FieldUndone, SettersSound, Zenon
  <2>4. Change(a, p, e)
    BY <1>7 DEF SetNonce
  <2>. HIDE DEF e, p, o
  <2>. QED BY <1>4, <2>1, <2>3, <2>4, Zenon
<1>8. ASSUME NEW c \in Code, SetCode(a, c) PROVE Objects(stateObjects', journal')
  <2>. DEFINE e == [kind |-> "code", account |-> a, prevcode |-> o.code]
  <2>1. e \in JournalEntry /\ e.kind \in ObjectKinds /\ e.kind # "storage" /\ e.account = a
    BY <1>2 DEF JournalEntry, codeChange, ObjectKinds
  <2>2. setCode(o, c) \in stateObject /\ Sound(a, setCode(o, c)) /\ ReadsMore(setCode(o, c), o)
    BY <1>1, FieldUndone, SettersSound, Zenon
  <2>3. Change(a, setCode(o, c), e)
    BY <1>8 DEF SetCode
  <2>. HIDE DEF e, o
  <2>. QED BY <1>4, <2>1, <2>2, <2>3, Zenon
<1>9. ASSUME NEW k \in Slot, NEW v \in Val, SetState(a, k, v) PROVE Objects(stateObjects', journal')
  <2>. DEFINE q == Cached(a, o, k)
              e == [kind |-> "storage", account |-> a, key |-> k, prevalue |-> GetState(a, q, k)]
              p == [q EXCEPT !.dirtyStorage[k] = v]
  <2>1. q \in stateObject /\ Sound(a, q) /\ ReadsMore(q, o) /\ q.originStorage[k] # Unset
        /\ GetState(a, q, k) \in Val
    BY <1>1, CachedView, CachedSound, Zenon
  <2>2. e \in JournalEntry /\ e.kind \in ObjectKinds /\ e.key = k /\ e.account = a
    BY <2>1 DEF JournalEntry, storageChange, ObjectKinds
  <2>3. Touch(a, q) \/ Change(a, p, e)
    BY <1>9 DEF SetState
  <2>. HIDE DEF q, o
  <2>4. p \in stateObject /\ Sound(a, p) /\ ReadsMore(p, q)
    BY <2>1, FieldUndone, SettersSound, Zenon
  <2>5. p.originStorage[k] # Unset /\ ReadsMore(p, o)
    BY <2>1, <2>4 DEF ReadsMore
  <2>. HIDE DEF e, p
  <2>. QED BY <1>3, <1>4, <2>1, <2>2, <2>3, <2>4, <2>5, Zenon
<1>10. CASE Exist(a)
  <2>1. Touch(a, o)
    BY <1>10, GetObjectType DEF Exist
  <2>. QED BY <1>1, <1>3, <1>5, <2>1
<1>11. ASSUME NEW k \in Slot, ReadState(a, k) PROVE Objects(stateObjects', journal')
  <2>1. Touch(a, Cached(a, o, k))
    BY <1>11, GetObjectType DEF ReadState
  <2>2. /\ Cached(a, o, k) \in stateObject /\ Sound(a, Cached(a, o, k))
        /\ ReadsMore(Cached(a, o, k), o)
    BY <1>1, CachedView, CachedSound, Zenon
  <2>. QED BY <1>3, <2>1, <2>2
<1>12. CASE CreateAccount(a)
  <2>1. Touch(a, o)
    BY <1>12 DEF CreateAccount, Fresh, getOrNewStateObject
  <2>. QED BY <1>1, <1>3, <1>5, <2>1
<1>13. CASE Suicide(a)
  <2>. DEFINE e == [kind |-> "suicide", account |-> a, prev |-> o.suicided, prevbalance |-> o.balance]
              p == [o EXCEPT !.suicided = TRUE, !.balance = 0]
  <2>1. e \in JournalEntry /\ e.kind \in ObjectKinds /\ e.kind # "storage" /\ e.account = a
    BY <1>2 DEF JournalEntry, suicideChange, ObjectKinds
  <2>2. p \in stateObject
    BY <1>1, FieldUndone, Zenon
  <2>3. Sound(a, p) /\ ReadsMore(p, o)
    BY <1>1, SettersSound, Zenon
  <2>4. getStateObject(a) = o
    BY <1>13, GetObjectType DEF Suicide, Fresh
  <2>5. Change(a, p, e)
    BY <1>13, <2>4 DEF Suicide
  <2>. HIDE DEF e, p, o
  <2>. QED BY <1>4, <2>1, <2>2, <2>3, <2>5
<1>. QED BY <1>6, <1>7, <1>8, <1>9, <1>10, <1>11, <1>12, <1>13, ContractObjects DEF ObjectNext

------------------------------------------------------------------------------
(* What Commit has written and what it has still to write *)

Saved ==
  \A a \in Addr :
    /\ a \in pending => Sound(a, stateObjects[a]) /\ ViewOf(a, stateObjects[a]) = final.view[a]
    /\ a \notin pending => StoreView(a) = Persisted(final.view[a])

CInv ==
  /\ Coded(accounts, codes)
  /\ pc \in {"run", "revert"} => Objects(stateObjects, journal)
  /\ pc = "commit" => Saved /\ Coded(base[1], base[3])
  /\ pc = "done" => \A a \in Addr : StoreView(a) = Persisted(final.view[a])

\* Commit of one sound object: the keeper holds what was seen of it, nothing if
\* it was destroyed, and the code store has its code.
LEMMA AccountSaved ==
  ASSUME TypeOK, Coded(accounts, codes), NEW a \in Addr, NEW o \in stateObject, Sound(a, o),
         IF o.suicided THEN DeleteAccount(a) ELSE WriteAccount(a, o)
  PROVE  /\ StoreView(a)' = Persisted(ViewOf(a, o))
         /\ \A b \in Addr : b # a => accounts'[b] = accounts[b] /\ storage'[b] = storage[b]
         /\ codes \subseteq codes' /\ Coded(accounts', codes')
<1>1. accounts \in [Addr -> Account \cup {Nil}] /\ storage \in [Addr -> [Slot -> Val]]
  BY Zenon DEF TypeOK
<1>2. ViewOf(a, o) # Nil /\ o # Nil
  BY ObjectView, NilAssumption
<1>3. ViewOf(a, o).suicided = o.suicided
  BY <1>2 DEF ViewOf
<1>4. CASE o.suicided
  <2>1. DeleteAccount(a)
    BY <1>4
  <2>2. \A b \in Addr : accounts'[b] = IF b = a THEN Nil ELSE accounts[b]
    BY <1>1, <2>1 DEF DeleteAccount
  <2>3. codes' = codes /\ \A b \in Addr : b # a => storage'[b] = storage[b]
    BY <1>1, <2>1 DEF DeleteAccount
  <2>4. StoreView(a)' = Nil
    BY <2>2 DEF StoreView
  <2>5. Persisted(ViewOf(a, o)) = Nil
    BY <1>2, <1>3, <1>4 DEF Persisted
  <2>6. Coded(accounts', codes')
    BY <2>2, <2>3 DEF Coded
  <2>. QED BY <2>2, <2>3, <2>4, <2>5, <2>6, Zenon
<1>5. CASE ~o.suicided
  <2>. DEFINE acct == [nonce |-> o.nonce, balance |-> o.balance, code |-> o.code]
              stored == [k \in Slot |-> IF o.dirtyStorage[k] \in {Unset, Origin(o, k)}
                                        THEN storage[a][k] ELSE o.dirtyStorage[k]]
  <2>1. WriteAccount(a, o)
    BY <1>5
  <2>2. /\ \A b \in Addr : accounts'[b] = IF b = a THEN acct ELSE accounts[b]
        /\ \A b \in Addr : storage'[b] = IF b = a THEN stored ELSE storage[b]
    BY <1>1, <2>1, Zenon DEF WriteAccount
  <2>3. codes' = IF o.dirtyCode /\ o.code # NoCode THEN codes \cup {o.code} ELSE codes
    BY <2>1 DEF WriteAccount
  <2>4. acct \in Account /\ acct.code = o.code
    BY DEF Account, stateObject
  <2>5. acct # Nil
    BY <2>4, NilAssumption
  <2>6. \A k \in Slot : stored[k] = GetState(a, o, k)
    <3>. SUFFICES ASSUME NEW k \in Slot PROVE stored[k] = GetState(a, o, k)
      BY Zenon
    <3>1. CASE o.dirtyStorage[k] = Unset
      BY <3>1, Zenon DEF GetState, GetCommittedState, Sound
    <3>2. CASE o.dirtyStorage[k] # Unset
      <4>1. Origin(o, k) = storage[a][k]
        BY <3>2, Zenon DEF Sound, Origin
      <4>. QED BY <3>2, <4>1, Zenon DEF GetState
    <3>. QED BY <3>1, <3>2, Zenon
  <2>7. stored = [k \in Slot |-> GetState(a, o, k)]
    BY <2>6, Zenon
  <2>8. StoreView(a)' = [nonce |-> acct.nonce, balance |-> acct.balance, code |-> acct.code,
                         suicided |-> FALSE, storage |-> stored]
    BY <2>2, <2>5, Zenon DEF StoreView
  <2>9. acct.nonce = o.nonce /\ acct.balance = o.balance /\ o.suicided = FALSE
    BY <1>5 DEF stateObject
  <2>. HIDE DEF acct, stored
  <2>10. StoreView(a)' = ViewOf(a, o)
    BY <1>2, <2>4, <2>7, <2>8, <2>9, Zenon DEF ViewOf
  <2>11. Persisted(ViewOf(a, o)) = ViewOf(a, o)
    BY <1>3, <1>5 DEF Persisted
  <2>12. codes \subseteq codes' /\ o.code \in codes' \cup {NoCode}
    BY <2>3, Zenon DEF Sound
  <2>13. Coded(accounts', codes')
    BY <2>2, <2>4, <2>12, Zenon DEF Coded
  <2>. QED BY <2>2, <2>10, <2>11, <2>12, <2>13
<1>. QED BY <1>4, <1>5, Zenon

\* Commit starts with sound objects for all that is dirty; the rest is as stored.
LEMMA CommitBegins ==
  ASSUME IInv, Objects(stateObjects, journal), HistStep, Commit
  PROVE  Saved'
<1>1. /\ TypeOK /\ pc = "run" /\ pending' = {a \in Addr : dirties[a] > 0} /\ final' = World
      /\ UNCHANGED <<accounts, storage, codes, stateObjects>>
  BY Zenon DEF IInv, Commit, HistStep, keeperVars, DataVars
<1>2. WorldOK(World) /\ World.view = View /\ World.dirties = dirties /\ dirties \in [Addr -> Nat]
  BY <1>1, WorldNow, Zenon DEF World, TypeOK
<1>3. \A a \in Addr : dirties[a] = 0 => View[a] = StoreView(a)
  BY <1>2 DEF WorldOK
<1>4. \A a \in Addr : dirties[a] > 0 => stateObjects[a] # Nil
  BY <1>1, Zenon DEF IInv
<1>5. ASSUME NEW a \in Addr, a \in pending'
      PROVE  (Sound(a, stateObjects[a]) /\ ViewOf(a, stateObjects[a]) = final.view[a])'
  <2>1. stateObjects[a] # Nil
    BY <1>1, <1>4, <1>5
  <2>2. Sound(a, stateObjects[a])
    BY <2>1, Zenon DEF Objects, AllSound
  <2>3. View[a] = ViewOf(a, stateObjects[a])
    BY <2>1 DEF View, getStateObject
  <2>4. Sound(a, stateObjects[a])'
    BY <1>1, <2>2, Zenon DEF Sound
  <2>5. ViewOf(a, stateObjects[a])' = ViewOf(a, stateObjects[a])
    BY <1>1, Zenon DEF ViewOf, GetState, GetCommittedState
  <2>. QED BY <1>1, <1>2, <2>3, <2>4, <2>5, Zenon
<1>6. ASSUME NEW a \in Addr, a \notin pending'
      PROVE  (StoreView(a) = Persisted(final.view[a]))'
  <2>1. dirties[a] = 0
    <3>1. dirties[a] \in Nat /\ ~(dirties[a] > 0)
      BY <1>1, <1>2, <1>6, Zenon
    <3>. QED BY ONLY <3>1
  <2>2. StoreView(a)' = StoreView(a) /\ final'.view[a] = StoreView(a)
    BY <1>1, <1>2, <1>3, <2>1, Zenon DEF StoreView
  <2>3. StoreView(a) # Nil => StoreView(a).suicided = FALSE
    BY Zenon DEF StoreView
  <2>4. Persisted(StoreView(a)) = StoreView(a)
    BY <2>3 DEF Persisted
  <2>. QED BY <2>2, <2>4 DEF Persisted
<1>. QED BY <1>5, <1>6 DEF Saved

\* One account after the other is saved, and the others wait as they were.
LEMMA CommitGoesOn ==
  ASSUME IInv, CInv, HistStep, NEW a \in Addr, CommitAccount(a)
  PROVE  CInv'
<1>. DEFINE o == stateObjects[a]
<1>1. /\ TypeOK /\ pc = "commit" /\ pc' = "commit" /\ a \in pending /\ pending' = pending \ {a}
      /\ UNCHANGED <<stateObjects, base>> /\ final' = final
      /\ Saved /\ Coded(accounts, codes) /\ Coded(base[1], base[3])
      /\ IF o.suicided THEN DeleteAccount(a) ELSE WriteAccount(a, o)
  BY Zenon DEF IInv, CInv, CommitAccount, HistStep, DataVars
<1>2. o \in stateObject
  BY <1>1, Zenon DEF IInv, TypeOK
<1>3. Sound(a, o) /\ ViewOf(a, o) = final.view[a]
  BY <1>1, Zenon DEF Saved
<1>4. /\ StoreView(a)' = Persisted(final.view[a])
      /\ \A b \in Addr : b # a => accounts'[b] = accounts[b] /\ storage'[b] = storage[b]
      /\ codes \subseteq codes' /\ Coded(accounts', codes')
  BY <1>1, <1>2, <1>3, AccountSaved, Zenon
<1>. HIDE DEF o
<1>5. ASSUME NEW b \in Addr, b \in pending'
      PROVE  (Sound(b, stateObjects[b]) /\ ViewOf(b, stateObjects[b]) = final.view[b])'
  <2>1. b # a /\ b \in pending
    BY <1>1, <1>5
  <2>2. Sound(b, stateObjects[b]) /\ ViewOf(b, stateObjects[b]) = final.view[b]
    BY <1>1, <2>1, Zenon DEF Saved
  <2>3. storage'[b] = storage[b]
    BY <1>4, <2>1, Zenon
  <2>4. Sound(b, stateObjects[b])'
    BY <1>1, <1>4, <2>2, <2>3, Zenon DEF Sound
  <2>5. ViewOf(b, stateObjects[b])' = ViewOf(b, stateObjects[b])
    BY <1>1, <2>3, Zenon DEF ViewOf, GetState, GetCommittedState
  <2>. QED BY <1>1, <2>2, <2>4, <2>5, Zenon
<1>6. ASSUME NEW b \in Addr, b \notin pending'
      PROVE  (StoreView(b) = Persisted(final.view[b]))'
  <2>0. Persisted(final.view[b])' = Persisted(final.view[b])
    BY <1>1 DEF Persisted
  <2>1. CASE b = a
    BY <1>4, <2>0, <2>1
  <2>2. CASE b # a
    <3>1. b \notin pending
      BY <1>1, <1>6, <2>2
    <3>2. StoreView(b) = Persisted(final.view[b])
      BY <1>1, <3>1, Zenon DEF Saved
    <3>3. StoreView(b)' = StoreView(b)
      BY <1>4, <2>2, Zenon DEF StoreView
    <3>. QED BY <2>0, <3>2, <3>3
  <2>. QED BY <2>1, <2>2
<1>7. Saved'
  BY <1>5, <1>6 DEF Saved
<1>8. Coded(accounts, codes)' /\ Coded(base[1], base[3])'
  BY <1>1, <1>4, Zenon DEF Coded
<1>. QED BY <1>1, <1>7, <1>8 DEF CInv

\* The invariant of Commit and the next-state relation.
LEMMA NextCInv == IInv /\ CInv /\ [HNext]_hvars => CInv'
<1>. SUFFICES ASSUME IInv, CInv, [HNext]_hvars PROVE CInv'
  OBVIOUS
<1>0. TypeOK /\ Coded(accounts, codes)
  BY DEF IInv, CInv
<1>1. ASSUME pc \in {"run", "revert"}, pc' \in {"run", "revert"}, Objects(stateObjects', journal'),
             UNCHANGED keeperVars
      PROVE  CInv'
  <2>1. UNCHANGED <<accounts, storage, codes>>
    BY <1>1 DEF keeperVars
  <2>2. Objects(stateObjects, journal)'
    BY <1>1, <2>1, ObjectsNow
  <2>3. Coded(accounts, codes)'
    BY <1>0, <2>1 DEF Coded
  <2>. QED BY <1>1, <2>2, <2>3 DEF CInv
<1>2. ASSUME UNCHANGED <<keeperVars, stateObjects, journal, pc, pending, base, final>>
      PROVE  CInv'
  <2>1. UNCHANGED <<accounts, storage, codes>>
    BY <1>2 DEF keeperVars
  <2>2. \A a \in Addr : StoreView(a)' = StoreView(a) /\ Persisted(final.view[a])' = Persisted(final.view[a])
    BY <1>2, <2>1 DEF StoreView, Persisted
  <2>3. \A a \in Addr : /\ Sound(a, stateObjects[a])' <=> Sound(a, stateObjects[a])
                        /\ ViewOf(a, stateObjects[a])' = ViewOf(a, stateObjects[a])
    BY <1>2, <2>1, Zenon DEF Sound, ViewOf, GetState, GetCommittedState
  <2>4. Saved => Saved'
    BY <1>2, <2>2, <2>3, Zenon DEF Saved
  <2>5. Coded(accounts, codes)' /\ (Coded(base[1], base[3]) => Coded(base[1], base[3])')
    BY <1>0, <1>2, <2>1 DEF Coded
  <2>6. Objects(stateObjects, journal) => Objects(stateObjects, journal)'
    BY <1>2, <2>1, ObjectsNow
  <2>. QED BY <1>2, <2>2, <2>4, <2>5, <2>6 DEF CInv
<1>3. CASE UNCHANGED hvars
  BY <1>2, <1>3 DEF hvars, vars, keeperVars
<1>4. CASE HNext
  <2>0. HistStep /\ Next
    BY <1>4 DEF HNext
  <2>1. ASSUME NEW a \in UsedAddr, ObjectNext(a) PROVE CInv'
    <3>1. pc = "run" /\ pc' = "run" /\ UNCHANGED keeperVars
      BY <2>1, Zenon DEF ObjectNext, AddBalance, SubBalance, SetNonce, SetCode, SetState, Exist, ReadState,
                  CreateAccount, CreateContract, Suicide, Running, ObjectOnly, ctlVars
    <3>2. a \in Addr /\ Objects(stateObjects, journal)
      BY <3>1, ConstantsAssumption, Zenon DEF CInv
    <3>3. Objects(stateObjects', journal')
      BY <1>0, <2>1, <3>2, OperationObjects
    <3>. QED BY <1>1, <3>1, <3>3
  <2>2. CASE PlainNext
    <3>1. pc = "run" /\ pc' = "run" /\ UNCHANGED keeperVars
      BY <2>2, Zenon DEF PlainNext, AddLog, AddRefund, SubRefund, AddAddressToAccessList,
                  AddSlotToAccessList, Running, Plain, ctlVars
    <3>2. Objects(stateObjects', journal')
      BY <1>0, <2>2, <3>1, PlainObjects DEF CInv
    <3>. QED BY <1>1, <3>1, <3>2
  <2>3. CASE Snapshot \/ FrameReturn \/ RevertToSnapshot \/ RevertDone
    <3>1. /\ pc \in {"run", "revert"} /\ pc' \in {"run", "revert"} /\ UNCHANGED keeperVars
          /\ stateObjects' = stateObjects /\ journal' = journal
      BY <2>3 DEF Snapshot, FrameReturn, RevertToSnapshot, RevertDone, ctlVars, DataVars
    <3>2. Objects(stateObjects', journal')
      BY <3>1 DEF CInv
    <3>. QED BY <1>1, <3>1, <3>2
  <2>4. CASE UndoEntry
    <3>1. pc = "revert" /\ pc' = "revert" /\ UNCHANGED keeperVars
      BY <2>4, Zenon DEF UndoEntry, ctlVars
    <3>2. Objects(stateObjects', journal')
      BY <2>0, <2>4, <3>1, UndoObjects DEF CInv
    <3>. QED BY <1>1, <3>1, <3>2
  <2>5. CASE Commit
    <3>1. /\ pc = "run" /\ pc' = "commit" /\ UNCHANGED <<accounts, storage, codes>>
          /\ base' = <<accounts, storage, codes>>
      BY <2>5 DEF Commit, keeperVars
    <3>2. Saved'
      BY <2>0, <2>5, <3>1, CommitBegins DEF CInv
    <3>3. Coded(accounts, codes)' /\ Coded(base[1], base[3])'
      BY <1>0, <3>1 DEF Coded
    <3>. QED BY <3>1, <3>2, <3>3, Zenon DEF CInv
  <2>6. CASE CommitError
    <3>1. pc = "commit" /\ pc' = "failed" /\ accounts' = base[1] /\ codes' = base[3]
      BY <2>6 DEF CommitError
    <3>2. Coded(accounts, codes)'
      BY <3>1 DEF CInv, Coded
    <3>. QED BY <3>1, <3>2 DEF CInv
  <2>7. CASE CommitDone
    <3>1. /\ pc = "commit" /\ pc' = "done" /\ pending = {} /\ UNCHANGED <<accounts, storage, codes>>
          /\ final' = final
      BY <2>0, <2>7, Zenon DEF CommitDone, keeperVars, HistStep
    <3>2. \A a \in Addr : StoreView(a) = Persisted(final.view[a])
      BY <3>1, Zenon DEF CInv, Saved
    <3>3. \A a \in Addr : (StoreView(a) = Persisted(final.view[a]))'
      BY <3>1, <3>2, Zenon DEF StoreView, Persisted
    <3>4. Coded(accounts, codes)'
      BY <1>0, <3>1 DEF Coded
    <3>. QED BY <3>1, <3>3, <3>4, Zenon DEF CInv
  <2>8. CASE New
    <3>1. /\ pc' = "run" /\ UNCHANGED <<accounts, storage, codes>>
          /\ stateObjects' = [a \in Addr |-> Nil] /\ journal' = <<>>
      BY <2>8 DEF New, Clear, keeperVars
    <3>2. Objects(stateObjects, journal)'
      BY <3>1 DEF Objects, AllSound
    <3>3. Coded(accounts, codes)'
      BY <1>0, <3>1 DEF Coded
    <3>. QED BY <3>1, <3>2, <3>3 DEF CInv
  <2>9. ASSUME NEW a \in Addr, CommitAccount(a) PROVE CInv'
    BY <2>0, <2>9, CommitGoesOn
  <2>. QED BY <2>0, <2>1, <2>2, <2>3, <2>4, <2>5, <2>6, <2>7, <2>8, <2>9 DEF Next
<1>. QED BY <1>3, <1>4

\* The initial state satisfies it: genesis stores the codes of its accounts.
LEMMA InitCInv == HInit => CInv
<1>. SUFFICES ASSUME HInit PROVE CInv
  OBVIOUS
<1>1. /\ accounts = accounts0 /\ pc = "run" /\ stateObjects = [a \in Addr |-> Nil] /\ journal = <<>>
      /\ codes = {accounts0[a].code : a \in {b \in Addr : accounts0[b] # Nil}} \ {NoCode}
  BY Zenon DEF HInit, Init
<1>2. Coded(accounts, codes)
  BY <1>1, Zenon DEF Coded
<1>3. Objects(stateObjects, journal)
  BY <1>1 DEF Objects, AllSound
<1>. QED BY <1>1, <1>2, <1>3, Zenon DEF CInv

\* After Commit the keeper holds what the interpreter saw when it began, nothing
\* of destroyed accounts, and the code of every account: whatever was created,
\* reset, changed and reverted, with whatever slots read on the way.
THEOREM CommitIsExact == HSpec => []CommitPersists
<1>1. CInv => CommitPersists
  BY DEF CInv, CommitPersists, Coded
<1>2. HInit => IInv /\ CInv
  BY InitIInv, InitCInv
<1>3. IInv /\ CInv /\ [HNext]_hvars => (IInv /\ CInv)'
  BY NextIInv, NextCInv
<1>. QED BY <1>1, <1>2, <1>3, PTL DEF HSpec
==============================================================================
