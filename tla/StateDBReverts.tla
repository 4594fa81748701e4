---------------------------- MODULE StateDBReverts ----------------------------
(***************************************************************************)
(* Taking a snapshot, returning from a frame, and beginning and ending a   *)
(* revert leave the world alone and keep the invariant of StateDBWorlds.   *)
(* An iteration of journal.Revert undoes the newest entry, so it keeps the *)
(* invariant too, and leaves the objects as Commit needs them.             *)
(***************************************************************************)
EXTENDS StateDBWorlds


------------------------------------------------------------------------------
(* Snapshots *)

\* A step that changes neither the keeper nor the data keeps world and chain.
LEMMA Still ==
  ASSUME IInv, TypeOK', pc \in {"run", "revert"}, UNCHANGED <<keeperVars, DataVars>>, HistStep
  PROVE  /\ World' = World /\ Chain'
         /\ \A i \in 1 .. Len(journal) + 1 : WorldAt(i)' = WorldAt(i)
<1>1. /\ UNCHANGED <<accounts, storage, stateObjects, journal, dirties, refund, logs>>
      /\ UNCHANGED <<addresses, slots>>
  BY DEF keeperVars, DataVars, listVars
<1>2. Len(journal) \in Nat /\ TypeOK /\ Chain
  BY SMTT(30) DEF IInv, TypeOK
<1>3. World' = World
  BY <1>1 DEF World, View, ViewOf, getStateObject, GetState, GetCommittedState
<1>4. \A i \in 1 .. Len(journal) + 1 : WorldAt(i)' = WorldAt(i)
  BY <1>1, <1>2, <1>3, WorldsKept
<1>5. hist' = hist
  BY <1>1, <1>2 DEF HistStep, Chain
<1>6. Chain'
  BY <1>1, <1>2, <1>4, <1>5, ChainPrefix DEF Chain
<1>. QED BY <1>3, <1>4, <1>6

\* A prefix of a sequence.
LEMMA Prefix ==
  ASSUME NEW S, NEW s \in Seq(S), NEW k \in Nat, k <= Len(s)
  PROVE  /\ SubSeq(s, 1, k) \in Seq(S) /\ Len(SubSeq(s, 1, k)) = k
         /\ \A i \in 1 .. k : SubSeq(s, 1, k)[i] = s[i]
<1>1. \A i \in 1 .. k : i \in 1 .. Len(s) /\ s[i] \in S
  BY ElementOfSeq
<1>2. /\ SubSeq(s, 1, k) \in Seq(S)
      /\ Len(SubSeq(s, 1, k)) = (IF 1 <= k THEN k - 1 + 1 ELSE 0)
      /\ \A i \in 1 .. k - 1 + 1 : SubSeq(s, 1, k)[i] = s[1 + i - 1]
  BY <1>1, SubSeqProperties
<1>. QED BY <1>2

\* Revisions are records of an id and an index.
LEMMA RevisionType ==
  ASSUME TypeOK
  PROVE  /\ Len(validRevisions) \in Nat
         /\ \A r \in 1 .. Len(validRevisions) :
              validRevisions[r].id \in Nat /\ validRevisions[r].journalIndex \in Nat
<1>1. validRevisions \in Seq([id: Nat, journalIndex: Nat])
  BY DEF TypeOK
<1>2. \A r \in 1 .. Len(validRevisions) : validRevisions[r] \in [id: Nat, journalIndex: Nat]
  BY <1>1, ElementOfSeq, Zenon
<1>. QED BY <1>1, <1>2

\* Snapshot keeps the invariant.
LEMMA SnapshotStep ==
  ASSUME IInv, HistStep, Snapshot
  PROVE  IInv'
<1>0. PICK m \in Nat : m = Len(validRevisions)
  BY DEF IInv, TypeOK
<1>1. /\ TypeOK /\ pc = "run" /\ pc' = "run" /\ Chain /\ Revisions /\ Frames
      /\ UNCHANGED <<keeperVars, DataVars>>
      /\ validRevisions \in Seq([id: Nat, journalIndex: Nat])
      /\ nextRevisionID \in Nat /\ frames \in Seq(Nat) /\ Len(journal) \in Nat
  BY SMTT(30) DEF IInv, TypeOK, Snapshot, ctlVars
<1>. DEFINE rev == [id |-> nextRevisionID, journalIndex |-> Len(journal)]
<1>2. rev \in [id: Nat, journalIndex: Nat]
  BY <1>1
<1>3. /\ validRevisions' = Append(validRevisions, rev)
      /\ nextRevisionID' = nextRevisionID + 1
      /\ frames' = Append(frames, nextRevisionID)
  BY DEF Snapshot
<1>4. /\ validRevisions' \in Seq([id: Nat, journalIndex: Nat]) /\ frames' \in Seq(Nat)
      /\ Len(validRevisions') = m + 1 /\ validRevisions'[m + 1] = rev
      /\ \A r \in 1 .. m : validRevisions'[r] = validRevisions[r]
  BY <1>0, <1>1, <1>2, <1>3
<1>5. TypeOK'
  BY <1>1, <1>3, <1>4, SMTT(30) DEF TypeOK, Snapshot, keeperVars, DataVars, listVars, ctlVars
<1>6. Chain' /\ World' = World /\ \A i \in 1 .. Len(journal) + 1 : WorldAt(i)' = WorldAt(i)
  BY <1>1, <1>5, Still
<1>7. Live = m /\ Live' = m + 1 /\ journal' = journal
  BY <1>0, <1>1, <1>4 DEF Live, DataVars
<1>8. /\ DOMAIN marks' = 1 .. m + 1 /\ marks'[m + 1] = World
      /\ \A r \in 1 .. m : marks'[r] = marks[r]
  BY <1>0, <1>4 DEF HistStep
<1>9. \A r \in 1 .. m : validRevisions[r].id \in Nat /\ validRevisions[r].journalIndex \in Nat
  BY <1>0, <1>1, RevisionType
<1>10. \A r \in 1 .. m : /\ validRevisions[r].id < nextRevisionID
                         /\ validRevisions[r].journalIndex <= Len(journal)
  BY <1>1, <1>7 DEF Revisions
<1>11. ASSUME NEW r \in 1 .. m
       PROVE  marks'[r] = WorldAt(validRevisions[r].journalIndex + 1)'
  <2>1. PICK i \in 1 .. Len(journal) + 1 : i = validRevisions[r].journalIndex + 1
    BY <1>1, <1>9, <1>10, SMTT(30)
  <2>2. i = validRevisions'[r].journalIndex + 1
    BY <1>4, <2>1
  <2>3. marks[r] = WorldAt(i)
    BY <1>1, <1>7, <2>1 DEF Revisions
  <2>4. WorldAt(i)' = WorldAt(validRevisions[r].journalIndex + 1)'
    BY <2>2
  <2>. QED BY <1>6, <1>8, <2>3, <2>4
<1>12. marks'[m + 1] = WorldAt(validRevisions[m + 1].journalIndex + 1)'
  <2>1. WorldAt(Len(journal) + 1) = World
    BY <1>1 DEF WorldAt
  <2>2. PICK i \in 1 .. Len(journal) + 1 : i = Len(journal) + 1
    BY <1>1
  <2>3. i = validRevisions'[m + 1].journalIndex + 1
    BY <1>4, <2>2
  <2>4. WorldAt(i)' = WorldAt(validRevisions[m + 1].journalIndex + 1)'
    BY <2>3
  <2>. QED BY <1>6, <1>8, <2>1, <2>2, <2>4
<1>13. Revisions'
  <2>1. ASSUME NEW r \in 1 .. m + 1, NEW q \in 1 .. r - 1
        PROVE  /\ validRevisions'[q].id < validRevisions'[r].id
               /\ validRevisions'[q].journalIndex <= validRevisions'[r].journalIndex
    <3>0. q \in 1 .. m /\ validRevisions'[q] = validRevisions[q] /\ (r \in 1 .. m \/ r = m + 1)
      BY <1>4
    <3>1. CASE r \in 1 .. m
      BY <1>1, <1>4, <1>7, <3>0, <3>1, Zenon DEF Revisions
    <3>2. CASE r = m + 1
      <4>1. validRevisions'[r].id = nextRevisionID /\ validRevisions'[r].journalIndex = Len(journal)
        BY <1>4, <3>2, SMTT(30)
      <4>. QED BY <1>10, <3>0, <4>1
    <3>. QED BY <3>0, <3>1, <3>2
  <2>2. ASSUME NEW r \in 1 .. m + 1
        PROVE  /\ validRevisions'[r].id < nextRevisionID'
               /\ validRevisions'[r].journalIndex <= Len(journal')
               /\ marks'[r] = WorldAt(validRevisions[r].journalIndex + 1)'
    <3>1. CASE r \in 1 .. m
      <4>1. validRevisions'[r] = validRevisions[r] /\ validRevisions[r].id < nextRevisionID
            /\ validRevisions[r].journalIndex <= Len(journal) /\ validRevisions[r].id \in Nat
        BY <1>4, <1>9, <1>10, <3>1, SMTT(30)
      <4>2. marks'[r] = WorldAt(validRevisions[r].journalIndex + 1)'
        BY <1>11, <3>1
      <4>3. validRevisions'[r].id < nextRevisionID'
        <5>1. validRevisions[r].id < nextRevisionID + 1
          BY <1>1, <4>1, SMTT(30)
        <5>. QED BY <1>3, <4>1, <5>1, Zenon
      <4>4. validRevisions'[r].journalIndex <= Len(journal')
        BY <1>7, <4>1
      <4>. QED BY <4>2, <4>3, <4>4
    <3>2. CASE r = m + 1
      BY <1>1, <1>3, <1>4, <1>7, <1>12, <3>2
    <3>. QED BY <3>1, <3>2
  <2>3. Live' \in 0 .. Len(validRevisions') /\ DOMAIN marks' = 1 .. Len(validRevisions')
    BY <1>4, <1>7, <1>8, SMTT(30)
  <2>. QED BY <1>1, <1>7, <2>1, <2>2, <2>3, Zenon DEF Revisions
<1>14. Frames'
  <2>0. PICK l \in Nat : l = Len(frames)
    BY <1>1
  <2>1. /\ Len(frames') = l + 1 /\ frames'[l + 1] = nextRevisionID
        /\ \A f \in 1 .. l : frames'[f] = frames[f]
    BY <1>1, <1>3, <2>0
  <2>2. ASSUME NEW f \in 1 .. l PROVE \E r \in 1 .. m : validRevisions[r].id = frames[f]
    BY <1>1, <1>7, <2>0 DEF Frames
  <2>3. \A f \in 1 .. l : frames[f] < nextRevisionID
    BY <1>10, <2>2
  <2>4. ASSUME NEW f \in 1 .. l + 1, NEW g \in 1 .. f - 1 PROVE frames'[g] < frames'[f]
    <3>0. g \in 1 .. l /\ frames'[g] = frames[g] /\ (f \in 1 .. l \/ f = l + 1)
      BY <2>1
    <3>1. CASE f \in 1 .. l
      <4>1. frames[g] < frames[f]
        BY <1>1, <2>0, <3>1 DEF Frames
      <4>. QED BY <2>1, <3>0, <3>1, <4>1, SMTT(30)
    <3>2. CASE f = l + 1
      BY <2>1, <2>3, <3>0, <3>2
    <3>. QED BY <3>0, <3>1, <3>2
  <2>5. ASSUME NEW f \in 1 .. l + 1 PROVE \E r \in 1 .. m + 1 : validRevisions'[r].id = frames'[f]
    <3>1. CASE f \in 1 .. l
      <4>1. PICK r \in 1 .. m : validRevisions[r].id = frames[f]
        BY <2>2, <3>1
      <4>2. r \in 1 .. m + 1 /\ validRevisions'[r].id = frames'[f]
        <5>1. validRevisions'[r].id = validRevisions[r].id
          BY <1>4, <4>1
        <5>2. frames'[f] = frames[f]
          BY <2>1, <3>1
        <5>. QED BY <4>1, <5>1, <5>2
      <4>. QED BY <4>2
    <3>2. CASE f = l + 1
      BY <1>4, <2>1, <3>2
    <3>. QED BY <3>1, <3>2
  <2>. QED BY <1>1, <1>7, <2>1, <2>4, <2>5 DEF Frames
<1>15. \A a \in Addr : dirties'[a] > 0 => stateObjects'[a] # Nil
  BY <1>1 DEF IInv, DataVars
<1>. QED BY <1>1, <1>5, <1>6, <1>13, <1>14, <1>15 DEF IInv

\* A frame returns: the invariant keeps, with one frame less to answer for.
LEMMA FrameReturnStep ==
  ASSUME IInv, HistStep, FrameReturn
  PROVE  IInv'
<1>0. PICK l \in Nat : l = Len(frames)
  BY SMTT(30) DEF IInv, TypeOK
<1>1. /\ TypeOK /\ pc = "run" /\ pc' = "run" /\ Chain /\ Revisions /\ Frames
      /\ UNCHANGED <<keeperVars, DataVars, validRevisions, nextRevisionID>>
      /\ frames \in Seq(Nat) /\ frames # <<>> /\ Len(journal) \in Nat /\ journal' = journal
  BY DEF IInv, TypeOK, FrameReturn, ctlVars, DataVars
<1>2. /\ l > 0 /\ frames' = SubSeq(frames, 1, l - 1) /\ frames' \in Seq(Nat)
      /\ Len(frames') = l - 1 /\ \A f \in 1 .. l - 1 : frames'[f] = frames[f]
  BY <1>0, <1>1, SMTT(30) DEF FrameReturn
<1>3. TypeOK'
  BY <1>1, <1>2, Zenon DEF TypeOK, FrameReturn, keeperVars, DataVars, listVars, ctlVars
<1>4. Chain' /\ World' = World /\ \A i \in 1 .. Len(journal) + 1 : WorldAt(i)' = WorldAt(i)
  BY <1>1, <1>3, Still
<1>5. Live' = Live /\ Live = Len(validRevisions) /\ Len(validRevisions) \in Nat
  BY <1>1, RevisionType DEF Live
<1>6. marks' = [r \in 1 .. Len(validRevisions) |-> marks[r]]
  BY <1>1, <1>5 DEF HistStep
<1>7. ASSUME NEW r \in 1 .. Live
      PROVE  marks'[r] = WorldAt(validRevisions[r].journalIndex + 1)'
  <2>1. PICK i \in 1 .. Len(journal) + 1 : i = validRevisions[r].journalIndex + 1
    BY <1>1, <1>5, RevisionType, SMTT(30) DEF Revisions
  <2>2. marks'[r] = WorldAt(i)
    BY <1>1, <1>5, <1>6, <2>1 DEF Revisions
  <2>3. i = validRevisions'[r].journalIndex + 1
    BY <1>1, <2>1
  <2>. QED BY <1>4, <2>2, <2>3
<1>8. Revisions'
  BY <1>1, <1>5, <1>6, <1>7 DEF Revisions
<1>9. Frames'
  <2>1. \A f \in 1 .. l - 1 : f \in 1 .. l
    BY <1>0
  <2>2. \A f \in 1 .. l - 1 : \A g \in 1 .. f - 1 : g \in 1 .. l - 1 /\ frames'[g] < frames'[f]
    BY <1>0, <1>1, <1>2, <2>1, SMTT(30) DEF Frames
  <2>3. \A f \in 1 .. l - 1 : \E r \in 1 .. Live' : validRevisions'[r].id = frames'[f]
    BY <1>0, <1>1, <1>2, <1>5, <2>1, SMTT(30) DEF Frames
  <2>. QED BY <1>1, <1>2, <2>2, <2>3, Zenon DEF Frames
<1>10. \A a \in Addr : dirties'[a] > 0 => stateObjects'[a] # Nil
  BY <1>1 DEF IInv, DataVars
<1>. QED BY <1>1, <1>3, <1>4, <1>8, <1>9, <1>10 DEF IInv

\* sort.Search finds the revision of a valid id: the ids are increasing.
LEMMA SearchFinds ==
  ASSUME IInv, pc = "run", NEW r \in 1 .. Len(validRevisions)
  PROVE  Search(validRevisions[r].id) = r
<1>0. PICK m \in Nat : m = Len(validRevisions)
  BY DEF IInv, TypeOK
<1>1. TypeOK /\ Revisions /\ Live = m
  BY <1>0 DEF IInv, Live
<1>2. \A q \in 1 .. m : validRevisions[q].id \in Nat
  BY <1>0, <1>1, RevisionType
<1>3. \A p \in 1 .. m : \A q \in 1 .. p - 1 : validRevisions[q].id < validRevisions[p].id
  BY <1>1, SMTT(30) DEF Revisions
<1>. DEFINE revid == validRevisions[r].id
            Hit(i) == /\ i <= Len(validRevisions) => validRevisions[i].id >= revid
                      /\ \A j \in 1 .. i - 1 : validRevisions[j].id < revid
<1>4. r \in 1 .. m + 1 /\ Hit(r)
  BY <1>0, <1>2, <1>3
<1>5. ASSUME NEW i \in 1 .. m + 1, Hit(i) PROVE i = r
  <2>1. ~(i < r)
    <3>1. ASSUME i < r PROVE FALSE
      <4>1. i \in 1 .. m /\ i \in 1 .. r - 1 /\ i <= Len(validRevisions)
        BY <1>0, <3>1
      <4>2. validRevisions[i].id < revid /\ validRevisions[i].id >= revid
        BY <1>0, <1>3, <1>5, <4>1
      <4>. QED BY <1>0, <1>2, <4>1, <4>2
    <3>. QED BY <3>1
  <2>2. ~(r < i)
    <3>1. ASSUME r < i PROVE FALSE
      <4>1. r \in 1 .. i - 1
        BY <1>0, <3>1
      <4>2. revid < revid
        BY <1>5, <4>1
      <4>. QED BY <1>0, <1>2, <4>2
    <3>. QED BY <3>1
  <2>. QED BY <1>0, <2>1, <2>2
<1>6. \E i \in 1 .. Len(validRevisions) + 1 : Hit(i)
  BY <1>0, <1>4
<1>7. Search(revid) = CHOOSE i \in 1 .. Len(validRevisions) + 1 : Hit(i)
  BY DEF Search
<1>8. Search(revid) \in 1 .. m + 1 /\ Hit(Search(revid))
  BY <1>0, <1>6, <1>7, SMTT(30)
<1>. QED BY <1>5, <1>8

\* Every open frame can be reverted to, and a revert finds a revision of its id.
LEMMA FrameFound ==
  ASSUME IInv, pc = "run", NEW f \in 1 .. Len(frames)
  PROVE  /\ Search(frames[f]) \in 1 .. Len(validRevisions)
         /\ validRevisions[Search(frames[f])].id = frames[f]
<1>1. Live = Len(validRevisions) /\ Frames
  BY DEF IInv, Live
<1>2. PICK r \in 1 .. Len(validRevisions) : validRevisions[r].id = frames[f]
  BY <1>1 DEF Frames
<1>3. Search(frames[f]) = r
  BY <1>2, SearchFinds
<1>. QED BY <1>2, <1>3

\* RevertToSnapshot keeps the invariant: outer frames have revisions before its
\* target.
LEMMA RevertStep ==
  ASSUME IInv, HistStep, RevertToSnapshot
  PROVE  IInv'
<1>0. PICK l \in Nat : l = Len(frames)
  BY DEF IInv, TypeOK
<1>1. /\ TypeOK /\ pc = "run" /\ pc' = "revert" /\ Chain /\ Revisions /\ Frames
      /\ UNCHANGED <<keeperVars, DataVars, validRevisions, nextRevisionID>>
      /\ frames \in Seq(Nat) /\ frames # <<>> /\ Len(journal) \in Nat /\ journal' = journal
  BY SMTT(30) DEF IInv, TypeOK, RevertToSnapshot, DataVars
<1>2. /\ l > 0 /\ frames' = SubSeq(frames, 1, l - 1) /\ frames' \in Seq(Nat)
      /\ Len(frames') = l - 1 /\ \A f \in 1 .. l - 1 : frames'[f] = frames[f]
  BY <1>0, <1>1, SMTT(30) DEF RevertToSnapshot
<1>3. target' \in 1 .. Len(validRevisions) /\ validRevisions[target'].id = frames[l]
  <2>1. l \in 1 .. Len(frames) /\ target' = Search(frames[l])
    BY <1>0, <1>2 DEF RevertToSnapshot
  <2>. QED BY <1>1, <2>1, FrameFound
<1>4. Len(validRevisions) \in Nat /\ Live = Len(validRevisions) /\ Live' = target'
  BY <1>1, RevisionType DEF Live
<1>5. TypeOK'
  <2>1. target' \in Nat /\ UNCHANGED <<pending, base, txs>>
    BY <1>3, <1>4 DEF RevertToSnapshot
  <2>. QED BY <1>1, <1>2, <2>1, Zenon DEF TypeOK, keeperVars, DataVars, listVars
<1>6. Chain' /\ World' = World /\ \A i \in 1 .. Len(journal) + 1 : WorldAt(i)' = WorldAt(i)
  BY <1>1, <1>5, Still, SMTT(30)
<1>7. marks' = [r \in 1 .. Len(validRevisions) |-> marks[r]]
  BY <1>1, <1>4, SMTT(30) DEF HistStep
<1>8. ASSUME NEW r \in 1 .. Live
      PROVE  marks'[r] = WorldAt(validRevisions[r].journalIndex + 1)'
  <2>1. PICK i \in 1 .. Len(journal) + 1 : i = validRevisions[r].journalIndex + 1
    BY <1>1, <1>4, RevisionType, SMTT(30) DEF Revisions
  <2>2. marks'[r] = WorldAt(i)
    BY <1>1, <1>4, <1>7, <2>1 DEF Revisions
  <2>3. i = validRevisions'[r].journalIndex + 1
    BY <1>1, <2>1
  <2>. QED BY <1>6, <2>2, <2>3
<1>9. \A r \in 1 .. Live' : r \in 1 .. Live
  BY <1>3, <1>4, SMTT(30)
<1>10. Revisions'
  <2>1. Live' \in 0 .. Len(validRevisions') /\ Live' > 0 /\ DOMAIN marks' = 1 .. Len(validRevisions')
    BY <1>1, <1>3, <1>4, <1>7
  <2>2. ASSUME NEW r \in 1 .. Live'
        PROVE  /\ validRevisions'[r].id < nextRevisionID'
               /\ validRevisions'[r].journalIndex <= Len(journal')
               /\ \A q \in 1 .. r - 1 :
                    /\ validRevisions'[q].id < validRevisions'[r].id
                    /\ validRevisions'[q].journalIndex <= validRevisions'[r].journalIndex
    BY <1>1, <1>9, Zenon DEF Revisions
  <2>. QED BY <1>8, <1>9, <2>1, <2>2 DEF Revisions
<1>11. Frames'
  <2>1. \A f \in 1 .. l - 1 : f \in 1 .. l /\ frames[f] < frames[l] /\ frames[f] \in Nat
    <3>1. l \in 1 .. Len(frames) /\ frames \in Seq(Nat)
      BY <1>0, <1>1, <1>2
    <3>2. \A f \in 1 .. l - 1 : frames[f] < frames[l]
      BY <1>1, <3>1, Zenon DEF Frames
    <3>. QED BY <3>1, <3>2, <1>0
  <2>2. \A f \in 1 .. l - 1 : \A g \in 1 .. f - 1 : g \in 1 .. l - 1 /\ frames'[g] < frames'[f]
    BY <1>0, <1>1, <1>2, <2>1, SMTT(30) DEF Frames
  <2>3. ASSUME NEW f \in 1 .. l - 1
        PROVE  \E r \in 1 .. Live' : validRevisions'[r].id = frames'[f] /\ r # target'
    <3>1. PICK r \in 1 .. Live : validRevisions[r].id = frames[f]
      BY <1>0, <1>1, <2>1, SMTT(30) DEF Frames
    <3>2. validRevisions[r].id < validRevisions[target'].id /\ validRevisions[r].id \in Nat
          /\ validRevisions[target'].id \in Nat
      BY <1>1, <1>3, <1>4, <2>1, <3>1, RevisionType, SMTT(30)
    <3>3. ~(target' < r)
      BY <1>1, <1>3, <1>4, <3>2 DEF Revisions
    <3>4. r # target'
      BY <3>2
    <3>5. r \in 1 .. Live'
      BY <1>3, <1>4, <3>3, SMTT(30)
    <3>. QED BY <1>1, <1>2, <3>1, <3>4, <3>5, SMTT(30)
  <2>. QED BY <1>1, <1>2, <2>2, <2>3, Zenon DEF Frames
<1>12. \A a \in Addr : dirties'[a] > 0 => stateObjects'[a] # Nil
  BY <1>1, Zenon DEF IInv, DataVars
<1>. QED BY <1>1, <1>5, <1>6, <1>10, <1>11, <1>12, SMTT(30) DEF IInv

\* The end of a revert keeps the invariant: the target and what follows is gone.
LEMMA RevertDoneStep ==
  ASSUME IInv, HistStep, RevertDone
  PROVE  IInv'
<1>0. PICK m \in Nat : m = target
  BY Zenon DEF IInv, TypeOK
<1>1. /\ TypeOK /\ pc = "revert" /\ pc' = "run" /\ Chain /\ Revisions /\ Frames
      /\ UNCHANGED <<keeperVars, DataVars, nextRevisionID, frames>>
      /\ validRevisions \in Seq([id: Nat, journalIndex: Nat])
      /\ Len(journal) \in Nat /\ journal' = journal
  <2>1. /\ pc = "revert" /\ pc' = "run"
        /\ UNCHANGED <<keeperVars, DataVars, nextRevisionID, frames>>
    BY SMTT(30) DEF RevertDone
  <2>2. /\ TypeOK /\ Chain /\ Revisions /\ Frames /\ journal' = journal
        /\ validRevisions \in Seq([id: Nat, journalIndex: Nat]) /\ journal \in Seq(JournalEntry)
    BY <2>1, Zenon DEF IInv, TypeOK, DataVars
  <2>3. Len(journal) \in Nat
    BY <2>2
  <2>. QED BY <2>1, <2>2, <2>3, Zenon
<1>2. Live = m /\ m > 0 /\ m \in 1 .. Len(validRevisions) /\ Len(validRevisions) \in Nat
  <2>1. Live = m /\ m > 0 /\ m \in 0 .. Len(validRevisions)
    BY <1>0, <1>1, Zenon DEF Live, Revisions
  <2>. QED BY <1>1, <2>1, RevisionType, SMTT(30)
<1>3. /\ validRevisions' = SubSeq(validRevisions, 1, m - 1)
      /\ validRevisions' \in Seq([id: Nat, journalIndex: Nat]) /\ Len(validRevisions') = m - 1
      /\ \A r \in 1 .. m - 1 : validRevisions'[r] = validRevisions[r]
  <2>1. m - 1 \in 0 .. Len(validRevisions) /\ validRevisions' = SubSeq(validRevisions, 1, m - 1)
    BY <1>0, <1>2 DEF RevertDone
  <2>2. \A r \in 1 .. m - 1 : r \in 1 .. Len(validRevisions)
    BY <1>2
  <2>3. PICK k \in Nat : k = m - 1
    BY <2>1
  <2>4. validRevisions' = SubSeq(validRevisions, 1, k) /\ k <= Len(validRevisions)
    BY <1>2, <2>1, <2>3
  <2>5. /\ validRevisions' \in Seq([id: Nat, journalIndex: Nat]) /\ Len(validRevisions') = k
        /\ \A r \in 1 .. k : validRevisions'[r] = validRevisions[r]
    BY <1>1, <2>3, <2>4, Prefix, Zenon
  <2>. QED BY <2>1, <2>3, <2>5
<1>4. TypeOK'
  BY <1>1, <1>3, Zenon DEF TypeOK, RevertDone, keeperVars, DataVars, listVars
<1>5. Chain' /\ World' = World /\ \A i \in 1 .. Len(journal) + 1 : WorldAt(i)' = WorldAt(i)
  BY <1>1, <1>4, Still
<1>6. Live' = m - 1 /\ \A r \in 1 .. m - 1 : r \in 1 .. Live /\ r \in 1 .. Len(validRevisions)
  <2>1. Live' = m - 1
    BY <1>1, <1>3 DEF Live
  <2>. QED BY <1>2, <2>1
<1>7. marks' = [r \in 1 .. m - 1 |-> marks[r]]
  BY <1>2, <1>3 DEF HistStep
<1>8. ASSUME NEW r \in 1 .. m - 1
      PROVE  marks'[r] = WorldAt(validRevisions[r].journalIndex + 1)'
  <2>1. PICK i \in 1 .. Len(journal) + 1 : i = validRevisions[r].journalIndex + 1
    <3>1. r \in 1 .. Live /\ validRevisions[r].journalIndex \in Nat
      BY <1>1, <1>6, RevisionType
    <3>2. validRevisions[r].journalIndex <= Len(journal)
      BY <1>1, <3>1 DEF Revisions
    <3>. QED BY <1>1, <3>1, <3>2, SMTT(30)
  <2>2. marks'[r] = WorldAt(i)
    BY <1>1, <1>6, <1>7, <2>1, Zenon DEF Revisions
  <2>3. i = validRevisions'[r].journalIndex + 1
    BY <1>3, <2>1, SMTT(30)
  <2>. QED BY <1>5, <2>2, <2>3
<1>9. Revisions'
  <2>1. Live' \in 0 .. Len(validRevisions') /\ DOMAIN marks' = 1 .. Len(validRevisions')
    BY <1>2, <1>3, <1>6, <1>7
  <2>2. ASSUME NEW r \in 1 .. m - 1
        PROVE  /\ validRevisions'[r].id < nextRevisionID'
               /\ validRevisions'[r].journalIndex <= Len(journal')
               /\ \A q \in 1 .. r - 1 :
                    /\ validRevisions'[q].id < validRevisions'[r].id
                    /\ validRevisions'[q].journalIndex <= validRevisions'[r].journalIndex
    <3>1. \A q \in 1 .. r - 1 : q \in 1 .. m - 1
      BY <1>2
    <3>. QED BY <1>1, <1>3, <1>6, <3>1, Zenon DEF Revisions
  <2>. QED BY <1>1, <1>6, <1>8, <2>1, <2>2, Zenon DEF Revisions
<1>10. Frames'
  <2>1. ASSUME NEW f \in 1 .. Len(frames)
        PROVE  \E r \in 1 .. m - 1 : validRevisions'[r].id = frames[f]
    <3>1. PICK r \in 1 .. m : validRevisions[r].id = frames[f] /\ r # m
      BY <1>0, <1>1, <1>2, Zenon DEF Frames
    <3>2. r \in 1 .. m - 1
      BY <1>2, <3>1
    <3>. QED BY <1>3, <3>1, <3>2
  <2>. QED BY <1>1, <1>6, <2>1, Zenon DEF Frames
<1>11. \A a \in Addr : dirties'[a] > 0 => stateObjects'[a] # Nil
  BY <1>1 DEF IInv, DataVars
<1>. QED BY <1>1, <1>4, <1>5, <1>9, <1>10, <1>11, Zenon DEF IInv

------------------------------------------------------------------------------
(* Reverts *)

\* The setters of stateObject that journal entries call undo the view of it.
LEMMA SetterUndoes ==
  ASSUME TypeOK, NEW e \in JournalEntry, e.kind \in ObjectKinds,
         NEW a \in Addr, e.account = a, NEW o \in stateObject, o = getStateObject(a)
  PROVE  \E o2 \in stateObject : /\ RevertObjects(e) = [stateObjects EXCEPT ![a] = o2]
                                 /\ ViewOf(a, o2) = UndoAccount(e, ViewOf(a, o))
<1>1. o # Nil /\ ~Fresh(a)
  BY NilAssumption DEF Fresh
<1>2. CASE e.kind = "suicide"
  <2>. DEFINE o2 == [o EXCEPT !.suicided = e.prev, !.balance = e.prevbalance]
  <2>1. o2 \in stateObject /\ o2 # Nil
    BY <1>2, EntryFields, NilAssumption, ZenonT(30) DEF stateObject, Storage
  <2>2. RevertObjects(e) = [stateObjects EXCEPT ![a] = o2]
    BY <1>1, <1>2 DEF RevertObjects
  <2>3. ViewOf(a, o2) = UndoAccount(e, ViewOf(a, o))
    BY <1>1, <1>2, <2>1 DEF ViewOf, UndoAccount, GetState, GetCommittedState, stateObject
  <2>. QED BY <2>1, <2>2, <2>3, Zenon
<1>3. CASE e.kind = "balance"
  <2>. DEFINE o2 == [o EXCEPT !.balance = e.prev]
  <2>1. o2 \in stateObject /\ o2 # Nil
    BY <1>3, EntryFields, NilAssumption DEF stateObject, Storage
  <2>2. RevertObjects(e) = [stateObjects EXCEPT ![a] = o2]
    BY <1>1, <1>3 DEF RevertObjects
  <2>3. ViewOf(a, o2) = UndoAccount(e, ViewOf(a, o))
    BY <1>1, <1>3, <2>1 DEF ViewOf, UndoAccount, GetState, GetCommittedState, stateObject
  <2>. QED BY <2>1, <2>2, <2>3, ZenonT(30)
<1>4. CASE e.kind = "nonce"
  <2>. DEFINE o2 == [o EXCEPT !.nonce = e.prev]
  <2>1. o2 \in stateObject /\ o2 # Nil
    BY <1>4, EntryFields, NilAssumption DEF stateObject, Storage
  <2>2. RevertObjects(e) = [stateObjects EXCEPT ![a] = o2]
    BY <1>1, <1>4 DEF RevertObjects
  <2>3. ViewOf(a, o2) = UndoAccount(e, ViewOf(a, o))
    BY <1>1, <1>4, <2>1 DEF ViewOf, UndoAccount, GetState, GetCommittedState, stateObject
  <2>. QED BY <2>1, <2>2, <2>3, ZenonT(30)
<1>5. CASE e.kind = "code"
  <2>. DEFINE o2 == setCode(o, e.prevcode)
  <2>1. o2 \in stateObject /\ o2 # Nil
    BY <1>5, EntryFields, NilAssumption, ZenonT(30) DEF stateObject, Storage, setCode
  <2>2. RevertObjects(e) = [stateObjects EXCEPT ![a] = o2]
    BY <1>1, <1>5 DEF RevertObjects
  <2>3. ViewOf(a, o2) = UndoAccount(e, ViewOf(a, o))
    BY <1>1, <1>5, <2>1 DEF ViewOf, UndoAccount, GetState, GetCommittedState, stateObject, setCode
  <2>. QED BY <2>1, <2>2, <2>3, Zenon
<1>6. CASE e.kind = "storage"
  <2>. DEFINE o2 == [o EXCEPT !.dirtyStorage[e.key] = e.prevalue]
  <2>1. o2 \in stateObject /\ o2 # Nil
    BY <1>6, EntryFields, NilAssumption DEF stateObject, Storage
  <2>2. RevertObjects(e) = [stateObjects EXCEPT ![a] = o2]
    BY <1>1, <1>6 DEF RevertObjects
  <2>3. \A k \in Slot : GetState(a, o2, k) = IF k = e.key THEN e.prevalue ELSE GetState(a, o, k)
    BY <1>6, EntryFields, ConstantsAssumption DEF GetState, GetCommittedState, stateObject, Storage
  <2>4. o2.nonce = o.nonce /\ o2.balance = o.balance /\ o2.code = o.code /\ o2.suicided = o.suicided
    BY DEF stateObject
  <2>. HIDE DEF o2
  <2>5. ViewOf(a, o2) = UndoAccount(e, ViewOf(a, o))
    BY <1>1, <1>6, <2>1, <2>3, <2>4, SMTT(30) DEF ViewOf, UndoAccount
  <2>. QED BY <2>1, <2>2, <2>5, ZenonT(30)
<1>. QED BY <1>2, <1>3, <1>4, <1>5, <1>6 DEF ObjectKinds

\* Undoing the newest entry leaves objects whose view is the undone view; an
\* object goes only with the entry of its creation.
LEMMA ObjectsUndone ==
  ASSUME TypeOK, UNCHANGED <<accounts, storage>>, NEW e \in JournalEntry, EntryOK(e, World),
         stateObjects' = RevertObjects(e)
  PROVE  /\ stateObjects' \in [Addr -> stateObject \cup {Nil}]
         /\ View' = UndoView(e, View)
         /\ \A b \in Addr : stateObjects[b] # Nil /\ stateObjects'[b] = Nil
                              => e.kind = "create" /\ e.account = b
<1>1. stateObjects \in [Addr -> stateObject \cup {Nil}]
  BY DEF TypeOK
<1>2. View \in [Addr -> AccountView \cup {Nil}] /\ \A b \in Addr : View[b] = Nil <=> Fresh(b)
  BY ViewType, SMTT(30)
<1>3. /\ e.kind \in ObjectKinds \cup {"reset"} => View[e.account] # Nil
      /\ e.kind = "create" => accounts[e.account] = Nil
  BY DEF EntryOK, World
<1>4. CASE e.kind \in ObjectKinds
  <2>1. e.account \in Addr /\ e.kind \notin {"create", "reset"}
    BY <1>4, EntryFields DEF ObjectKinds
  <2>2. PICK a \in Addr : a = e.account
    BY <2>1, SMTT(30)
  <2>3. PICK o \in stateObject : o = getStateObject(a)
    BY <1>2, <1>3, <1>4, <2>2, GetObjectType DEF Fresh
  <2>4. PICK o2 \in stateObject : /\ RevertObjects(e) = [stateObjects EXCEPT ![a] = o2]
                                  /\ ViewOf(a, o2) = UndoAccount(e, ViewOf(a, o))
    BY <1>4, <2>2, <2>3, SetterUndoes
  <2>5. stateObjects' = [stateObjects EXCEPT ![a] = o2] /\ o2 # Nil
    BY <2>4, NilAssumption
  <2>6. View' = [View EXCEPT ![a] = ViewOf(a, o2)]
    BY <2>5, ViewExcept, Zenon
  <2>7. View[a] = ViewOf(a, o)
    BY <2>3 DEF View
  <2>8. \A b \in Addr : UndoView(e, View)[b] = IF b = a THEN UndoAccount(e, View[a]) ELSE View[b]
    BY <1>4, <2>1, <2>2 DEF UndoView
  <2>9. UndoView(e, View) = [View EXCEPT ![a] = UndoAccount(e, View[a])]
    BY <1>2, <2>8, ZenonT(30) DEF UndoView
  <2>. QED BY <1>1, <2>4, <2>5, <2>6, <2>7, <2>9, SMTT(30)
<1>5. CASE e.kind = "reset"
  <2>1. e.account \in Addr /\ e.prev \in stateObject /\ e.kind \notin ObjectKinds \cup {"create"}
    BY <1>5, EntryFields DEF ObjectKinds
  <2>2. PICK a \in Addr : a = e.account
    BY <2>1
  <2>3. stateObjects' = [stateObjects EXCEPT ![a] = e.prev] /\ e.prev # Nil
    BY <1>5, <2>1, <2>2, NilAssumption DEF RevertObjects
  <2>4. View' = [View EXCEPT ![a] = ViewOf(a, e.prev)]
    BY <2>1, <2>3, ViewExcept, Zenon
  <2>5. \A b \in Addr : UndoView(e, View)[b] = IF b = a THEN ViewOf(a, e.prev) ELSE View[b]
    BY <1>5, <2>1, <2>2 DEF UndoView
  <2>6. UndoView(e, View) = [View EXCEPT ![a] = ViewOf(a, e.prev)]
    BY <1>2, <2>5, ZenonT(30) DEF UndoView
  <2>. QED BY <1>1, <2>1, <2>3, <2>4, <2>6
<1>6. CASE e.kind = "create"
  <2>1. e.account \in Addr /\ e.kind \notin ObjectKinds \cup {"reset"}
    BY <1>6, EntryFields DEF ObjectKinds
  <2>2. PICK a \in Addr : a = e.account
    BY <2>1
  <2>3. stateObjects' = [stateObjects EXCEPT ![a] = Nil]
    BY <1>6, <2>2, SMTT(30) DEF RevertObjects
  <2>4. \A b \in Addr : getStateObject(b)' = IF b = a THEN Nil ELSE getStateObject(b)
    BY <1>1, <1>3, <1>6, <2>2, <2>3, SMTT(30) DEF getStateObject
  <2>5. \A b \in Addr : ViewOf(b, getStateObject(b))'
                          = IF b = a THEN Nil ELSE ViewOf(b, getStateObject(b))
    BY <2>4 DEF ViewOf, GetState, GetCommittedState
  <2>6. View' = [b \in Addr |-> IF b = a THEN Nil ELSE View[b]]
    BY <2>5 DEF View
  <2>7. \A b \in Addr : UndoView(e, View)[b] = IF b = a THEN Nil ELSE View[b]
    BY <1>6, <2>1, <2>2 DEF UndoView
  <2>8. UndoView(e, View) = [b \in Addr |-> IF b = a THEN Nil ELSE View[b]]
    BY <2>7 DEF UndoView
  <2>. QED BY <1>1, <1>6, <2>2, <2>3, <2>6, <2>8, SMTT(30)
<1>7. CASE e.kind \notin ObjectKinds \cup {"reset", "create"}
  <2>1. stateObjects' = stateObjects
    BY <1>7, SMTT(30) DEF RevertObjects, ObjectKinds
  <2>2. View' = View
    <3>1. \A b \in Addr : getStateObject(b)' = getStateObject(b)
      BY <1>1, <2>1, Zenon DEF getStateObject
    <3>2. \A b \in Addr : ViewOf(b, getStateObject(b))' = ViewOf(b, getStateObject(b))
      BY <3>1 DEF ViewOf, GetState, GetCommittedState
    <3>. QED BY <3>2 DEF View
  <2>3. \A b \in Addr : UndoView(e, View)[b] = View[b]
    BY <1>7 DEF UndoView
  <2>4. UndoView(e, View) = View
    BY <1>2, <2>3 DEF UndoView
  <2>. QED BY <1>1, <2>1, <2>2, <2>4
<1>. QED BY <1>4, <1>5, <1>6, <1>7, Zenon

\* Undoing the newest entry leaves the access list Undo describes.
LEMMA ListUndone ==
  ASSUME TypeOK, NEW e \in JournalEntry, EntryOK(e, World), RevertList(e)
  PROVE  addresses' = Undo(e, World).addresses /\ slots' = Undo(e, World).slots
<1>1. addresses \in [Addr -> Int] /\ slots \in Seq(SUBSET Slot)
  BY DEF TypeOK
<1>2. World.addresses = addresses /\ World.slots = slots
  BY DEF World
<1>3. CASE e.kind = "listSlot" /\ LastSlot(e, World)
  <2>1. PICK a \in Addr : a = e.address
    BY <1>3, EntryFields, Zenon
  <2>2. /\ slots' = SubSeq(slots, 1, addresses[a] - 1)
        /\ addresses' = [addresses EXCEPT ![a] = NoSlots]
    BY <1>2, <1>3, <2>1 DEF RevertList, DeleteSlot, LastSlot
  <2>3. Undo(e, World).slots = SubSeq(slots, 1, addresses[a] - 1)
    BY <1>2, <1>3, <2>1, ZenonT(30) DEF Undo
  <2>4. Undo(e, World).addresses = [b \in Addr |-> IF b = a THEN NoSlots ELSE addresses[b]]
    BY <1>2, <1>3, <2>1, SMTT(30) DEF Undo
  <2>. QED BY <1>1, <2>2, <2>3, <2>4, ZenonT(30)
<1>4. CASE e.kind = "listSlot" /\ ~LastSlot(e, World)
  <2>1. PICK a \in Addr : a = e.address
    BY <1>4, EntryFields, SMTT(30)
  <2>2. slots' = [slots EXCEPT ![addresses[a]] = slots[addresses[a]] \ {e.slot}] /\ addresses' = addresses
    BY <1>2, <1>4, <2>1 DEF RevertList, DeleteSlot, LastSlot
  <2>3. Undo(e, World).slots = [slots EXCEPT ![addresses[a]] = slots[addresses[a]] \ {e.slot}]
    BY <1>2, <1>4, <2>1 DEF Undo
  <2>4. Undo(e, World).addresses = [b \in Addr |-> addresses[b]]
    BY <1>2, <1>4, <2>1 DEF Undo
  <2>. QED BY <1>1, <2>2, <2>3, <2>4, SMTT(30)
<1>5. CASE e.kind = "listAccount"
  <2>1. PICK a \in Addr : a = e.address
    BY <1>5, EntryFields
  <2>2. slots' = slots /\ addresses' = [addresses EXCEPT ![a] = Absent]
    BY <1>5, <2>1 DEF RevertList
  <2>3. ~LastSlot(e, World)
    BY <1>5 DEF LastSlot
  <2>4. Undo(e, World).slots = slots
    BY <1>2, <1>5, <2>3 DEF Undo
  <2>5. Undo(e, World).addresses = [b \in Addr |-> IF b = a THEN Absent ELSE addresses[b]]
    BY <1>2, <1>5, <2>1, <2>3, SMTT(30) DEF Undo
  <2>. QED BY <1>1, <2>2, <2>4, <2>5, Zenon
<1>6. CASE e.kind \notin {"listAccount", "listSlot"}
  <2>1. slots' = slots /\ addresses' = addresses
    BY <1>6 DEF RevertList, listVars
  <2>2. ~LastSlot(e, World)
    BY <1>6 DEF LastSlot
  <2>3. Undo(e, World).slots = slots
    BY <1>2, <1>6, <2>2 DEF Undo
  <2>4. Undo(e, World).addresses = [b \in Addr |-> addresses[b]]
    BY <1>2, <1>6, <2>2, SMTT(30) DEF Undo
  <2>. QED BY <1>1, <2>1, <2>3, <2>4
<1>. QED BY <1>3, <1>4, <1>5, <1>6, SMTT(30)

\* What an entry met by a revert satisfies: the chain's promise about the newest.
LEMMA NewestEntry ==
  ASSUME IInv, pc = "revert", Len(journal) > validRevisions[target].journalIndex
  PROVE  /\ Len(journal) \in Nat \ {0} /\ journal[Len(journal)] \in JournalEntry
         /\ EntryOK(journal[Len(journal)], World)
         /\ Undo(journal[Len(journal)], World) = hist[Len(journal)]
         /\ WorldOK(hist[Len(journal)])
<1>0. PICK n \in Nat : n = Len(journal)
  <2>1. journal \in Seq(JournalEntry)
    BY Zenon DEF IInv, TypeOK
  <2>. QED BY <2>1
<1>1. TypeOK /\ Chain /\ Revisions /\ journal \in Seq(JournalEntry)
  BY Zenon DEF IInv, TypeOK
<1>2. target \in 1 .. Len(validRevisions)
  BY <1>1, RevisionType DEF Revisions, Live
<1>3. n > 0
  BY <1>0, <1>1, <1>2, RevisionType
<1>4. n \in 1 .. n /\ n \in 1 .. n + 1 /\ WorldAt(n + 1) = World /\ WorldAt(n) = hist[n]
  BY <1>0, <1>3 DEF WorldAt
<1>5. journal[n] \in JournalEntry
  BY <1>0, <1>1, <1>4, ElementOfSeq, SMTT(30)
<1>6. EntryOK(journal[n], World) /\ Undo(journal[n], World) = hist[n] /\ WorldOK(hist[n])
  BY <1>0, <1>1, <1>4 DEF Chain
<1>. QED BY <1>0, <1>3, <1>5, <1>6, SMTT(30)

\* The iteration takes the world to the one recorded before the entry.
LEMMA WorldUndone ==
  ASSUME IInv, UndoEntry
  PROVE  World' = hist[Len(journal)] /\ WorldOK(hist[Len(journal)])
<1>. DEFINE e == journal[Len(journal)]
<1>1. TypeOK /\ pc = "revert" /\ Len(journal) > validRevisions[target].journalIndex
  BY DEF IInv, UndoEntry
<1>2. /\ e \in JournalEntry /\ EntryOK(e, World)
      /\ Undo(e, World) = hist[Len(journal)] /\ WorldOK(hist[Len(journal)])
  BY <1>1, NewestEntry, SMTT(30)
<1>3. /\ stateObjects' = RevertObjects(e) /\ dirties' = Uncounted(dirties, e)
      /\ refund' = (IF e.kind = "refund" THEN e.prev ELSE refund)
      /\ logs' = (IF e.kind = "log" THEN SubSeq(logs, 1, Len(logs) - 1) ELSE logs)
      /\ RevertList(e) /\ UNCHANGED <<accounts, storage>>
  BY Zenon DEF UndoEntry, keeperVars
<1>. HIDE DEF e
<1>4. View' = UndoView(e, View)
  BY <1>1, <1>2, <1>3, ObjectsUndone
<1>5. dirties' = Uncounted(dirties, e)
  BY <1>3
<1>6. addresses' = Undo(e, World).addresses /\ slots' = Undo(e, World).slots
  BY <1>1, <1>2, <1>3, ListUndone, Zenon
<1>7. World.view = View /\ World.dirties = dirties /\ World.refund = refund /\ World.logs = logs
  BY DEF World
<1>8. /\ Undo(e, World).view = View' /\ Undo(e, World).dirties = dirties'
      /\ Undo(e, World).refund = refund' /\ Undo(e, World).logs = logs'
  BY <1>3, <1>4, <1>5, <1>7 DEF Undo
<1>. DEFINE u == Undo(e, World)
<1>9. u = [view |-> u.view, dirties |-> u.dirties, refund |-> u.refund, logs |-> u.logs,
           addresses |-> u.addresses, slots |-> u.slots]
  BY DEF Undo
<1>10. World' = [view |-> View', dirties |-> dirties', refund |-> refund', logs |-> logs',
                 addresses |-> addresses', slots |-> slots']
  BY SMTT(30) DEF World
<1>. HIDE DEF u
<1>11. World' = u
  BY <1>6, <1>8, <1>9, <1>10, Zenon DEF u
<1>. QED BY <1>2, <1>11, SMTT(30) DEF u, e

\* An iteration of journal.Revert keeps the invariant.
LEMMA UndoEntryStep ==
  ASSUME IInv, HistStep, UndoEntry
  PROVE  IInv'
<1>0. PICK n \in Nat : n = Len(journal)
  <2>1. journal \in Seq(JournalEntry)
    BY Zenon DEF IInv, TypeOK
  <2>. QED BY <2>1
<1>1. /\ TypeOK /\ pc = "revert" /\ pc' = "revert" /\ Chain /\ Revisions /\ Frames
      /\ n > validRevisions[target].journalIndex /\ journal \in Seq(JournalEntry)
      /\ UNCHANGED <<validRevisions, nextRevisionID, frames, target, accounts, storage>>
  <2>1. /\ pc = "revert" /\ pc' = "revert" /\ n > validRevisions[target].journalIndex
        /\ UNCHANGED <<validRevisions, nextRevisionID, frames, target, accounts, storage>>
    BY <1>0, ZenonT(30) DEF UndoEntry, snapVars, ctlVars, keeperVars
  <2>. QED BY <2>1, Zenon DEF IInv, TypeOK
<1>2. /\ n > 0 /\ journal[n] \in JournalEntry /\ EntryOK(journal[n], World)
      /\ World' = hist[n] /\ WorldOK(hist[n])
  BY <1>0, <1>1, NewestEntry, WorldUndone, SMTT(30)
<1>3. /\ journal' \in Seq(JournalEntry) /\ Len(journal') = n - 1
      /\ \A i \in 1 .. n - 1 : journal'[i] = journal[i]
  <2>1. PICK k \in Nat : k = n - 1
    BY <1>2, SMTT(30)
  <2>2. journal' = SubSeq(journal, 1, k) /\ k <= Len(journal)
    BY <1>0, <2>1, SMTT(30) DEF UndoEntry
  <2>. QED BY <1>1, <2>1, <2>2, Prefix
<1>4. /\ stateObjects' \in [Addr -> stateObject \cup {Nil}]
      /\ \A b \in Addr : stateObjects[b] # Nil /\ stateObjects'[b] = Nil
                           => journal[n].kind = "create" /\ journal[n].account = b
  BY <1>0, <1>1, <1>2, ObjectsUndone, Zenon DEF UndoEntry
<1>5. /\ dirties' \in [Addr -> Nat] /\ refund' \in Nat /\ logs' \in Seq(LogData)
      /\ addresses' \in [Addr -> Int] /\ slots' \in Seq(SUBSET Slot)
  <2>1. World' \in WorldType
    BY <1>2 DEF WorldOK
  <2>. QED BY <2>1, Zenon DEF WorldType, World
<1>6. TypeOK'
  BY <1>1, <1>3, <1>4, <1>5, ZenonT(30) DEF TypeOK, UndoEntry, keeperVars, snapVars, ctlVars
<1>7. \A i \in 1 .. n : WorldAt(i)' = WorldAt(i) /\ i \in 1 .. n + 1
  <2>1. \A i \in 1 .. n - 1 : hist'[i] = hist[i]
    BY <1>0, <1>3 DEF HistStep
  <2>2. \A i \in 1 .. n - 1 : WorldAt(i)' = hist[i] /\ WorldAt(i) = hist[i]
    BY <1>0, <1>3, <2>1 DEF WorldAt
  <2>3. WorldAt(n)' = World' /\ WorldAt(n) = hist[n]
    BY <1>0, <1>3, SMTT(30) DEF WorldAt
  <2>. QED BY <1>2, <2>2, <2>3
<1>8. Chain'
  <2>1. hist' \in [1 .. n - 1 -> WorldType]
    <3>1. hist' = [i \in 1 .. n - 1 |-> hist[i]]
      BY <1>0, <1>3, SMTT(30) DEF HistStep
    <3>2. \A i \in 1 .. n - 1 : hist[i] \in WorldType
      BY <1>0, <1>1, SMTT(30) DEF Chain
    <3>. QED BY <3>1, <3>2
  <2>2. \A i \in 1 .. n : WorldOK(WorldAt(i))'
    BY <1>0, <1>1, <1>7, KeeperFixed, ZenonT(30) DEF Chain
  <2>3. ASSUME NEW i \in 1 .. n - 1
        PROVE  EntryOK(journal[i], WorldAt(i + 1))' /\ (Undo(journal[i], WorldAt(i + 1)) = WorldAt(i))'
    <3>1. PICK j \in 1 .. n : j = i + 1
      OBVIOUS
    <3>2. i \in 1 .. n /\ journal'[i] = journal[i]
      BY <1>3
    <3>3. EntryOK(journal[i], WorldAt(j)) /\ Undo(journal[i], WorldAt(j)) = WorldAt(i)
      BY <1>0, <1>1, <3>1, <3>2 DEF Chain
    <3>4. EntryOK(journal[i], WorldAt(j))'
      BY <1>1, <1>7, <3>2, <3>3, KeeperFixed, ZenonT(30)
    <3>5. (Undo(journal[i], WorldAt(j)) = WorldAt(i))'
      BY <1>1, <1>7, <3>2, <3>3, KeeperFixed, Zenon
    <3>. QED BY <3>1, <3>4, <3>5
  <2>. QED BY <1>3, <2>1, <2>2, <2>3 DEF Chain
<1>9. Live' = Live /\ Live = target /\ target \in 1 .. Len(validRevisions)
      /\ Len(validRevisions) \in Nat
  BY <1>1, RevisionType, SMTT(30) DEF Live, Revisions
<1>10. ASSUME NEW r \in 1 .. Live
       PROVE  /\ validRevisions[r].journalIndex < n /\ validRevisions[r].journalIndex \in Nat
  <2>1. r \in 1 .. Len(validRevisions)
    BY <1>9
  <2>2. validRevisions[r].journalIndex \in Nat /\ validRevisions[target].journalIndex \in Nat
    BY <1>1, <1>9, <2>1, RevisionType
  <2>3. r = target \/ r \in 1 .. target - 1
    BY <1>9, SMTT(30)
  <2>4. validRevisions[r].journalIndex <= validRevisions[target].journalIndex
    BY <1>1, <1>9, <2>2, <2>3, SMTT(30) DEF Revisions
  <2>. QED BY <1>1, <2>2, <2>4
<1>11. marks' = [r \in 1 .. Len(validRevisions) |-> marks[r]]
  BY <1>1, <1>9 DEF HistStep
<1>12. ASSUME NEW r \in 1 .. Live
       PROVE  marks'[r] = WorldAt(validRevisions[r].journalIndex + 1)'
  <2>1. PICK i \in 1 .. n : i = validRevisions[r].journalIndex + 1
    BY <1>10
  <2>2. r \in 1 .. Len(validRevisions)
    BY <1>9, SMTT(30)
  <2>3. marks'[r] = WorldAt(i)
    BY <1>1, <1>11, <2>1, <2>2, Zenon DEF Revisions
  <2>4. i = validRevisions'[r].journalIndex + 1
    BY <1>1, <2>1, SMTT(30)
  <2>. QED BY <1>7, <2>3, <2>4
<1>13. Revisions'
  <2>1. \A r \in 1 .. Live : validRevisions'[r].journalIndex <= Len(journal')
    BY <1>1, <1>3, <1>10
  <2>2. Live' \in 0 .. Len(validRevisions') /\ Live' > 0 /\ DOMAIN marks' = 1 .. Len(validRevisions')
    BY <1>1, <1>9, <1>11, SMTT(30)
  <2>. QED BY <1>1, <1>9, <1>12, <2>1, <2>2, Zenon DEF Revisions
<1>14. Frames'
  BY <1>1, <1>9, SMTT(30) DEF Frames
<1>15. ASSUME NEW a \in Addr, dirties'[a] > 0 PROVE stateObjects'[a] # Nil
  <2>1. dirties[a] > 0
    <3>1. PICK e : dirties' = Uncounted(dirties, e)
      BY Zenon DEF UndoEntry
    <3>2. PICK d \in Nat : d = dirties[a]
      <4>1. dirties \in [Addr -> Nat]
        BY <1>1, Zenon DEF TypeOK
      <4>. QED BY <4>1
    <3>3. dirties'[a] = IF Dirtied(e, a) THEN d - 1 ELSE d
      BY <3>1, <3>2, Zenon DEF Uncounted
    <3>. QED BY <1>15, <3>2, <3>3
  <2>2. stateObjects[a] # Nil
    BY <1>1, <2>1, Zenon DEF IInv
  <2>3. World'.view[a] # Nil
    <3>1. World'.dirties = dirties'
      BY SMTT(30) DEF World
    <3>2. ~(dirties'[a] = 0)
      BY <1>15
    <3>. QED BY <1>2, <1>5, <1>15, <3>1, <3>2, Zenon DEF WorldOK
  <2>4. View' = UndoView(journal[n], View)
    BY <1>0, <1>1, <1>2, ObjectsUndone, Zenon DEF UndoEntry
  <2>5. journal[n].kind = "create" /\ journal[n].account = a => View'[a] = Nil
    BY <2>4, SMTT(30) DEF UndoView, ObjectKinds
  <2>6. World'.view = View'
    BY DEF World
  <2>. QED BY <1>4, <2>2, <2>3, <2>5, <2>6, SMTT(30)
<1>. QED BY <1>1, <1>6, <1>8, <1>13, <1>14, <1>15, Zenon DEF IInv

------------------------------------------------------------------------------
(* Reverts and what Commit relies on *)

\* Setting a balance, a nonce, a code or a slot is undone by the old value.
LEMMA FieldUndone ==
  ASSUME TypeOK, NEW a \in Addr, NEW o \in stateObject
  PROVE  /\ \A x \in Nat :
              /\ [o EXCEPT !.balance = x] \in stateObject
              /\ UndoAccount([kind |-> "balance", account |-> a, prev |-> o.balance],
                             ViewOf(a, [o EXCEPT !.balance = x])) = ViewOf(a, o)
         /\ \A x \in Nat :
              /\ [o EXCEPT !.nonce = x] \in stateObject
              /\ UndoAccount([kind |-> "nonce", account |-> a, prev |-> o.nonce],
                             ViewOf(a, [o EXCEPT !.nonce = x])) = ViewOf(a, o)
         /\ \A c \in Code :
              /\ setCode(o, c) \in stateObject
              /\ UndoAccount([kind |-> "code", account |-> a, prevcode |-> o.code],
                             ViewOf(a, setCode(o, c))) = ViewOf(a, o)
         /\ \A k \in Slot, v \in Val :
              /\ [o EXCEPT !.dirtyStorage[k] = v] \in stateObject
              /\ UndoAccount([kind |-> "storage", account |-> a, key |-> k,
                              prevalue |-> GetState(a, o, k)],
                             ViewOf(a, [o EXCEPT !.dirtyStorage[k] = v])) = ViewOf(a, o)
         /\ /\ [o EXCEPT !.suicided = TRUE, !.balance = 0] \in stateObject
            /\ UndoAccount([kind |-> "suicide", account |-> a, prev |-> o.suicided,
                            prevbalance |-> o.balance],
                           ViewOf(a, [o EXCEPT !.suicided = TRUE, !.balance = 0])) = ViewOf(a, o)
<1>1. ASSUME NEW x \in Nat
      PROVE  /\ [o EXCEPT !.balance = x] \in stateObject
             /\ UndoAccount([kind |-> "balance", account |-> a, prev |-> o.balance],
                            ViewOf(a, [o EXCEPT !.balance = x])) = ViewOf(a, o)
  <2>1. [o EXCEPT !.balance = x] \in stateObject
    BY DEF stateObject
  <2>2. o # Nil /\ [o EXCEPT !.balance = x] # Nil
    BY <2>1, NilAssumption
  <2>. QED BY <2>1, <2>2 DEF ViewOf, UndoAccount, GetState, GetCommittedState, stateObject
<1>2. ASSUME NEW x \in Nat
      PROVE  /\ [o EXCEPT !.nonce = x] \in stateObject
             /\ UndoAccount([kind |-> "nonce", account |-> a, prev |-> o.nonce],
                            ViewOf(a, [o EXCEPT !.nonce = x])) = ViewOf(a, o)
  <2>1. [o EXCEPT !.nonce = x] \in stateObject
    BY DEF stateObject
  <2>2. o # Nil /\ [o EXCEPT !.nonce = x] # Nil
    BY <2>1, NilAssumption
  <2>. QED BY <2>1, <2>2 DEF ViewOf, UndoAccount, GetState, GetCommittedState, stateObject
<1>3. ASSUME NEW c \in Code
      PROVE  /\ setCode(o, c) \in stateObject
             /\ UndoAccount([kind |-> "code", account |-> a, prevcode |-> o.code],
                            ViewOf(a, setCode(o, c))) = ViewOf(a, o)
  <2>1. setCode(o, c) \in stateObject
    BY Zenon DEF stateObject, setCode
  <2>2. o # Nil /\ setCode(o, c) # Nil
    BY <2>1, NilAssumption
  <2>. QED BY <2>1, <2>2 DEF ViewOf, UndoAccount, GetState, GetCommittedState, stateObject, setCode
<1>4. ASSUME NEW k \in Slot, NEW v \in Val
      PROVE  /\ [o EXCEPT !.dirtyStorage[k] = v] \in stateObject
             /\ UndoAccount([kind |-> "storage", account |-> a, key |-> k,
                             prevalue |-> GetState(a, o, k)],
                            ViewOf(a, [o EXCEPT !.dirtyStorage[k] = v])) = ViewOf(a, o)
  <2>1. [o EXCEPT !.dirtyStorage[k] = v] \in stateObject
    BY DEF stateObject, Storage
  <2>2. o # Nil /\ [o EXCEPT !.dirtyStorage[k] = v] # Nil
    BY <2>1, NilAssumption
  <2>3. \A j \in Slot : j # k => GetState(a, [o EXCEPT !.dirtyStorage[k] = v], j) = GetState(a, o, j)
    BY DEF GetState, GetCommittedState, stateObject, Storage
  <2>. QED BY <2>1, <2>2, <2>3 DEF ViewOf, UndoAccount, stateObject
<1>5. /\ [o EXCEPT !.suicided = TRUE, !.balance = 0] \in stateObject
      /\ UndoAccount([kind |-> "suicide", account |-> a, prev |-> o.suicided,
                      prevbalance |-> o.balance],
                     ViewOf(a, [o EXCEPT !.suicided = TRUE, !.balance = 0])) = ViewOf(a, o)
  <2>1. [o EXCEPT !.suicided = TRUE, !.balance = 0] \in stateObject
    BY Zenon DEF stateObject
  <2>2. o # Nil /\ [o EXCEPT !.suicided = TRUE, !.balance = 0] # Nil
    BY <2>1, NilAssumption
  <2>. QED BY <2>1, <2>2 DEF ViewOf, UndoAccount, GetState, GetCommittedState, stateObject
<1>. QED BY <1>1, <1>2, <1>3, <1>4, <1>5

\* Reading a slot into the cache shows nothing new.
LEMMA CachedView ==
  ASSUME TypeOK, NEW a \in Addr, NEW o \in stateObject, NEW k \in Slot
  PROVE  /\ Cached(a, o, k) \in stateObject
         /\ ViewOf(a, Cached(a, o, k)) = ViewOf(a, o)
         /\ GetState(a, Cached(a, o, k), k) \in Val
<1>0. storage[a][k] \in Val
  <2>1. storage \in [Addr -> [Slot -> Val]]
    BY Zenon DEF TypeOK
  <2>. QED BY <2>1, Zenon
<1>1. storage[a][k] \in Val /\ GetCommittedState(a, o, k) \in Val
  <2>1. o.originStorage[k] \in Val \cup {Unset}
    BY Zenon DEF stateObject, Storage
  <2>. QED BY <1>0, <2>1, Zenon DEF GetCommittedState
<1>2. Cached(a, o, k) \in stateObject
  BY <1>1 DEF Cached, stateObject, Storage
<1>3. \A j \in Slot : GetState(a, Cached(a, o, k), j) = GetState(a, o, j)
  BY <1>1 DEF Cached, GetState, GetCommittedState, stateObject, Storage
<1>4. o # Nil /\ Cached(a, o, k) # Nil
  BY <1>2, NilAssumption
<1>5. /\ Cached(a, o, k).nonce = o.nonce /\ Cached(a, o, k).balance = o.balance
      /\ Cached(a, o, k).code = o.code /\ Cached(a, o, k).suicided = o.suicided
  BY DEF Cached, stateObject
<1>6. ViewOf(a, Cached(a, o, k)) = ViewOf(a, o)
  BY <1>3, <1>4, <1>5 DEF ViewOf
<1>7. GetState(a, o, k) \in Val
  BY <1>1 DEF GetState, stateObject, Storage
<1>. QED BY <1>2, <1>3, <1>6, <1>7, SMTT(30)

\* No iteration of journal.Revert dereferences a nil object, indexes the access
\* list out of range, cuts an empty log list or makes a dirty count negative.
LEMMA EntriesUndo == IInv => EntryUndoable
<1>. SUFFICES ASSUME IInv, pc = "revert", Len(journal) > validRevisions[target].journalIndex
              PROVE  LET e == journal[Len(journal)] IN
                     /\ e.kind \in ObjectKinds => ~Fresh(e.account)
                     /\ e.kind \in ObjectKinds \cup {"create"} => dirties[e.account] > 0
                     /\ e.kind = "log" => logs # <<>>
                     /\ e.kind = "listSlot" => /\ addresses[e.address] \in DOMAIN slots
                                               /\ e.slot \in slots[addresses[e.address]]
  BY DEF EntryUndoable
<1>. DEFINE e == journal[Len(journal)]
<1>1. e \in JournalEntry /\ EntryOK(e, World) /\ TypeOK
  BY NewestEntry, Zenon DEF IInv
<1>2. /\ World.view = View /\ World.dirties = dirties /\ World.logs = logs
      /\ World.addresses = addresses /\ World.slots = slots
  BY DEF World
<1>. HIDE DEF e
<1>3. e.kind \in ObjectKinds => ~Fresh(e.account)
  BY <1>1, <1>2, EntryFields, ViewType, ZenonT(30) DEF EntryOK
<1>4. /\ e.kind \in ObjectKinds \cup {"create"} => dirties[e.account] > 0
      /\ e.kind = "log" => logs # <<>>
      /\ e.kind = "listSlot" => /\ addresses[e.address] \in DOMAIN slots
                                /\ e.slot \in slots[addresses[e.address]]
  BY <1>1, <1>2, ZenonT(30) DEF EntryOK
<1>. QED BY <1>3, <1>4, Zenon DEF e

\* While the keeper is untouched, objects are judged as before.
LEMMA ObjectsNow ==
  ASSUME UNCHANGED <<storage, codes>>, Objects(stateObjects', journal')
  PROVE  Objects(stateObjects, journal)'
<1>1. AllSound(stateObjects)'
  BY DEF Objects, AllSound, Sound
<1>2. (\A i \in 1 .. Len(journal) :
         journal[i].kind = "reset" => Sound(journal[i].account, journal[i].prev))'
  BY DEF Objects, Sound
<1>3. (\A i \in 1 .. Len(journal) : journal[i].kind = "storage" =>
         Read(stateObjects, journal, i, journal[i].account, journal[i].key))'
  BY Zenon DEF Objects, Read, Replaces, HasRead
<1>. QED BY <1>1, <1>2, <1>3, Zenon DEF Objects

\* Entries of the refund counter, the logs and the access list concern no object.
LEMMA PlainObjects ==
  ASSUME TypeOK, Objects(stateObjects, journal), PlainNext
  PROVE  Objects(stateObjects', journal')
<1>1. stateObjects \in ObjectMap /\ journal \in Seq(JournalEntry) /\ stateObjects' = stateObjects
  BY Zenon DEF TypeOK, ObjectMap, PlainNext, AddLog, AddRefund, SubRefund, AddAddressToAccessList,
         AddSlotToAccessList, Plain
<1>2. AllSound(stateObjects)
  BY Zenon DEF Objects
<1>3. ASSUME NEW jnl \in Seq(JournalEntry), Objects(stateObjects, jnl),
             NEW e \in JournalEntry, e.kind \in PlainKinds
      PROVE  Objects(stateObjects, Append(jnl, e)) /\ Append(jnl, e) \in Seq(JournalEntry)
  <2>1. e.kind # "reset" /\ e.kind # "storage" /\ Keeps(stateObjects, e, stateObjects)
    BY <1>3 DEF Keeps, Replaces, PlainKinds
  <2>. QED BY <1>2, <1>3, <2>1, ObjectsGrow, AppendProperties, Zenon
<1>4. ASSUME NEW e \in JournalEntry, e.kind \in PlainKinds, journal' = Append(journal, e)
      PROVE  Objects(stateObjects', journal')
  BY <1>1, <1>3, <1>4
<1>5. ASSUME NEW d \in LogData, AddLog(d) PROVE Objects(stateObjects', journal')
  <2>1. [kind |-> "log"] \in JournalEntry /\ [kind |-> "log"].kind \in PlainKinds
    BY DEF JournalEntry, addLogChange, PlainKinds
  <2>2. journal' = Append(journal, [kind |-> "log"])
    BY <1>5 DEF AddLog
  <2>. QED BY <1>4, <2>1, <2>2
<1>6. ASSUME NEW gas \in RefundGas, AddRefund(gas) \/ SubRefund(gas)
      PROVE  Objects(stateObjects', journal')
  <2>. DEFINE e == [kind |-> "refund", prev |-> refund]
  <2>1. refund \in Nat
    BY DEF TypeOK
  <2>2. e \in JournalEntry /\ e.kind \in PlainKinds
    BY <2>1 DEF JournalEntry, refundChange, PlainKinds
  <2>3. journal' = Append(journal, e)
    BY <1>6 DEF AddRefund, SubRefund
  <2>. HIDE DEF e
  <2>. QED BY <1>4, <2>2, <2>3
<1>7. ASSUME NEW a \in Addr
      PROVE  LET e == [kind |-> "listAccount", address |-> a]
             IN  e \in JournalEntry /\ e.kind \in PlainKinds
  BY DEF JournalEntry, accessListAddAccountChange, PlainKinds
<1>8. ASSUME NEW a \in WarmAddr, AddAddressToAccessList(a)
      PROVE  Objects(stateObjects', journal')
  BY <1>4, <1>7, <1>8, ConstantsAssumption DEF AddAddressToAccessList
<1>9. ASSUME NEW a \in WarmAddr, NEW k \in Slot, AddSlotToAccessList(a, k)
      PROVE  Objects(stateObjects', journal')
  <2>. DEFINE e == [kind |-> "listSlot", address |-> a, slot |-> k]
              f == [kind |-> "listAccount", address |-> a]
  <2>0. a \in Addr
    BY ConstantsAssumption
  <2>1. e \in JournalEntry /\ e.kind \in PlainKinds
    BY <2>0 DEF JournalEntry, accessListAddSlotChange, PlainKinds
  <2>2. f \in JournalEntry /\ f.kind \in PlainKinds
    BY <1>7, <2>0
  <2>3. journal' = Append(journal, e) \/ journal' = Append(Append(journal, f), e)
    BY <1>9 DEF AddSlotToAccessList
  <2>. HIDE DEF e, f
  <2>4. Objects(stateObjects, Append(journal, f)) /\ Append(journal, f) \in Seq(JournalEntry)
    BY <1>1, <1>3, <2>2
  <2>. QED BY <1>1, <1>3, <1>4, <2>1, <2>3, <2>4, Zenon
<1>. QED BY <1>5, <1>6, <1>8, <1>9 DEF PlainNext

\* The entry an iteration of journal.Revert undoes leaves sound objects, and the
\* slot whose old value it brings back has been read.
LEMMA UndoObjects ==
  ASSUME IInv, HistStep, Objects(stateObjects, journal), UndoEntry
  PROVE  Objects(stateObjects', journal')
<1>. DEFINE e == journal[Len(journal)]
            a == e.account
            o == stateObjects[a]
<1>1. /\ TypeOK /\ pc = "revert" /\ Len(journal) > validRevisions[target].journalIndex
      /\ stateObjects' = RevertObjects(e) /\ journal' = SubSeq(journal, 1, Len(journal) - 1)
  BY Zenon DEF IInv, UndoEntry
<1>2. TypeOK'
  BY UndoEntryStep DEF IInv
<1>3. /\ stateObjects \in ObjectMap /\ journal \in Seq(JournalEntry)
      /\ stateObjects' \in ObjectMap /\ journal' \in Seq(JournalEntry)
  BY <1>1, <1>2, Zenon DEF TypeOK, ObjectMap
<1>4. Len(journal) \in Nat \ {0} /\ e \in JournalEntry
  BY <1>1, NewestEntry, Zenon
<1>5. PICK n \in Nat : Len(journal) = n + 1
  <2>1. Len(journal) - 1 \in Nat /\ Len(journal) = (Len(journal) - 1) + 1
    BY <1>4
  <2>. QED BY <2>1, Zenon
<1>6. Len(journal') = n /\ \A i \in 1 .. n : journal'[i] = journal[i]
  BY <1>1, <1>3, <1>5
<1>7. e.kind \in ObjectKinds => a \in Addr /\ o # Nil /\ o \in stateObject /\ getStateObject(a) = o
  <2>1. e.kind \in ObjectKinds => a \in Addr /\ dirties[a] > 0
    BY <1>1, <1>4, EntriesUndo, EntryFields, Zenon DEF EntryUndoable
  <2>2. \A b \in Addr : dirties[b] > 0 => stateObjects[b] # Nil
    BY <1>1, Zenon DEF IInv
  <2>. QED BY <1>3, <2>1, <2>2 DEF ObjectMap, getStateObject
<1>8. AllSound(stateObjects) /\ e = journal[n + 1]
  BY <1>5, Zenon DEF Objects
<1>9. ASSUME NEW p \in stateObject, a \in Addr, o # Nil, Sound(a, p), ReadsMore(p, o),
             e.kind \in ObjectKinds, stateObjects' = [stateObjects EXCEPT ![a] = p]
      PROVE  Objects(stateObjects', journal')
  <2>1. p # Nil /\ \A b \in Addr : stateObjects'[b] = IF b = a THEN p ELSE stateObjects[b]
    BY <1>3, <1>9, NilAssumption DEF ObjectMap
  <2>2. AllSound(stateObjects')
    BY <1>8, <1>9, <2>1, Zenon DEF AllSound
  <2>3. e.kind # "reset"
    BY <1>9 DEF ObjectKinds
  <2>4. Restores(stateObjects, e, stateObjects')
    BY <1>9, <2>1, <2>3, Zenon DEF Restores, HasRead, ReadsMore
  <2>. QED BY <1>3, <1>5, <1>6, <1>8, <2>2, <2>4, ObjectsShrink, Zenon
<1>10. CASE e.kind \in ObjectKinds
  <2>. DEFINE Set(p) == [stateObjects EXCEPT ![a] = p]
  <2>0. Sound(a, o) /\ e.kind \notin {"create", "reset"} /\ ~Fresh(a)
    BY <1>7, <1>8, <1>10 DEF AllSound, ObjectKinds, Fresh
  <2>1. CASE e.kind = "suicide"
    <3>1. stateObjects' = Set([o EXCEPT !.suicided = e.prev, !.balance = e.prevbalance])
      BY <1>1, <1>7, <1>10, <2>0, <2>1, Zenon DEF RevertObjects
    <3>2. e.prev \in BOOLEAN /\ e.prevbalance \in Nat
      BY <1>4, <2>1, EntryFields
    <3>3. [o EXCEPT !.suicided = e.prev, !.balance = e.prevbalance] \in stateObject
      BY <1>7, <1>10, <3>2, Zenon DEF stateObject
    <3>. QED BY <1>1, <1>7, <1>9, <1>10, <2>0, <3>1, <3>2, <3>3, SettersSound, Zenon
  <2>2. CASE e.kind = "balance"
    <3>1. stateObjects' = Set([o EXCEPT !.balance = e.prev])
      BY <1>1, <1>7, <1>10, <2>0, <2>2, Zenon DEF RevertObjects
    <3>2. e.prev \in Nat
      BY <1>4, <2>2, EntryFields
    <3>3. [o EXCEPT !.balance = e.prev] \in stateObject
      BY <1>7, <1>10, <3>2 DEF stateObject
    <3>. QED BY <1>1, <1>7, <1>9, <1>10, <2>0, <3>1, <3>2, <3>3, SettersSound, Zenon
  <2>3. CASE e.kind = "nonce"
    <3>1. stateObjects' = Set([o EXCEPT !.nonce = e.prev])
      BY <1>1, <1>7, <1>10, <2>0, <2>3, Zenon DEF RevertObjects
    <3>2. e.prev \in Nat
      BY <1>4, <2>3, EntryFields
    <3>3. [o EXCEPT !.nonce = e.prev] \in stateObject
      BY <1>7, <1>10, <3>2 DEF stateObject
    <3>. QED BY <1>1, <1>7, <1>9, <1>10, <2>0, <3>1, <3>2, <3>3, SettersSound, Zenon
  <2>4. CASE e.kind = "code"
    <3>1. stateObjects' = Set(setCode(o, e.prevcode))
      BY <1>1, <1>7, <1>10, <2>0, <2>4, Zenon DEF RevertObjects
    <3>2. e.prevcode \in Code
      BY <1>4, <2>4, EntryFields
    <3>3. setCode(o, e.prevcode) \in stateObject
      BY <1>1, <1>7, <1>10, <3>2, FieldUndone, Zenon
    <3>. QED BY <1>1, <1>7, <1>9, <1>10, <2>0, <3>1, <3>2, <3>3, SettersSound, Zenon
  <2>5. CASE e.kind = "storage"
    <3>1. stateObjects' = Set([o EXCEPT !.dirtyStorage[e.key] = e.prevalue])
      BY <1>1, <1>7, <1>10, <2>0, <2>5, Zenon DEF RevertObjects
    <3>2. e.key \in Slot /\ e.prevalue \in Val
      BY <1>4, <2>5, EntryFields
    <3>3. [o EXCEPT !.dirtyStorage[e.key] = e.prevalue] \in stateObject
      BY <1>1, <1>7, <1>10, <3>2, FieldUndone, Zenon
    <3>4. Read(stateObjects, journal, n + 1, a, e.key)
      BY <1>5, <2>5 DEF Objects
    <3>5. \A j \in (n + 1) + 1 .. Len(journal) : FALSE
      BY <1>5
    <3>6. o.originStorage[e.key] # Unset
      BY <3>4, <3>5, Zenon DEF Read, HasRead
    <3>. QED BY <1>1, <1>7, <1>9, <1>10, <2>0, <3>1, <3>2, <3>3, <3>6, SettersSound, Zenon
  <2>. QED BY <1>10, <2>1, <2>2, <2>3, <2>4, <2>5 DEF ObjectKinds
<1>11. CASE e.kind \in {"create", "reset"}
  <2>. DEFINE p == IF e.kind = "create" THEN Nil ELSE e.prev
  <2>1. stateObjects' = [stateObjects EXCEPT ![a] = p] /\ a \in Addr
    BY <1>1, <1>4, <1>11, EntryFields, Zenon DEF RevertObjects
  <2>2. e.kind = "reset" => e.prev # Nil /\ Sound(a, e.prev)
    <3>1. e.kind = "reset" => e.prev \in stateObject
      BY <1>4, EntryFields, Zenon
    <3>2. e.kind = "reset" => Sound(a, e.prev)
      BY <1>5, <1>8, Positions, Zenon DEF Objects
    <3>. QED BY <3>1, <3>2, NilAssumption, Zenon
  <2>3. \A b \in Addr : stateObjects'[b] = IF b = a THEN p ELSE stateObjects[b]
    BY <1>3, <2>1 DEF ObjectMap
  <2>4. AllSound(stateObjects')
    BY <1>8, <1>11, <2>2, <2>3, Zenon DEF AllSound
  <2>5. \A b \in Addr : ~Replaces(e, b) => stateObjects'[b] = stateObjects[b]
    BY <1>11, <2>3, Zenon DEF Replaces
  <2>6. e.kind = "reset" => stateObjects'[a] = e.prev
    BY <2>1, <2>3
  <2>7. Restores(stateObjects, e, stateObjects')
    BY <2>2, <2>5, <2>6, Zenon DEF Restores, HasRead
  <2>. QED BY <1>3, <1>5, <1>6, <1>8, <2>4, <2>7, ObjectsShrink, Zenon
<1>12. CASE e.kind \notin ObjectKinds \cup {"create", "reset"}
  <2>1. stateObjects' = stateObjects
    BY <1>1, <1>12 DEF RevertObjects, ObjectKinds
  <2>2. Restores(stateObjects, e, stateObjects')
    BY <1>12, <2>1, Zenon DEF Restores
  <2>. QED BY <1>3, <1>5, <1>6, <1>8, <2>1, <2>2, ObjectsShrink, Zenon
<1>. QED BY <1>10, <1>11, <1>12
==============================================================================
