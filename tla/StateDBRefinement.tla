------------------------- MODULE StateDBRefinement -------------------------
(* The StateDB, with its journal, caches and dirty marks, implements         *)
(* StateDBSpec.                                                              *)
EXTENDS StateDBHistory

Warm(addrs) == {a \in Addr : addrs[a] # Absent}

WarmSlots(addrs, sets) ==
  {p \in Addr \X Slot : addrs[p[1]] \in DOMAIN sets /\ p[2] \in sets[addrs[p[1]]]}

AbstractWorld(w) ==
  [view |-> w.view, refund |-> w.refund, logs |-> w.logs,
   warm |-> Warm(w.addresses), warmSlots |-> WarmSlots(w.addresses, w.slots)]

BaseView(a) ==
  IF base[1][a] = Nil THEN Nil
  ELSE [nonce |-> base[1][a].nonce, balance |-> base[1][a].balance,
        code |-> base[1][a].code, suicided |-> FALSE, storage |-> base[2][a]]

\* The revert is the step that starts the loop, the commit the one that ends it.
AbsWorld ==
  AbstractWorld(CASE pc = "run" -> World
                  [] pc = "revert" -> marks[target]
                  [] OTHER -> final)

Copies(m, n) == [r \in 1 .. n |-> AbstractWorld(m[r])]

AbsSaved == Copies(marks, IF pc = "revert" THEN target - 1 ELSE Len(validRevisions))

AbsStored == [a \in Addr |-> IF pc = "commit" THEN BaseView(a) ELSE StoreView(a)]

Abs == INSTANCE StateDBSpec WITH
  world <- AbsWorld, saved <- AbsSaved, stored <- AbsStored, over <- pc \in {"done", "failed"}

\* The StateDB with its journal, caches and dirty marks does what StateDBSpec
\* says: snapshots behave as copies of the world, reads are invisible, Commit is
\* all of the world or nothing.
ImplementsStateDBSpec == Abs!Spec
==============================================================================
