------------------------- MODULE ObjectAtomicProofs -------------------------
(***************************************************************************)
(* Theorems about object::atomic, for any finite set of threads, any set   *)
(* of objects and any number of operations: its lock, its parking, its     *)
(* reference counts, and that it is an atomic cell.                        *)
(***************************************************************************)
EXTENDS ObjectAtomic, FiniteSetTheorems, TLAPS

(* The types the lock depends on.  Those of the reference counts are left    *)
(* out: that they never fall below zero needs RefsExact.                     *)
Shape ==
  /\ storage \in Word
  /\ pc \in [Threads -> Labels] /\ op \in [Threads -> Kinds]
  /\ seen \in [Threads -> Word]
  /\ mine \in [Threads -> Handles] /\ desired \in [Threads -> Handles]
  /\ obj \in [Threads -> Handles]

LEMMA ShapeInit == Init => Shape
BY DEF Init, Shape, Word, Handles, Bits, Labels, Kinds, Unread

(* The variables of one operation get handles.                               *)
LEMMA OutcomeType ==
  ASSUME Shape, NEW t \in Threads, op[t] # "none"
  PROVE  /\ Final(t) \in Handles
         /\ Outcome(t)[1] \in Handles /\ Outcome(t)[2] \in Handles /\ Outcome(t)[3] \in Handles
<1> USE DEF Shape, Word, Kinds
<1>1. CASE op[t] \in {"load", "exchange", "store", "set"}
  BY <1>1 DEF Final, Outcome, Handles
<1>2. CASE op[t] = "compare"
  BY <1>2 DEF Final, Outcome, Handles
<1> QED
  BY <1>1, <1>2

(* Outside idle a thread has an operation.                                   *)
Busy == \A t \in Threads : pc[t] # "idle" => op[t] # "none"

LEMMA ShapeInductive == Shape /\ Busy /\ [Next]_vars => (Shape /\ Busy)'
<1> SUFFICES ASSUME Shape, Busy, [Next]_vars PROVE (Shape /\ Busy)'
  OBVIOUS
<1> USE DEF Go, Become, At, Handles
<1>1. ASSUME NEW t \in Threads, New(t) PROVE (Shape /\ Busy)'
  BY <1>1 DEF New, Shape, Busy
<1>2. ASSUME NEW t \in Threads, NEW k \in Kinds \ {"none"}, Start(t, k),
             mine' = mine, desired' \in [Threads -> Handles]
      PROVE  (Shape /\ Busy)'
  BY <1>2 DEF Start, Shape, Busy, Labels, Kinds
<1>3. ASSUME NEW t \in Threads, StartOne(t) \/ StartStore(t) \/ StartCompare(t)
      PROVE  (Shape /\ Busy)'
  <2>1. CASE StartOne(t)
    <3>1. PICK k \in {"load", "exchange", "set"} : Start(t, k)
      BY <2>1 DEF StartOne
    <3> QED
      BY <1>2, <2>1, <3>1 DEF StartOne, Kinds, Shape
  <2>2. CASE StartStore(t)
    BY <1>2, <2>2 DEF StartStore, Kinds, Shape
  <2>3. CASE StartCompare(t)
    BY <1>2, <2>3 DEF StartCompare, Kinds, Shape
  <2> QED
    BY <1>3, <2>1, <2>2, <2>3
<1>4. ASSUME NEW t \in Threads, Step(t) PROVE (Shape /\ Busy)'
  <2>1. CASE TryLock(t)
    <3>1. CASE Swapped(t) /\ ~Reread(t)
      <4>1. /\ pc' = [pc EXCEPT ![t] = "locked"]
            /\ storage' = [storage EXCEPT !.bits = "locked"]
            /\ obj' = [obj EXCEPT ![t] = seen[t].ptr]
            /\ seen' = [seen EXCEPT ![t] = Unread]
            /\ UNCHANGED <<op, mine, desired>>
        BY <2>1, <3>1 DEF TryLock
      <4>2. seen[t].ptr \in Handles /\ Unread \in Word
        BY DEF Shape, Word, Unread, Bits
      <4>3. storage' \in Word
        BY <4>1 DEF Shape, Word, Bits
      <4>4. pc[t] = "lock" /\ op[t] # "none"
        BY <2>1 DEF TryLock, Busy
      <4>5. Shape'
        BY <4>1, <4>2, <4>3 DEF Shape, Labels
      <4>6. Busy'
        BY <4>1, <4>4 DEF Shape, Busy
      <4> QED
        BY <4>5, <4>6
    <3>2. CASE Reread(t)
      <4>1. UNCHANGED <<storage, pc, obj, op, mine, desired>> /\ seen' = [seen EXCEPT ![t] = storage]
        BY <2>1, <3>2 DEF TryLock, Swapped, Reread
      <4>2. Shape'
        BY <4>1 DEF Shape
      <4>3. Busy'
        BY <4>1 DEF Busy
      <4> QED
        BY <4>2, <4>3
    <3> QED
      BY <2>1, <3>1, <3>2 DEF TryLock, Swapped, Reread
  <2>2. CASE TryWait(t)
    BY <2>2 DEF TryWait, Swapped, Reread, local, Shape, Busy, Word, Bits, Labels
  <2>3. CASE Wait(t)
    BY <2>3 DEF Wait, Swapped, Reread, local, Shape, Busy, Labels
  <2>4. CASE Locked(t)
    BY <2>4 DEF Locked, Shape, Busy, Word, Labels
  <2>5. CASE StoreAndUnlock(t)
    BY <2>5, OutcomeType DEF StoreAndUnlock, Shape, Busy, Word, Bits, Labels
  <2>6. CASE Notify(t)
    BY <2>6 DEF Notify, local, Shape, Busy, Labels
  <2>7. CASE DropLocals(t)
    BY <2>7 DEF DropLocals, Shape, Busy, Labels, Kinds
  <2> QED
    BY <1>4, <2>1, <2>2, <2>3, <2>4, <2>5, <2>6, <2>7 DEF Step
<1>5. ASSUME NEW t \in Threads, TryLockOnce(t) PROVE (Shape /\ Busy)'
  <2>1. storage.ptr \in Handles /\ storage' \in Word
    BY <1>5 DEF TryLockOnce, Shape, Word, Bits
  <2>2. PICK k \in {"load", "set"} : op' = [op EXCEPT ![t] = k]
    BY <1>5 DEF TryLockOnce
  <2> QED
    BY <1>5, <2>1, <2>2 DEF TryLockOnce, Shape, Busy, Labels, Kinds
<1>6. CASE Finished \/ UNCHANGED vars
  BY <1>6 DEF Finished, vars, local, Shape, Busy
<1> QED
  BY <1>1, <1>3, <1>4, <1>5, <1>6 DEF Next

----------------------------------------------------------------------------
(* Steps that leave the lock alone.                                          *)

LEMMA LockFrame ==
  ASSUME MutualExclusion, storage'.bits = storage.bits,
         \A t \in Threads : Holding(t)' = Holding(t)
  PROVE  MutualExclusion'
BY DEF MutualExclusion

LEMMA MutexInductive == Shape /\ MutualExclusion /\ [Next]_vars => MutualExclusion'
<1> SUFFICES ASSUME Shape, MutualExclusion, [Next]_vars PROVE MutualExclusion'
  OBVIOUS
<1> USE DEF Go, Become, At, Shape
<1>1. ASSUME NEW t \in Threads,
             New(t) \/ StartOne(t) \/ StartStore(t) \/ StartCompare(t)
      PROVE  MutualExclusion'
  <2>1. storage' = storage /\ \A u \in Threads : Holding(u)' = Holding(u)
    BY <1>1 DEF New, StartOne, StartStore, StartCompare, Start, Holding
  <2> QED
    BY <2>1, LockFrame
<1>2. ASSUME NEW t \in Threads, Step(t) PROVE MutualExclusion'
  <2>1. CASE TryLock(t)
    <3>1. CASE Swapped(t)
      <4>1. storage.bits = "free" /\ \A u \in Threads : ~Holding(u)
        BY <2>1, <3>1 DEF TryLock, Swapped, MutualExclusion
      <4>2. storage'.bits = "locked" /\ pc' = [pc EXCEPT ![t] = "locked"]
        BY <2>1, <3>1 DEF TryLock, Swapped, Reread, Word
      <4> QED
        BY <4>1, <4>2 DEF MutualExclusion, Holding
    <3>2. CASE ~Swapped(t)
      BY <2>1, <3>2, LockFrame DEF TryLock, Holding
    <3> QED
      BY <3>1, <3>2
  <2>2. CASE TryWait(t)
    <3>1. (storage.bits = "free") = (storage'.bits = "free")
      BY <2>2 DEF TryWait, Swapped, Word
    <3>2. pc' = pc
      BY <2>2 DEF TryWait
    <3> QED
      BY <3>1, <3>2 DEF MutualExclusion, Holding
  <2>3. CASE Wait(t)
    BY <2>3, LockFrame DEF Wait, Holding
  <2>4. CASE Locked(t)
    <3>1. storage'.bits = storage.bits
      BY <2>4 DEF Locked, Word
    <3>2. \A u \in Threads : Holding(u)' = Holding(u)
      BY <2>4 DEF Locked, Holding
    <3> QED
      BY <3>1, <3>2, LockFrame
  <2>5. CASE StoreAndUnlock(t)
    <3>1. storage'.bits = "free"
      BY <2>5 DEF StoreAndUnlock
    <3>2. \A u \in Threads : Holding(u) => u = t
      BY <2>5 DEF StoreAndUnlock, MutualExclusion, Holding
    <3>3. \A u \in Threads : ~Holding(u)'
      BY <2>5, <3>2 DEF StoreAndUnlock, Holding
    <3> QED
      BY <3>1, <3>3 DEF MutualExclusion
  <2>6. CASE Notify(t)
    BY <2>6, LockFrame DEF Notify, Holding
  <2>7. CASE DropLocals(t)
    BY <2>7, LockFrame DEF DropLocals, Holding
  <2> QED
    BY <1>2, <2>1, <2>2, <2>3, <2>4, <2>5, <2>6, <2>7 DEF Step
<1>3. ASSUME NEW t \in Threads, TryLockOnce(t) PROVE MutualExclusion'
  <2>1. \A u \in Threads : ~Holding(u)
    BY <1>3 DEF TryLockOnce, MutualExclusion
  <2>2. storage'.bits = "locked" /\ pc' = [pc EXCEPT ![t] = "locked"]
    BY <1>3 DEF TryLockOnce, Word
  <2> QED
    BY <2>1, <2>2 DEF MutualExclusion, Holding
<1>4. CASE Finished \/ UNCHANGED vars
  BY <1>4, LockFrame DEF Finished, vars, Holding
<1> QED
  BY <1>1, <1>2, <1>3, <1>4 DEF Next

(* One thread at a time is between the compare-and-swap that sets the lock   *)
(* bit and the exchange that clears it, and the bits of the word are set     *)
(* exactly while there is one: however many threads contend, park and wake.  *)
THEOREM LockExcludes == Spec => []MutualExclusion
<1>1. Init => Shape /\ Busy /\ MutualExclusion
  <2> SUFFICES ASSUME Init PROVE Busy /\ MutualExclusion
    BY ShapeInit
  <2>1. \A t \in Threads : pc[t] = "idle" /\ ~Holding(t)
    BY DEF Init, Holding
  <2>2. storage.bits = "free"
    BY DEF Init
  <2> QED
    BY <2>1, <2>2 DEF Busy, MutualExclusion
<1>2. Shape /\ Busy /\ MutualExclusion /\ [Next]_vars => (Shape /\ Busy /\ MutualExclusion)'
  BY ShapeInductive, MutexInductive
<1> QED
  BY <1>1, <1>2, PTL DEF Spec

----------------------------------------------------------------------------
(* Parking.                                                                  *)

LEMMA WakeInductive == Shape /\ NoMissedWakeup /\ [Next]_vars => NoMissedWakeup'
<1> SUFFICES ASSUME Shape, NoMissedWakeup, [Next]_vars PROVE NoMissedWakeup'
  OBVIOUS
<1> USE DEF Go, Become, At, Shape
(* A step after which the same threads sleep and notify keeps the property   *)
(* unless it clears the flag.                                                *)
<1>f. ASSUME storage.bits = "waiting" => storage'.bits = "waiting",
             \A u \in Threads : pc'[u] = "asleep" => pc[u] = "asleep",
             \A u \in Threads : pc[u] = "notify" => pc'[u] = "notify"
      PROVE  NoMissedWakeup'
  BY <1>f DEF NoMissedWakeup
<1>1. ASSUME NEW t \in Threads,
             New(t) \/ StartOne(t) \/ StartStore(t) \/ StartCompare(t)
      PROVE  NoMissedWakeup'
  BY <1>1, <1>f DEF New, StartOne, StartStore, StartCompare, Start
<1>2. ASSUME NEW t \in Threads, Step(t) PROVE NoMissedWakeup'
  <2>1. CASE TryLock(t)
    BY <2>1, <1>f DEF TryLock, Swapped, Reread
  <2>2. CASE TryWait(t)
    BY <2>2, <1>f DEF TryWait, Swapped, Reread, Word
  <2>3. CASE Wait(t)
    <3>1. CASE Swapped(t)
      BY <2>3, <3>1 DEF Wait, Swapped, NoMissedWakeup
    <3>2. CASE ~Swapped(t)
      BY <2>3, <3>2, <1>f DEF Wait
    <3> QED
      BY <3>1, <3>2
  <2>4. CASE Locked(t)
    <3>1. storage'.bits = storage.bits
      BY <2>4 DEF Locked, Word
    <3> QED
      BY <2>4, <3>1, <1>f DEF Locked
  <2>5. CASE StoreAndUnlock(t)
    <3>1. CASE storage.bits = "waiting"
      BY <2>5, <3>1 DEF StoreAndUnlock, NoMissedWakeup
    <3>2. CASE storage.bits # "waiting"
      BY <2>5, <3>2, <1>f DEF StoreAndUnlock
    <3> QED
      BY <3>1, <3>2
  <2>6. CASE Notify(t)
    <3>1. \A u \in Threads : pc'[u] # "asleep"
      BY <2>6 DEF Notify
    <3> QED
      BY <3>1 DEF NoMissedWakeup
  <2>7. CASE DropLocals(t)
    BY <2>7, <1>f DEF DropLocals
  <2> QED
    BY <1>2, <2>1, <2>2, <2>3, <2>4, <2>5, <2>6, <2>7 DEF Step
<1>3. ASSUME NEW t \in Threads, TryLockOnce(t) PROVE NoMissedWakeup'
  BY <1>3, <1>f DEF TryLockOnce
<1>4. CASE Finished \/ UNCHANGED vars
  BY <1>4, <1>f DEF Finished, vars
<1> QED
  BY <1>1, <1>2, <1>3, <1>4 DEF Next

(* No thread sleeps in atomic::wait() without the waiting flag in the word   *)
(* or a notify_all() still to come, so the last unlock wakes everybody.      *)
THEOREM SleepersWoken == Spec => []NoMissedWakeup
<1>1. Init => Shape /\ Busy /\ NoMissedWakeup
  <2>1. Init => Busy /\ NoMissedWakeup
    BY DEF Init, Busy, NoMissedWakeup, At
  <2> QED
    BY <2>1, ShapeInit
<1>2. Shape /\ Busy /\ NoMissedWakeup /\ [Next]_vars => (Shape /\ Busy /\ NoMissedWakeup)'
  BY ShapeInductive, WakeInductive
<1> QED
  BY <1>1, <1>2, PTL DEF Spec

----------------------------------------------------------------------------
(* What the variables of a thread hold at each statement.                    *)

Local(t) ==
  /\ pc[t] = "idle" <=> op[t] = "none"
  /\ pc[t] \in {"idle", "lock", "asleep"} => obj[t] = Null
  /\ op[t] \notin {"store", "compare"} => desired[t] = Null
  /\ Holding(t) => obj[t] = IF pc[t] = "unlock" /\ op[t] = "set" THEN Null ELSE storage.ptr

LocalOK == \A t \in Threads : Local(t)

(* A step of one thread that may only replace the pointer while it holds the *)
(* lock, or when nobody does.                                                *)
LEMMA LocalStep ==
  ASSUME LocalOK, NEW t \in Threads, Local(t)',
         \A u \in Threads \ {t} :
           op'[u] = op[u] /\ obj'[u] = obj[u] /\ desired'[u] = desired[u] /\ pc'[u] = pc[u],
         storage'.ptr = storage.ptr \/ \A u \in Threads \ {t} : ~Holding(u)
  PROVE  LocalOK'
BY DEF LocalOK, Local, Holding

LEMMA LocalInductive ==
  Shape /\ MutualExclusion /\ LocalOK /\ [Next]_vars => LocalOK'
<1> SUFFICES ASSUME Shape, MutualExclusion, LocalOK, [Next]_vars PROVE LocalOK'
  OBVIOUS
<1> USE DEF Go, Become, At, Shape
<1>1. ASSUME NEW t \in Threads, New(t) PROVE LocalOK'
  BY <1>1 DEF New, LocalOK, Local, Holding
<1>2. ASSUME NEW t \in Threads, StartOne(t) \/ StartStore(t) \/ StartCompare(t) PROVE LocalOK'
  <2>1. PICK k \in Kinds \ {"none"} :
          /\ Start(t, k)
          /\ k \notin {"store", "compare"} => desired' = desired
    BY <1>2 DEF StartOne, StartStore, StartCompare, Kinds
  <2>2. /\ \A u \in Threads \ {t} :
             op'[u] = op[u] /\ obj'[u] = obj[u] /\ desired'[u] = desired[u] /\ pc'[u] = pc[u]
        /\ pc[t] = "idle" /\ storage' = storage
    BY <1>2, <2>1 DEF StartOne, StartStore, StartCompare, Start
  <2>3. Local(t)'
    <3>1. obj[t] = Null /\ desired[t] = Null
      BY <2>2 DEF LocalOK, Local
    <3>2. pc'[t] = "lock" /\ op'[t] = k /\ obj'[t] = Null
      BY <2>1, <3>1 DEF Start
    <3>3. CASE k \notin {"store", "compare"}
      BY <2>1, <3>1, <3>2, <3>3 DEF Local, Holding
    <3>4. CASE k \in {"store", "compare"}
      BY <2>1, <3>2, <3>4 DEF Local, Holding
    <3> QED
      BY <3>3, <3>4
  <2> QED
    BY <2>2, <2>3, LocalStep
<1>3. ASSUME NEW t \in Threads, Step(t) PROVE LocalOK'
  <2>1. CASE TryLock(t)
    <3>1. storage'.ptr = storage.ptr
      BY <2>1 DEF TryLock, Reread, Word
    <3> QED
      BY <2>1, <3>1 DEF TryLock, Swapped, Reread, LocalOK, Local, Holding
  <2>2. CASE TryWait(t)
    <3>1. storage'.ptr = storage.ptr
      BY <2>2 DEF TryWait, Reread, Word
    <3> QED
      BY <2>2, <3>1 DEF TryWait, local, LocalOK, Local, Holding
  <2>3. CASE Wait(t)
    BY <2>3 DEF Wait, local, LocalOK, Local, Holding
  <2>4. CASE Locked(t)
    <3>1. \A u \in Threads \ {t} : ~Holding(u)
      BY <2>4 DEF Locked, MutualExclusion, Holding
    <3>2. /\ obj[t] = storage.ptr /\ pc'[t] = "unlock" /\ op' = op /\ desired' = desired
          /\ op[t] # "none" /\ (op[t] \notin {"store", "compare"} => desired[t] = Null)
      BY <2>4 DEF Locked, LocalOK, Local, Holding
    <3>3. obj'[t] = IF op[t] = "set" THEN Null ELSE storage'.ptr
      BY <2>4, <3>2 DEF Locked, Shares
    <3>4. Local(t)'
      BY <3>2, <3>3 DEF Local, Holding
    <3> QED
      BY <2>4, <3>1, <3>4, LocalStep DEF Locked
  <2>5. CASE StoreAndUnlock(t)
    <3>1. \A u \in Threads \ {t} : ~Holding(u)
      BY <2>5 DEF StoreAndUnlock, MutualExclusion, Holding
    <3>2. /\ pc[t] = "unlock" /\ pc'[t] \in {"notify", "drop"} /\ op' = op
          /\ desired'[t] = Outcome(t)[3] /\ op[t] # "none"
      BY <2>5 DEF StoreAndUnlock, LocalOK, Local
    <3>3. op[t] \notin {"store", "compare"} => Outcome(t)[3] = Null
      BY <3>2 DEF Outcome, Kinds
    <3>4. Local(t)'
      BY <3>2, <3>3 DEF Local, Holding
    <3> QED
      BY <2>5, <3>1, <3>4, LocalStep DEF StoreAndUnlock
  <2>6. CASE Notify(t)
    BY <2>6 DEF Notify, local, LocalOK, Local, Holding
  <2>7. CASE DropLocals(t)
    BY <2>7 DEF DropLocals, LocalOK, Local, Holding
  <2> QED
    BY <1>3, <2>1, <2>2, <2>3, <2>4, <2>5, <2>6, <2>7 DEF Step
<1>4. ASSUME NEW t \in Threads, TryLockOnce(t) PROVE LocalOK'
  <2>1. storage'.ptr = storage.ptr
    BY <1>4 DEF TryLockOnce, Word
  <2> QED
    BY <1>4, <2>1 DEF TryLockOnce, LocalOK, Local, Holding
<1>5. CASE Finished \/ UNCHANGED vars
  BY <1>5 DEF Finished, vars, local, LocalOK, Local, Holding
<1> QED
  BY <1>1, <1>2, <1>3, <1>4, <1>5 DEF Next

LEMMA LocalInvariant == Spec => [](Shape /\ Busy /\ MutualExclusion /\ LocalOK)
<1>1. Init => LocalOK
  BY DEF Init, LocalOK, Local, Holding
<1>2. Init => Shape /\ Busy
  BY ShapeInit DEF Init, Busy
<1> QED
  BY <1>1, <1>2, LockExcludes, ShapeInductive, LocalInductive, PTL DEF Spec

----------------------------------------------------------------------------
(* Reference counts.                                                         *)

Count(f, o) == Cardinality({t \in Threads : f[t] = o})

CountMoves(f, g, o, t) ==
  /\ Count(f, o) \in Nat /\ Count(g, o) \in Nat
  /\ Count(g, o) + Bit(f[t] = o) = Count(f, o) + Bit(g[t] = o)

(* When one of the handles in f changes, so does their count.                *)
LEMMA CountStep ==
  ASSUME NEW f, NEW g, NEW o, NEW t \in Threads, \A u \in Threads \ {t} : g[u] = f[u]
  PROVE  CountMoves(f, g, o, t)
<1> DEFINE Rest == {u \in Threads \ {t} : f[u] = o}
           F == {u \in Threads : f[u] = o}
           G == {u \in Threads : g[u] = o}
<1>1. IsFiniteSet(Rest)
  BY AtomicAssumption, FS_Subset
<1>2. t \notin Rest /\ Cardinality(Rest) \in Nat /\ Cardinality(Rest \cup {t}) = Cardinality(Rest) + 1
  BY <1>1, FS_CardinalityType, FS_AddElement
<1>3. F = (IF f[t] = o THEN Rest \cup {t} ELSE Rest) /\ G = (IF g[t] = o THEN Rest \cup {t} ELSE Rest)
  OBVIOUS
<1>4. Cardinality(F) = Cardinality(Rest) + Bit(f[t] = o)
  BY <1>2, <1>3 DEF Bit
<1>5. Cardinality(G) = Cardinality(Rest) + Bit(g[t] = o)
  BY <1>2, <1>3 DEF Bit
<1> HIDE DEF F, G, Rest
<1>6. Count(f, o) = Cardinality(F) /\ Count(g, o) = Cardinality(G)
  BY DEF F, G, Count
<1> QED
  BY <1>2, <1>4, <1>5, <1>6 DEF Bit, CountMoves

InWord(o) == storage.ptr = o /\ ~Borrowed(o)
Locals(t, o) == Bit(mine[t] = o) + Bit(desired[t] = o) + Bit(obj[t] = o)

LEMMA OwnersAre ==
  ASSUME NEW o
  PROVE  /\ Owners(o) = Count(mine, o) + Count(desired, o) + Count(obj, o) + Bit(InWord(o))
         /\ Owners(o)' = Count(mine', o) + Count(desired', o) + Count(obj', o) + Bit(InWord(o)')
BY DEF Owners, Count, InWord

(* Only what one thread and the word hold changes, and the count with it.    *)
LEMMA RefsStep ==
  ASSUME RefsExact, NEW o \in Objects, NEW t \in Threads,
         \A u \in Threads \ {t} :
           mine'[u] = mine[u] /\ desired'[u] = desired[u] /\ obj'[u] = obj[u],
         refs[o] \in Int =>
           refs'[o] + Locals(t, o) + Bit(InWord(o)) = refs[o] + Locals(t, o)' + Bit(InWord(o)')
           /\ refs'[o] \in Int
  PROVE  refs'[o] = Owners(o)'
<1>1. CountMoves(mine, mine', o, t)
  BY CountStep
<1>2. CountMoves(desired, desired', o, t)
  BY CountStep
<1>3. CountMoves(obj, obj', o, t)
  BY CountStep
<1>4. refs[o] = Count(mine, o) + Count(desired, o) + Count(obj, o) + Bit(InWord(o))
  BY OwnersAre DEF RefsExact
<1>5. \A b : Bit(b) \in {0, 1}
  BY DEF Bit
<1> DEFINE m == Count(mine, o)      m1 == Count(mine', o)
           d == Count(desired, o)   d1 == Count(desired', o)
           j == Count(obj, o)       j1 == Count(obj', o)
           bm == Bit(mine[t] = o)   bm1 == Bit(mine'[t] = o)
           bd == Bit(desired[t] = o)  bd1 == Bit(desired'[t] = o)
           bj == Bit(obj[t] = o)    bj1 == Bit(obj'[t] = o)
           w == Bit(InWord(o))      w1 == Bit(InWord(o)')
<1>6. /\ m \in Nat /\ m1 \in Nat /\ d \in Nat /\ d1 \in Nat /\ j \in Nat /\ j1 \in Nat
      /\ bm \in Int /\ bm1 \in Int /\ bd \in Int /\ bd1 \in Int /\ bj \in Int /\ bj1 \in Int
      /\ w \in Int /\ w1 \in Int
      /\ m1 + bm = m + bm1 /\ d1 + bd = d + bd1 /\ j1 + bj = j + bj1
      /\ refs[o] = m + d + j + w
  BY <1>1, <1>2, <1>3, <1>4, <1>5 DEF CountMoves
<1>7. refs'[o] + (bm + bd + bj) + w = refs[o] + (bm1 + bd1 + bj1) + w1 /\ refs'[o] \in Int
  <2>1. refs[o] \in Int
    BY <1>6
  <2> QED
    BY <2>1 DEF Locals
<1>8. Owners(o)' = m1 + d1 + j1 + w1
  BY OwnersAre
<1> HIDE DEF m, m1, d, d1, j, j1, bm, bm1, bd, bd1, bj, bj1, w, w1
<1> QED
  BY <1>6, <1>7, <1>8

(* Whether the reference of the word is lent to the handle in obj[t].        *)
Lends(t) == pc[t] = "locked" \/ (pc[t] = "unlock" /\ ~Shares(t) /\ op[t] # "set")

LEMMA WordFree ==
  ASSUME NEW o
  PROVE  /\ (\A u \in Threads : ~Holding(u)) => (InWord(o) <=> storage.ptr = o)
         /\ (\A u \in Threads : ~Holding(u)') => (InWord(o)' <=> storage'.ptr = o)
BY DEF InWord, Borrowed, Holding

LEMMA WordHeld ==
  ASSUME NEW t \in Threads, NEW o \in Objects
  PROVE  /\ LocalOK /\ MutualExclusion /\ Holding(t) =>
              (InWord(o) <=> storage.ptr = o /\ ~Lends(t))
         /\ (LocalOK /\ MutualExclusion /\ Holding(t))' =>
              (InWord(o)' <=> storage'.ptr = o /\ ~Lends(t)')
<1>1. o # Null
  BY AtomicAssumption
<1>2. ASSUME LocalOK, MutualExclusion, Holding(t)
      PROVE  InWord(o) <=> storage.ptr = o /\ ~Lends(t)
  <2>1. Borrowed(o) <=> obj[t] = o /\ (pc[t] = "locked" \/ (pc[t] = "unlock" /\ ~Shares(t)))
    BY <1>2 DEF Borrowed, MutualExclusion, Holding
  <2>2. obj[t] = IF pc[t] = "unlock" /\ op[t] = "set" THEN Null ELSE storage.ptr
    BY <1>2 DEF LocalOK, Local
  <2> QED
    BY <1>1, <2>1, <2>2 DEF InWord, Lends
<1>3. ASSUME LocalOK', MutualExclusion', Holding(t)'
      PROVE  InWord(o)' <=> storage'.ptr = o /\ ~Lends(t)'
  <2>1. Borrowed(o)' <=> obj'[t] = o /\ (pc'[t] = "locked" \/ (pc'[t] = "unlock" /\ ~Shares(t)'))
    BY <1>3 DEF Borrowed, MutualExclusion, Holding
  <2>2. obj'[t] = IF pc'[t] = "unlock" /\ op'[t] = "set" THEN Null ELSE storage'.ptr
    BY <1>3 DEF LocalOK, Local
  <2> QED
    BY <1>1, <2>1, <2>2 DEF InWord, Lends
<1> QED
  BY <1>2, <1>3

(* A step that leaves the word's pointer and the threads that hold alone.    *)
LEMMA WordSame ==
  ASSUME NEW o, storage'.ptr = storage.ptr,
         \A u \in Threads : Holding(u)' <=> Holding(u),
         \A u \in Threads : Holding(u) =>
           pc'[u] = pc[u] /\ op'[u] = op[u] /\ obj'[u] = obj[u] /\ mine'[u] = mine[u]
  PROVE  InWord(o)' <=> InWord(o)
BY DEF InWord, Borrowed, Holding, Shares

Exact == refs \in [Objects -> Nat] /\ RefsExact

LEMMA RefsInductive ==
  ASSUME Shape, MutualExclusion, LocalOK, Exact, [Next]_vars,
         Shape', MutualExclusion', LocalOK'
  PROVE  refs' \in [Objects -> Int] /\ RefsExact'
<1> USE DEF Go, Become, At
<1>0. refs \in [Objects -> Nat] /\ RefsExact /\ Null \notin Objects
  BY AtomicAssumption DEF Exact
<1>1. ASSUME NEW t \in Threads, New(t) PROVE refs' \in [Objects -> Int] /\ RefsExact'
  <2>1. PICK n \in Objects :
          refs[n] = 0 /\ refs' = [refs EXCEPT ![n] = 1] /\ mine' = [mine EXCEPT ![t] = n]
    BY <1>1 DEF New
  <2>2. mine[t] = Null /\ pc[t] = "idle" /\ UNCHANGED <<storage, pc, op, desired, obj>>
    BY <1>1 DEF New
  <2>3. mine'[t] = n /\ \A u \in Threads \ {t} : mine'[u] = mine[u]
    BY <2>1 DEF Shape
  <2>4. ASSUME NEW o \in Objects PROVE refs'[o] = Owners(o)'
    <3>1. InWord(o)' <=> InWord(o)
      BY <2>2, <2>3, WordSame DEF Holding
    <3>2. refs'[o] = IF o = n THEN refs[o] + 1 ELSE refs[o]
      BY <1>0, <2>1
    <3>3. Locals(t, o)' = Bit(n = o) + Bit(desired[t] = o) + Bit(obj[t] = o)
      BY <2>2, <2>3 DEF Locals
    <3>4. Locals(t, o) = 0 + Bit(desired[t] = o) + Bit(obj[t] = o)
      BY <1>0, <2>2 DEF Locals, Bit
    <3> QED
      BY <1>0, <2>2, <2>3, <3>1, <3>2, <3>3, <3>4, RefsStep DEF Bit
  <2> QED
    BY <1>0, <2>1, <2>4 DEF RefsExact
<1>2. ASSUME NEW t \in Threads, NEW k \in Kinds, Start(t, k), mine' = mine
      PROVE  /\ pc[t] = "idle" /\ obj' = obj /\ desired[t] = Null
             /\ \A o \in Objects : InWord(o)' <=> InWord(o)
  <2>1. /\ pc[t] = "idle" /\ pc'[t] = "lock" /\ UNCHANGED <<storage, obj>>
        /\ \A u \in Threads \ {t} : pc'[u] = pc[u] /\ op'[u] = op[u]
    BY <1>2 DEF Start, Shape
  <2>2. \A o \in Objects : InWord(o)' <=> InWord(o)
    BY <1>2, <2>1, WordSame DEF Holding
  <2> QED
    BY <2>1, <2>2 DEF LocalOK, Local
<1>3. ASSUME NEW t \in Threads, StartOne(t) PROVE refs' \in [Objects -> Int] /\ RefsExact'
  <2>1. /\ obj' = obj /\ UNCHANGED <<refs, mine, desired>>
        /\ \A o \in Objects : InWord(o)' <=> InWord(o)
    BY <1>2, <1>3 DEF StartOne, Kinds
  <2>2. ASSUME NEW o \in Objects PROVE refs'[o] = Owners(o)'
    BY <1>0, <2>1, RefsStep DEF Locals, Bit
  <2> QED
    BY <1>0, <2>1, <2>2 DEF RefsExact
<1>4. ASSUME NEW t \in Threads, StartStore(t) PROVE refs' \in [Objects -> Int] /\ RefsExact'
  <2>1. /\ obj' = obj /\ mine' = mine /\ desired[t] = Null
        /\ \A o \in Objects : InWord(o)' <=> InWord(o)
    BY <1>2, <1>4 DEF StartStore, Kinds
  <2>2. /\ refs' = [o \in Objects |-> IF o = mine[t] THEN refs[o] + 1 ELSE refs[o]]
        /\ desired'[t] = mine[t] /\ \A u \in Threads \ {t} : desired'[u] = desired[u]
    BY <1>4 DEF StartStore, Addref, Shape
  <2>3. ASSUME NEW o \in Objects PROVE refs'[o] = Owners(o)'
    <3>1. refs'[o] = IF o = mine[t] THEN refs[o] + 1 ELSE refs[o]
      BY <2>2
    <3> QED
      BY <1>0, <2>1, <2>2, <3>1, RefsStep DEF Locals, Bit
  <2> QED
    BY <1>0, <2>2, <2>3 DEF RefsExact
<1>5. ASSUME NEW t \in Threads, StartCompare(t) PROVE refs' \in [Objects -> Int] /\ RefsExact'
  <2>1. /\ obj' = obj /\ mine' = mine /\ desired[t] = Null
        /\ \A o \in Objects : InWord(o)' <=> InWord(o)
    BY <1>2, <1>5 DEF StartCompare, Kinds
  <2>2. PICK n \in Handles :
          /\ desired' = [desired EXCEPT ![t] = n]
          /\ n = Null => refs' = refs
          /\ n # Null => n \in Objects /\ refs[n] = 0 /\ refs' = [refs EXCEPT ![n] = 1]
    BY <1>0, <1>5 DEF StartCompare, Handles
  <2>3. desired'[t] = n /\ \A u \in Threads \ {t} : desired'[u] = desired[u]
    BY <2>2 DEF Shape
  <2>4. ASSUME NEW o \in Objects PROVE refs'[o] = Owners(o)'
    <3>1. refs'[o] = IF o = n THEN refs[o] + 1 ELSE refs[o]
      BY <1>0, <2>2
    <3> QED
      BY <1>0, <2>1, <2>3, <3>1, RefsStep DEF Locals, Bit
  <2> QED
    BY <1>0, <2>2, <2>4 DEF RefsExact
(* The lock is taken, by t.                                                  *)
<1>6. ASSUME NEW t \in Threads, storage.bits = "free", obj' = [obj EXCEPT ![t] = storage.ptr],
             pc[t] \in {"idle", "lock"}, pc'[t] = "locked", storage'.ptr = storage.ptr,
             UNCHANGED <<refs, mine, desired>>
      PROVE  refs' \in [Objects -> Int] /\ RefsExact'
  <2>1. /\ obj[t] = Null /\ obj'[t] = storage.ptr
        /\ \A u \in Threads \ {t} : obj'[u] = obj[u]
    BY <1>6 DEF LocalOK, Local, Shape
  <2>2. (\A u \in Threads : ~Holding(u)) /\ Holding(t)' /\ Lends(t)'
    BY <1>6 DEF MutualExclusion, Holding, Lends
  <2>3. ASSUME NEW o \in Objects PROVE refs'[o] = Owners(o)'
    <3>1. (InWord(o) <=> storage.ptr = o) /\ ~InWord(o)'
      BY <2>2, WordFree, WordHeld
    <3> QED
      BY <1>0, <1>6, <2>1, <3>1, RefsStep DEF Locals, Bit
  <2> QED
    BY <1>0, <1>6, <2>3 DEF RefsExact
(* Nothing that counts changes.                                              *)
<1>7. ASSUME storage'.ptr = storage.ptr, UNCHANGED <<refs, local>>,
             \A u \in Threads : Holding(u)' <=> Holding(u),
             \A u \in Threads : Holding(u) => pc'[u] = pc[u]
      PROVE  refs' \in [Objects -> Int] /\ RefsExact'
  <2>1. \A o \in Objects : InWord(o)' <=> InWord(o)
    BY <1>7, WordSame DEF local
  <2> QED
    BY <1>0, <1>7, <2>1, OwnersAre DEF RefsExact, local, Bit
<1>8. ASSUME NEW t \in Threads, TryLock(t) \/ TryWait(t) \/ Wait(t) \/ TryLockOnce(t)
      PROVE  refs' \in [Objects -> Int] /\ RefsExact'
  <2>1. CASE TryLock(t) /\ Swapped(t)
    BY <2>1, <1>6 DEF TryLock, Swapped, Reread, Shape, Word
  <2>2. CASE TryLock(t) /\ ~Swapped(t)
    BY <2>2, <1>7 DEF TryLock, Swapped, Holding, local
  <2>3. CASE TryWait(t)
    <3>1. storage'.ptr = storage.ptr
      BY <2>3 DEF TryWait, Reread, Shape, Word
    <3> QED
      BY <2>3, <3>1, <1>7 DEF TryWait, Holding
  <2>4. CASE Wait(t)
    BY <2>4, <1>7 DEF Wait, Holding, Shape
  <2>5. CASE TryLockOnce(t)
    BY <2>5, <1>6 DEF TryLockOnce, Shape, Word
  <2> QED
    BY <1>8, <2>1, <2>2, <2>3, <2>4, <2>5
<1>9. ASSUME NEW t \in Threads, Locked(t) PROVE refs' \in [Objects -> Int] /\ RefsExact'
  <2>1. /\ pc[t] = "locked" /\ pc'[t] = "unlock" /\ UNCHANGED <<op, desired>>
        /\ obj[t] = storage.ptr /\ op[t] # "none"
    BY <1>9 DEF Locked, Shape, LocalOK, Local, Holding
  <2>2. Holding(t) /\ Holding(t)' /\ Lends(t)
    BY <2>1 DEF Holding, Lends
  <2>3. CASE Shares(t) /\ Addref(obj[t]) /\ UNCHANGED <<storage, mine, obj>>
    <3>1. ~Lends(t)' /\ storage' = storage
      BY <2>1, <2>3 DEF Lends, Shares
    <3>2. ASSUME NEW o \in Objects PROVE refs'[o] = Owners(o)'
      <4>1. ~InWord(o) /\ (InWord(o)' <=> storage.ptr = o)
        BY <2>2, <3>1, WordHeld
      <4>2. refs'[o] = IF o = storage.ptr THEN refs[o] + 1 ELSE refs[o]
        BY <2>1, <2>3 DEF Addref
      <4> QED
        BY <1>0, <2>1, <2>3, <4>1, <4>2, RefsStep DEF Locals, Bit
    <3> QED
      BY <1>0, <2>3, <3>2 DEF RefsExact, Addref
  <2>4. CASE ~Shares(t) /\ op[t] # "set" /\ UNCHANGED <<refs, storage, mine, obj>>
    <3>1. Lends(t)'
      BY <2>1, <2>4 DEF Lends, Shares
    <3>2. ASSUME NEW o \in Objects PROVE refs'[o] = Owners(o)'
      <4>1. ~InWord(o) /\ ~InWord(o)'
        BY <2>2, <3>1, WordHeld
      <4> QED
        BY <1>0, <2>1, <2>4, <4>1, RefsStep DEF Locals, Bit
    <3> QED
      BY <1>0, <2>4, <3>2 DEF RefsExact
  <2>5. CASE /\ op[t] = "set" /\ storage' = [storage EXCEPT !.ptr = mine[t]] /\ refs' = refs
             /\ mine' = [mine EXCEPT ![t] = storage.ptr] /\ obj' = [obj EXCEPT ![t] = Null]
    <3>1. /\ mine'[t] = storage.ptr /\ obj'[t] = Null /\ storage'.ptr = mine[t]
          /\ \A u \in Threads \ {t} : mine'[u] = mine[u] /\ obj'[u] = obj[u]
      BY <2>5 DEF Shape, Word
    <3>2. ~Lends(t)'
      BY <2>1, <2>5 DEF Lends
    <3>3. ASSUME NEW o \in Objects PROVE refs'[o] = Owners(o)'
      <4>1. ~InWord(o) /\ (InWord(o)' <=> mine[t] = o)
        BY <2>2, <3>1, <3>2, WordHeld
      <4> QED
        BY <1>0, <2>1, <2>5, <3>1, <4>1, RefsStep DEF Locals, Bit
    <3> QED
      BY <1>0, <2>5, <3>3 DEF RefsExact
  <2> QED
    BY <1>9, <2>3, <2>4, <2>5 DEF Locked
<1>10. ASSUME NEW t \in Threads, StoreAndUnlock(t) PROVE refs' \in [Objects -> Int] /\ RefsExact'
  <2>1. /\ pc[t] = "unlock" /\ op[t] \in Kinds \ {"none"} /\ refs' = refs
        /\ storage'.ptr = Final(t) /\ storage'.bits = "free"
        /\ mine'[t] = Outcome(t)[1] /\ obj'[t] = Outcome(t)[2] /\ desired'[t] = Outcome(t)[3]
        /\ \A u \in Threads \ {t} :
             mine'[u] = mine[u] /\ obj'[u] = obj[u] /\ desired'[u] = desired[u]
    BY <1>10 DEF StoreAndUnlock, Shape, LocalOK, Local
  <2>2. Holding(t) /\ \A u \in Threads : ~Holding(u)'
    BY <2>1 DEF Holding, MutualExclusion
  <2>3. /\ obj[t] = IF op[t] = "set" THEN Null ELSE storage.ptr
        /\ op[t] \notin {"store", "compare"} => desired[t] = Null
    BY <2>1, <2>2 DEF LocalOK, Local
  <2>4. Lends(t) <=> ~Shares(t) /\ op[t] # "set"
    BY <2>1 DEF Lends
  <2>5. ASSUME NEW o \in Objects PROVE refs'[o] = Owners(o)'
    <3>1. (InWord(o) <=> storage.ptr = o /\ ~Lends(t)) /\ (InWord(o)' <=> Final(t) = o)
      BY <2>1, <2>2, WordFree, WordHeld
    <3>2. Locals(t, o) + Bit(InWord(o)) = Locals(t, o)' + Bit(InWord(o)')
      <4>1. Locals(t, o)' = Bit(Outcome(t)[1] = o) + Bit(Outcome(t)[3] = o) + Bit(Outcome(t)[2] = o)
        BY <2>1 DEF Locals
      <4>2. CASE op[t] \in {"load", "exchange", "store", "set"}
        BY <1>0, <2>3, <2>4, <3>1, <4>1, <4>2 DEF Locals, Bit, Final, Outcome, Shares
      <4>3. CASE op[t] = "compare"
        BY <1>0, <2>3, <2>4, <3>1, <4>1, <4>3 DEF Locals, Bit, Final, Outcome, Shares
      <4> QED
        BY <2>1, <4>2, <4>3 DEF Kinds
    <3> QED
      BY <1>0, <2>1, <3>2, RefsStep DEF Locals, Bit
  <2> QED
    BY <1>0, <2>1, <2>5 DEF RefsExact
<1>11. ASSUME NEW t \in Threads, DropLocals(t) PROVE refs' \in [Objects -> Int] /\ RefsExact'
  <2>1. /\ pc[t] = "drop" /\ storage' = storage /\ mine' = mine
        /\ \A u \in Threads : Holding(u)' <=> Holding(u)
        /\ \A u \in Threads : Holding(u) => u # t /\ pc'[u] = pc[u] /\ op'[u] = op[u] /\ obj'[u] = obj[u]
    BY <1>11 DEF DropLocals, Holding, Shape
  <2>2. \A o \in Objects : InWord(o)' <=> InWord(o)
    BY <2>1, WordSame
  <2>3. CASE obj[t] # Null
    <3>1. /\ refs' = [o \in Objects |-> IF o = obj[t] THEN refs[o] - 1 ELSE refs[o]]
          /\ obj'[t] = Null /\ desired' = desired /\ \A u \in Threads \ {t} : obj'[u] = obj[u]
      BY <1>11, <2>3 DEF DropLocals, Release, Shape
    <3>2. ASSUME NEW o \in Objects PROVE refs'[o] = Owners(o)'
      <4>1. refs'[o] = IF o = obj[t] THEN refs[o] - 1 ELSE refs[o]
        BY <3>1
      <4> QED
        BY <1>0, <2>1, <2>2, <3>1, <4>1, RefsStep DEF Locals, Bit
    <3> QED
      BY <1>0, <3>1, <3>2 DEF RefsExact
  <2>4. CASE obj[t] = Null
    <3>1. /\ refs' = [o \in Objects |-> IF o = desired[t] THEN refs[o] - 1 ELSE refs[o]]
          /\ desired'[t] = Null /\ obj' = obj /\ \A u \in Threads \ {t} : desired'[u] = desired[u]
      BY <1>11, <2>4 DEF DropLocals, Release, Shape
    <3>2. ASSUME NEW o \in Objects PROVE refs'[o] = Owners(o)'
      <4>1. refs'[o] = IF o = desired[t] THEN refs[o] - 1 ELSE refs[o]
        BY <3>1
      <4> QED
        BY <1>0, <2>1, <2>2, <3>1, <4>1, RefsStep DEF Locals, Bit
    <3> QED
      BY <1>0, <3>1, <3>2 DEF RefsExact
  <2> QED
    BY <2>3, <2>4
<1>12. ASSUME NEW t \in Threads, Notify(t) PROVE refs' \in [Objects -> Int] /\ RefsExact'
  BY <1>7, <1>12 DEF Notify, Holding, Shape
<1>13. CASE Finished \/ UNCHANGED vars
  BY <1>7, <1>13 DEF Finished, vars, Holding
<1> QED
  BY <1>1, <1>3, <1>4, <1>5, <1>8, <1>9, <1>10, <1>11, <1>12, <1>13 DEF Next, Step

LEMMA ExactInductive ==
  ASSUME Shape, MutualExclusion, LocalOK, Exact, [Next]_vars,
         Shape', MutualExclusion', LocalOK'
  PROVE  Exact'
<1>1. refs' \in [Objects -> Int] /\ RefsExact'
  BY RefsInductive
<1>2. ASSUME NEW o \in Objects PROVE Owners(o)' \in Nat
  <2>1. \A f : Count(f, o) \in Nat
    BY AtomicAssumption, FS_Subset, FS_CardinalityType DEF Count
  <2> QED
    BY <2>1, OwnersAre DEF Bit
<1> QED
  BY <1>1, <1>2 DEF Exact, RefsExact

LEMMA ExactInit == Init => Exact
<1> SUFFICES ASSUME Init PROVE Exact
  OBVIOUS
<1>1. ASSUME NEW o \in Objects PROVE Owners(o) = 0
  <2>1. Count(mine, o) = 0 /\ Count(desired, o) = 0 /\ Count(obj, o) = 0
    <3>1. /\ {t \in Threads : mine[t] = o} = {} /\ {t \in Threads : desired[t] = o} = {}
          /\ {t \in Threads : obj[t] = o} = {}
      BY AtomicAssumption DEF Init
    <3> QED
      BY <3>1, FS_EmptySet DEF Count
  <2>2. ~InWord(o)
    BY AtomicAssumption DEF Init, InWord
  <2> QED
    BY <2>1, <2>2, OwnersAre DEF Bit
<1> QED
  BY <1>1 DEF Init, Exact, RefsExact

(* The count of an object is at any moment the number of handles to it that  *)
(* exist, that in the word included: no operation leaks an object or lets    *)
(* its count fall to zero while a handle is left.                            *)
THEOREM CountsExact == Spec => []RefsExact
<1>1. Exact => RefsExact
  BY DEF Exact
<1> QED
  BY <1>1, ExactInit, LocalInvariant, ExactInductive, PTL DEF Spec

(* Every variable keeps its type; that no count falls below zero rests on    *)
(* the exactness of the counts.                                              *)
THEOREM AtomicTypes == Spec => []TypeOK
<1>1. Init => ops \in 0..MaxOps
  BY AtomicAssumption DEF Init
<1>2. ops \in 0..MaxOps /\ [Next]_vars => (ops \in 0..MaxOps)'
  BY AtomicAssumption
     DEF Next, Step, New, StartOne, StartStore, StartCompare, Start, TryLockOnce, TryLock, TryWait,
         Wait, Locked, StoreAndUnlock, Notify, DropLocals, Finished, vars
<1>3. Shape /\ Exact /\ ops \in 0..MaxOps => TypeOK
  BY DEF Shape, Exact, TypeOK
<1> QED
  BY <1>1, <1>2, <1>3, ExactInit, LocalInvariant, ExactInductive, PTL DEF Spec

----------------------------------------------------------------------------
(* The atomic is a cell.                                                     *)

Phase(t)  == IF Done(t) THEN "done" ELSE IF At(t, "idle") THEN "idle" ELSE "called"
Wanted(t) == IF Done(t) THEN Null ELSE desired[t]

(* A step that moves one thread's operation neither on nor back.             *)
LEMMA CellStutter ==
  ASSUME storage'.ptr = storage.ptr, op' = op, mine' = mine,
         \A u \in Threads : Phase(u)' = Phase(u) /\ Wanted(u)' = Wanted(u)
  PROVE  UNCHANGED Cell!cell
BY DEF Cell!cell, Phase, Wanted

LEMMA CellImplemented ==
  ASSUME Shape, MutualExclusion, LocalOK, [Next]_vars, Shape'
  PROVE  [Cell!CellNext]_(Cell!cell)
<1> USE DEF Go, Become, At
<1>1. ASSUME NEW t \in Threads, New(t) PROVE Cell!CellNext
  <2>1. PICK n \in Objects : mine' = [mine EXCEPT ![t] = n]
    BY <1>1 DEF New
  <2>2. Phase(t) = "idle" /\ storage' = storage /\ op' = op
        /\ \A u \in Threads : Phase(u)' = Phase(u) /\ Wanted(u)' = Wanted(u)
    BY <1>1 DEF New, Phase, Wanted, Done
  <2>3. Cell!Assign(t)
    BY <2>1, <2>2 DEF Cell!Assign, Phase, Wanted, Handles
  <2> QED
    BY <2>3 DEF Cell!CellNext
<1>2. ASSUME NEW t \in Threads, StartOne(t) \/ StartStore(t) \/ StartCompare(t) \/ TryLockOnce(t)
      PROVE  Cell!CellNext
  <2>1. PICK k \in Kinds \ {"none"} : op' = [op EXCEPT ![t] = k]
    BY <1>2 DEF StartOne, StartStore, StartCompare, TryLockOnce, Start, Kinds
  <2>2. /\ pc[t] = "idle" /\ pc'[t] \in {"lock", "locked"} /\ mine' = mine
        /\ storage'.ptr = storage.ptr
        /\ \A u \in Threads \ {t} : pc'[u] = pc[u] /\ op'[u] = op[u] /\ desired'[u] = desired[u]
    BY <1>2, <2>1 DEF StartOne, StartStore, StartCompare, TryLockOnce, Start, Shape, Word
  <2>3. /\ Phase(t) = "idle" /\ Phase(t)' = "called" /\ Wanted(t)' = desired'[t]
        /\ \A u \in Threads \ {t} : Phase(u)' = Phase(u) /\ Wanted(u)' = Wanted(u)
    BY <2>2 DEF Phase, Wanted, Done
  <2>4. Cell!Call(t)
    <3>1. [u \in Threads |-> Phase(u)'] = [[u \in Threads |-> Phase(u)] EXCEPT ![t] = "called"]
      BY <2>3
    <3>2. /\ [u \in Threads |-> Wanted(u)'] = [[u \in Threads |-> Wanted(u)] EXCEPT ![t] = desired'[t]]
          /\ desired'[t] \in Handles
      BY <2>3 DEF Shape
    <3>3. Phase(t) = "idle" /\ k \in Cell!Kinds
      BY <2>3 DEF Kinds, Cell!Kinds
    <3> QED
      BY <2>1, <2>2, <3>1, <3>2, <3>3 DEF Cell!Call, Phase, Wanted
  <2> QED
    BY <2>4 DEF Cell!CellNext
<1>3. ASSUME NEW t \in Threads, TryLock(t) \/ TryWait(t) \/ Wait(t) PROVE UNCHANGED Cell!cell
  <2>1. /\ storage'.ptr = storage.ptr /\ UNCHANGED <<op, mine, desired>>
        /\ pc[t] = "lock" /\ pc'[t] \in {"lock", "locked", "asleep"}
        /\ \A u \in Threads \ {t} : pc'[u] = pc[u]
    BY <1>3 DEF TryLock, TryWait, Wait, Reread, local, Shape, Word
  <2> QED
    BY <2>1, CellStutter DEF Phase, Wanted, Done
<1>4. ASSUME NEW t \in Threads, Locked(t), op[t] # "set" PROVE UNCHANGED Cell!cell
  <2>1. /\ storage' = storage /\ UNCHANGED <<op, mine, desired>>
        /\ pc[t] = "locked" /\ pc'[t] = "unlock"
        /\ \A u \in Threads \ {t} : pc'[u] = pc[u]
    BY <1>4 DEF Locked, Shape
  <2> QED
    BY <1>4, <2>1, CellStutter DEF Phase, Wanted, Done
(* The moment at which an operation takes effect.                            *)
<1>a. ASSUME NEW t \in Threads, Phase(t) = "called", Phase(t)' = "done", op' = op,
             \A u \in Threads \ {t} : Phase(u)' = Phase(u) /\ Wanted(u)' = Wanted(u),
             \/ op[t] = "load" /\ mine' = [mine EXCEPT ![t] = storage.ptr] /\ storage'.ptr = storage.ptr
             \/ op[t] = "store" /\ storage'.ptr = Wanted(t) /\ mine' = mine
             \/ op[t] \in {"exchange", "set"} /\ storage'.ptr = mine[t]
                  /\ mine' = [mine EXCEPT ![t] = storage.ptr]
             \/ op[t] = "compare" /\ storage.ptr = mine[t] /\ storage'.ptr = Wanted(t) /\ mine' = mine
             \/ op[t] = "compare" /\ storage.ptr # mine[t] /\ storage'.ptr = storage.ptr
                  /\ mine' = [mine EXCEPT ![t] = storage.ptr]
      PROVE  Cell!CellNext
  <2>1. Wanted(t)' = Null
    BY <1>a DEF Phase, Wanted
  <2>2. /\ [u \in Threads |-> Phase(u)'] = [[u \in Threads |-> Phase(u)] EXCEPT ![t] = "done"]
        /\ [u \in Threads |-> Wanted(u)'] = [[u \in Threads |-> Wanted(u)] EXCEPT ![t] = Null]
    BY <1>a, <2>1
  <2>3. Cell!Apply(t)
    BY <1>a, <2>2 DEF Cell!Apply, Phase, Wanted
  <2> QED
    BY <2>3 DEF Cell!CellNext
<1>5. ASSUME NEW t \in Threads, Locked(t), op[t] = "set" PROVE Cell!CellNext
  <2>1. /\ storage'.ptr = mine[t] /\ mine' = [mine EXCEPT ![t] = storage.ptr]
        /\ UNCHANGED <<op, desired>> /\ pc[t] = "locked" /\ pc'[t] = "unlock"
        /\ \A u \in Threads \ {t} : pc'[u] = pc[u]
    BY <1>5 DEF Locked, Shares, Shape, Word
  <2>2. /\ Phase(t) = "called" /\ Phase(t)' = "done"
        /\ \A u \in Threads \ {t} : Phase(u)' = Phase(u) /\ Wanted(u)' = Wanted(u)
    BY <1>5, <2>1 DEF Phase, Wanted, Done
  <2> QED
    BY <1>5, <1>a, <2>1, <2>2
<1>6. ASSUME NEW t \in Threads, StoreAndUnlock(t) PROVE [Cell!CellNext]_(Cell!cell)
  <2>1. /\ pc[t] = "unlock" /\ op' = op /\ storage'.ptr = Final(t) /\ pc'[t] \in {"notify", "drop"}
        /\ mine' = [mine EXCEPT ![t] = Outcome(t)[1]]
        /\ \A u \in Threads \ {t} : pc'[u] = pc[u] /\ desired'[u] = desired[u]
    BY <1>6 DEF StoreAndUnlock, Shape
  <2>2. /\ obj[t] = IF op[t] = "set" THEN Null ELSE storage.ptr
        /\ op[t] \in Kinds \ {"none"}
    BY <2>1 DEF LocalOK, Local, Holding, Shape
  <2>3. \A u \in Threads \ {t} : Phase(u)' = Phase(u) /\ Wanted(u)' = Wanted(u)
    BY <2>1 DEF Phase, Wanted, Done
  <2>4. mine = [mine EXCEPT ![t] = mine[t]]
    BY DEF Shape
  <2>5. CASE op[t] = "set"
    <3>1. storage'.ptr = storage.ptr /\ mine' = mine
      BY <2>1, <2>4, <2>5 DEF Final, Outcome
    <3>2. Phase(t)' = Phase(t) /\ Wanted(t)' = Wanted(t)
      BY <2>1, <2>5 DEF Phase, Wanted, Done
    <3> QED
      BY <2>1, <2>3, <3>1, <3>2, CellStutter
  <2>6. CASE op[t] # "set"
    <3>1. Phase(t) = "called" /\ Phase(t)' = "done" /\ Wanted(t) = desired[t]
      BY <2>1, <2>6 DEF Phase, Wanted, Done
    <3>2. CASE op[t] \in {"load", "exchange", "store"}
      BY <1>a, <2>1, <2>2, <2>3, <2>4, <3>1, <3>2 DEF Final, Outcome
    <3>3. CASE op[t] = "compare"
      BY <1>a, <2>1, <2>2, <2>3, <2>4, <3>1, <3>3 DEF Final, Outcome
    <3> QED
      BY <2>2, <2>6, <3>2, <3>3 DEF Kinds
  <2> QED
    BY <2>5, <2>6
<1>7. ASSUME NEW t \in Threads, Notify(t) PROVE UNCHANGED Cell!cell
  <2>1. /\ UNCHANGED <<storage, op, mine, desired>> /\ pc[t] = "notify"
        /\ \A u \in Threads : pc'[u] = IF u = t THEN "drop" ELSE IF pc[u] = "asleep" THEN "lock" ELSE pc[u]
    BY <1>7 DEF Notify, local
  <2>2. \A u \in Threads : Phase(u)' = Phase(u) /\ Wanted(u)' = Wanted(u)
    BY <2>1 DEF Phase, Wanted, Done
  <2> QED
    BY <2>1, <2>2, CellStutter
<1>8. ASSUME NEW t \in Threads, DropLocals(t) PROVE [Cell!CellNext]_(Cell!cell)
  <2>1. /\ UNCHANGED <<storage, mine>> /\ pc[t] = "drop" /\ Phase(t) = "done" /\ Wanted(t) = Null
    BY <1>8 DEF DropLocals, Phase, Wanted, Done
  <2>2. CASE obj[t] # Null
    BY <1>8, <2>1, <2>2, CellStutter DEF DropLocals, Phase, Wanted, Done
  <2>3. CASE obj[t] = Null
    <3>1. /\ pc'[t] = "idle" /\ desired'[t] = Null /\ op' = [op EXCEPT ![t] = "none"]
          /\ \A u \in Threads \ {t} : pc'[u] = pc[u] /\ op'[u] = op[u] /\ desired'[u] = desired[u]
      BY <1>8, <2>3 DEF DropLocals, Shape
    <3>2. /\ Phase(t)' = "idle" /\ Wanted(t)' = Null
          /\ \A u \in Threads \ {t} : Phase(u)' = Phase(u) /\ Wanted(u)' = Wanted(u)
      BY <3>1 DEF Phase, Wanted, Done
    <3>3. /\ [u \in Threads |-> Phase(u)'] = [[u \in Threads |-> Phase(u)] EXCEPT ![t] = "idle"]
          /\ [u \in Threads |-> Wanted(u)'] = [u \in Threads |-> Wanted(u)]
      BY <2>1, <3>2
    <3>4. Cell!Return(t)
      BY <2>1, <3>1, <3>3 DEF Cell!Return, Phase, Wanted
    <3> QED
      BY <3>4 DEF Cell!CellNext
  <2> QED
    BY <2>2, <2>3
<1>9. CASE Finished \/ UNCHANGED vars
  BY <1>9, CellStutter DEF Finished, vars, local, Phase, Wanted, Done
<1> QED
  BY <1>1, <1>2, <1>3, <1>4, <1>5, <1>6, <1>7, <1>8, <1>9 DEF Next, Step

(* Every operation of the atomic takes effect at one moment between its call *)
(* and its return, whichever threads contend for the lock.                   *)
THEOREM AtomicIsCell == Spec => ImplementsCell
<1>1. Init => Cell!CellInit
  BY DEF Init, Cell!CellInit, Done, At
<1>2. Shape /\ MutualExclusion /\ LocalOK /\ [Next]_vars /\ Shape' => [Cell!CellNext]_(Cell!cell)
  BY CellImplemented
<1> QED
  BY <1>1, <1>2, LocalInvariant, PTL DEF Spec, ImplementsCell, Cell!Spec
=============================================================================
