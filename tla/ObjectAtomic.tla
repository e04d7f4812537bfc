---------------------------- MODULE ObjectAtomic ----------------------------
(***************************************************************************)
(* object::atomic: a reference-counted pointer in one word whose two low   *)
(* bits are a lock with a parking flag.  A thread that finds the word      *)
(* locked sets the flag and sleeps in atomic::wait(); the unlocking        *)
(* exchange clears lock and flag together, and notifies if the flag was    *)
(* set.  compare_exchange_weak may fail for no reason; the loop then tries *)
(* again with the same value, which is a stuttering step here.             *)
(***************************************************************************)
EXTENDS Naturals, FiniteSets

CONSTANTS
  Threads, Objects, Null,
  MaxOps      (* bound: operations started on the atomic                     *)

ASSUME AtomicAssumption ==
  /\ IsFiniteSet(Threads)
  /\ Null \notin Objects /\ MaxOps \in Nat

VARIABLES
  storage,   (* the word: pointer and bits                                   *)
  refs,      (* reference counts; an object whose count falls to 0 is freed  *)
  pc, op,    (* what each thread does; op is "none" between operations        *)
  seen,      (* v: the word as the thread last read it                       *)
  mine,      (* the object variable the thread works with: the expected      *)
             (* value of compare_exchange, the argument of the others        *)
  desired,   (* the parameter of compare_exchange and store                  *)
  obj,       (* the local handle that lock_and_load() returned               *)
  ops        (* operations so far                                            *)

local == <<op, mine, desired, obj>>
vars  == <<storage, refs, pc, seen, local, ops>>

Handles == Objects \cup {Null}
Bits    == {"free", "locked", "waiting"}
Word    == [ptr : Handles, bits : Bits]
Unread  == [ptr |-> Null, bits |-> "free"]
Kinds   == {"none", "load", "exchange", "store", "compare", "set"}
Labels  == {"idle", "lock", "asleep", "locked", "unlock", "notify", "drop"}

TypeOK ==
  /\ storage \in Word /\ refs \in [Objects -> Nat]
  /\ pc \in [Threads -> Labels] /\ op \in [Threads -> Kinds]
  /\ seen \in [Threads -> Word]
  /\ mine \in [Threads -> Handles] /\ desired \in [Threads -> Handles]
  /\ obj \in [Threads -> Handles]
  /\ ops \in 0..MaxOps

Init ==
  /\ storage = [ptr |-> Null, bits |-> "free"]
  /\ refs = [o \in Objects |-> 0]
  /\ pc = [t \in Threads |-> "idle"] /\ op = [t \in Threads |-> "none"]
  /\ seen = [t \in Threads |-> Unread]
  /\ mine = [t \in Threads |-> Null] /\ desired = [t \in Threads |-> Null]
  /\ obj = [t \in Threads |-> Null]
  /\ ops = 0

At(t, l) == pc[t] = l
Go(t, l) == pc' = [pc EXCEPT ![t] = l]
Become(f, t, x) == [f EXCEPT ![t] = x]

(* addref() and release() of a handle, which may be null.                    *)
Addref(o)  == refs' = [p \in Objects |-> IF p = o THEN refs[p] + 1 ELSE refs[p]]
Release(o) == refs' = [p \in Objects |-> IF p = o THEN refs[p] - 1 ELSE refs[p]]

----------------------------------------------------------------------------
(* The user's object variables.                                              *)

(* mine is given a new object; it may get the address of a freed one.        *)
New(t) ==
  /\ At(t, "idle") /\ mine[t] = Null /\ ops < MaxOps
  /\ \E o \in Objects : /\ refs[o] = 0 /\ refs' = [refs EXCEPT ![o] = 1]
                        /\ mine' = Become(mine, t, o)
  /\ UNCHANGED <<storage, pc, op, seen, desired, obj, ops>>

(* An operation starts: lock_and_load() reads the word.                      *)
Start(t, k) ==
  /\ At(t, "idle") /\ Go(t, "lock")
  /\ ops < MaxOps /\ ops' = ops + 1
  /\ op' = Become(op, t, k)
  /\ seen' = Become(seen, t, storage)
  /\ UNCHANGED <<storage, obj>>

(* load() into mine, exchange(mine), and lock(), set(mine), unlock().  What  *)
(* lock(), get(), unlock() do is what load() does.                           *)
StartOne(t) ==
  /\ \E k \in {"load", "exchange", "set"} : Start(t, k)
  /\ UNCHANGED <<refs, mine, desired>>

(* Fault: the argument is not counted.                                       *)
StartStoreMove(t) ==
  /\ Start(t, "store")
  /\ desired' = Become(desired, t, mine[t])
  /\ UNCHANGED <<mine, refs>>

(* store(mine) copies its argument.                                          *)
StartStore(t) ==
  /\ Start(t, "store")
  /\ Addref(mine[t]) /\ desired' = Become(desired, t, mine[t])
  /\ UNCHANGED mine

(* compare_exchange_strong(mine, desired), desired a new object or null.     *)
StartCompare(t) ==
  /\ Start(t, "compare")
  /\ \/ desired' = Become(desired, t, Null) /\ UNCHANGED refs
     \/ \E o \in Objects : /\ refs[o] = 0 /\ refs' = [refs EXCEPT ![o] = 1]
                           /\ desired' = Become(desired, t, o)
  /\ UNCHANGED mine

----------------------------------------------------------------------------
(* lock_and_load().                                                          *)

(* The compare-and-swap of v by w: on failure v becomes the word.            *)
Swapped(t)    == storage = seen[t]
Reread(t)     == storage # seen[t] /\ seen' = Become(seen, t, storage)

(* Fault: the flag is set with a store.                                      *)
TryLockStore(t) ==
  /\ At(t, "lock") /\ seen[t].bits = "free" /\ Go(t, "locked")
  /\ storage' = [storage EXCEPT !.bits = "locked"]
  /\ obj' = Become(obj, t, seen[t].ptr) /\ seen' = Become(seen, t, Unread)
  /\ UNCHANGED <<refs, op, mine, desired, ops>>

TryLock(t) ==
  /\ At(t, "lock") /\ seen[t].bits = "free"
  /\ \/ /\ Swapped(t) /\ Go(t, "locked")
        /\ storage' = [storage EXCEPT !.bits = "locked"]
        /\ obj' = Become(obj, t, seen[t].ptr) /\ seen' = Become(seen, t, Unread)
     \/ Reread(t) /\ UNCHANGED <<storage, pc, obj>>
  /\ UNCHANGED <<refs, op, mine, desired, ops>>

TryWait(t) ==
  /\ At(t, "lock") /\ seen[t].bits = "locked"
  /\ \/ /\ Swapped(t)
        /\ storage' = [storage EXCEPT !.bits = "waiting"]
        /\ seen' = Become(seen, t, storage')
     \/ Reread(t) /\ UNCHANGED storage
  /\ UNCHANGED <<refs, pc, local, ops>>

(* storage.wait(v): sleeps only while the word is v (the comparison and      *)
(* falling asleep are one step of the kernel); then the word is read again.  *)
(* Before C++20 there is no wait(), and the thread reads the word in a loop. *)
Wait(t) ==
  /\ At(t, "lock") /\ seen[t].bits = "waiting"
  /\ \/ Swapped(t) /\ Go(t, "asleep") /\ UNCHANGED seen
     \/ Reread(t) /\ UNCHANGED pc
  /\ UNCHANGED <<storage, refs, local, ops>>

(* try_lock(), if it succeeds, and then get() or set(mine), and unlock().    *)
TryLockOnce(t) ==
  /\ At(t, "idle") /\ Go(t, "locked")
  /\ ops < MaxOps /\ ops' = ops + 1
  /\ \E k \in {"load", "set"} : op' = Become(op, t, k)
  /\ storage.bits = "free" /\ storage' = [storage EXCEPT !.bits = "locked"]
  /\ obj' = Become(obj, t, storage.ptr)
  /\ UNCHANGED <<refs, seen, mine, desired>>

----------------------------------------------------------------------------
(* The critical sections.  What store_and_unlock() will store is in hand     *)
(* when the label is "unlock".                                               *)

(* The operation leaves the object in the word and returns it as well.       *)
Shares(t) == op[t] = "load" \/ (op[t] = "compare" /\ obj[t] # mine[t])

(* Fault: load() unlocks before it counts its reference.                     *)
LockedLate(t) ==
  /\ At(t, "locked") /\ Go(t, "unlock")
  /\ UNCHANGED <<storage, refs, seen, local, ops>>

Locked(t) ==
  /\ At(t, "locked") /\ Go(t, "unlock")
  /\ \/ /\ Shares(t) /\ Addref(obj[t])
        /\ UNCHANGED <<storage, mine, obj>>
     \/ /\ ~Shares(t) /\ op[t] # "set"
        /\ UNCHANGED <<refs, storage, mine, obj>>
     \/ (* set(): the pointer is replaced, the bits stay                     *)
        /\ op[t] = "set"
        /\ storage' = [storage EXCEPT !.ptr = mine[t]]
        /\ mine' = Become(mine, t, storage.ptr)
        /\ obj' = Become(obj, t, Null) /\ UNCHANGED refs
  /\ UNCHANGED <<seen, op, desired, ops>>

(* Fault: compare_exchange stores although the comparison failed.            *)
FinalBlind(t) ==
  CASE op[t] = "load"     -> obj[t]
    [] op[t] = "exchange" -> mine[t]
    [] op[t] \in {"store", "compare"} -> desired[t]
    [] op[t] = "set"      -> storage.ptr

(* What the operation stores when it unlocks.                                *)
Final(t) ==
  CASE op[t] = "load"     -> obj[t]
    [] op[t] = "exchange" -> mine[t]
    [] op[t] = "store"    -> desired[t]
    [] op[t] = "compare"  -> IF obj[t] = mine[t] THEN desired[t] ELSE obj[t]
    [] op[t] = "set"      -> storage.ptr

(* What becomes of the operation's variables: mine, and the handle to drop.  *)
Outcome(t) ==
  CASE op[t] = "load"     -> <<obj[t], mine[t], Null>>
    [] op[t] = "exchange" -> <<obj[t], Null, Null>>
    [] op[t] = "store"    -> <<mine[t], obj[t], Null>>
    [] op[t] = "compare" /\ obj[t] = mine[t] -> <<mine[t], obj[t], Null>>
    [] op[t] = "compare" /\ obj[t] # mine[t] -> <<obj[t], mine[t], desired[t]>>
    [] op[t] = "set"      -> <<mine[t], Null, Null>>

StoreAndUnlock(t) ==
  /\ At(t, "unlock")
  /\ Go(t, IF storage.bits = "waiting" THEN "notify" ELSE "drop")
  /\ storage' = [ptr |-> Final(t), bits |-> "free"]
  /\ mine'    = Become(mine, t, Outcome(t)[1])
  /\ obj'     = Become(obj, t, Outcome(t)[2])
  /\ desired' = Become(desired, t, Outcome(t)[3])
  /\ UNCHANGED <<refs, seen, op, ops>>

(* Fault: notify_one().                                                      *)
NotifyOne(t) ==
  /\ At(t, "notify")
  /\ \/ \E u \in Threads : At(u, "asleep") /\ pc' = [pc EXCEPT ![t] = "drop", ![u] = "lock"]
     \/ (\A u \in Threads : ~At(u, "asleep")) /\ Go(t, "drop")
  /\ UNCHANGED <<storage, refs, seen, local, ops>>

(* notify_all(): every sleeper compares the word again.                      *)
Notify(t) ==
  /\ At(t, "notify")
  /\ pc' = [u \in Threads |-> IF u = t THEN "drop" ELSE IF At(u, "asleep") THEN "lock" ELSE pc[u]]
  /\ UNCHANGED <<storage, refs, seen, local, ops>>

(* The destructors of the locals.                                            *)
DropLocals(t) ==
  /\ At(t, "drop")
  /\ IF obj[t] # Null
       THEN Release(obj[t]) /\ obj' = Become(obj, t, Null) /\ UNCHANGED <<pc, op, desired>>
       ELSE /\ Release(desired[t]) /\ desired' = Become(desired, t, Null)
            /\ Go(t, "idle") /\ op' = Become(op, t, "none") /\ UNCHANGED obj
  /\ UNCHANGED <<storage, seen, mine, ops>>

----------------------------------------------------------------------------
Finished == /\ ops = MaxOps /\ \A t \in Threads : At(t, "idle")
            /\ UNCHANGED vars

Step(t) ==
  \/ TryLock(t) \/ TryWait(t) \/ Wait(t)
  \/ Locked(t) \/ StoreAndUnlock(t) \/ Notify(t) \/ DropLocals(t)

Next ==
  \/ \E t \in Threads : New(t) \/ StartOne(t) \/ StartStore(t) \/ StartCompare(t)
                       \/ TryLockOnce(t) \/ Step(t)
  \/ Finished

Spec == Init /\ [][Next]_vars

----------------------------------------------------------------------------
(* Properties.                                                               *)

Bit(b) == IF b THEN 1 ELSE 0
Holding(t) == pc[t] \in {"locked", "unlock"}

(* Between lock_and_load() and addref() or store_and_unlock() a handle that  *)
(* is in the word and in obj is one reference, not two.                      *)
Borrowed(o) ==
  \E t \in Threads : /\ obj[t] = o
                     /\ pc[t] = "locked" \/ (pc[t] = "unlock" /\ ~Shares(t))
Owners(o) ==
  Cardinality({t \in Threads : mine[t] = o}) + Cardinality({t \in Threads : desired[t] = o})
    + Cardinality({t \in Threads : obj[t] = o})
    + Bit(storage.ptr = o /\ ~Borrowed(o))

(* Reference counts are exact: no operation leaks an object or frees one     *)
(* that a variable or the word still refers to.                              *)
RefsExact == \A o \in Objects : refs[o] = Owners(o)

(* One thread is inside the lock, and the word says so.                      *)
MutualExclusion ==
  /\ \A t, u \in Threads : Holding(t) /\ Holding(u) => t = u
  /\ (storage.bits # "free") = (\E t \in Threads : Holding(t))

(* A sleeper is never forgotten: the flag that makes the holder notify is    *)
(* set, or the notification is on its way.                                   *)
NoMissedWakeup ==
  (\E t \in Threads : At(t, "asleep")) =>
    storage.bits = "waiting" \/ \E t \in Threads : At(t, "notify")

Done(t) == pc[t] \in {"notify", "drop"} \/ (pc[t] = "unlock" /\ op[t] = "set")

Cell == INSTANCE AtomicCell WITH
  value   <- storage.ptr,
  phase   <- [t \in Threads |-> IF Done(t) THEN "done" ELSE IF At(t, "idle") THEN "idle" ELSE "called"],
  desired <- [t \in Threads |-> IF Done(t) THEN Null ELSE desired[t]]

(* Each operation takes effect at one moment between call and return: the    *)
(* exchange that unlocks, or set() inside lock() and unlock().               *)
ImplementsCell == Cell!Spec
=============================================================================
