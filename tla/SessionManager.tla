--------------------------- MODULE SessionManager ---------------------------
(***************************************************************************)
(* The registry of a service's sessions: an intrusive set ordered by id    *)
(* under one spinlock.  A session enters it in its constructor, before     *)
(* make_shared has set the weak pointer that shared_from_this() uses, and  *)
(* leaves it in its destructor, after the last session_ptr is gone: in     *)
(* between, shared_from_this() throws bad_weak_ptr, it does not return     *)
(* null.  foreach() drops the lock while it calls the visitor and goes on  *)
(* at upper_bound of the id it visited.                                    *)
(***************************************************************************)
EXTENDS Naturals, Sequences, FiniteSetsExt

CONSTANTS
  Threads, NoThread,
  MaxId,      (* bound: sessions created, their ids are 1..MaxId             *)
  MaxScans    (* bound: calls of get() and foreach()                         *)

ASSUME ManagerAssumption ==
  /\ NoThread \notin Threads
  /\ MaxId \in Nat \ {0} /\ MaxScans \in Nat

VARIABLES
  guard,    (* the thread inside the critical section                        *)
  sessions, (* ids in the intrusive set                                      *)
  lastId,   (* the atomic id counter                                         *)
  weak,     (* ids whose weak pointer is set                                 *)
  refs,     (* refs[i]: the users that hold a session_ptr of session i       *)
  pc, self, (* what each thread does, and the session it does it with        *)
  iter,     (* foreach: the position, MaxId + 1 at the end                   *)
  from,     (* history: sessions usable throughout the foreach so far        *)
  visited,  (* history: the ids f was called with, per foreach               *)
  scans     (* calls of get() and foreach() so far                           *)

set  == <<guard, sessions, lastId, weak, refs>>
vars == <<set, pc, self, iter, from, visited, scans>>

Ids    == 1..MaxId
End    == MaxId + 1
Owner  == "app"     (* the asynchronous operations and the application       *)
ASSUME OwnerAssumption == Owner \notin Threads
Labels == {"idle", "insert", "publish", "erase", "erase_scan",
           "scan_lock", "scan", "visit", "release", "release_scan"}

TypeOK ==
  /\ guard \in Threads \cup {NoThread}
  /\ sessions \subseteq Ids /\ weak \subseteq Ids /\ lastId \in 0..MaxId
  /\ refs \in [Ids -> SUBSET (Threads \cup {Owner})]
  /\ pc \in [Threads -> Labels] /\ self \in [Threads -> 0..MaxId]
  /\ iter \in [Threads -> 0..End]
  /\ from \in [Threads -> SUBSET Ids] /\ visited \in [Threads -> Seq(Ids)]
  /\ scans \in 0..MaxScans

Init ==
  /\ guard = NoThread /\ sessions = {} /\ lastId = 0 /\ weak = {}
  /\ refs = [i \in Ids |-> {}]
  /\ pc = [t \in Threads |-> "idle"] /\ self = [t \in Threads |-> 0]
  /\ iter = [t \in Threads |-> 0]
  /\ from = [t \in Threads |-> {}] /\ visited = [t \in Threads |-> <<>>]
  /\ scans = 0

At(t, l) == pc[t] = l
Go(t, l) == pc' = [pc EXCEPT ![t] = l]
Unlocked == guard = NoThread

(* What shared_from_this() needs.                                            *)
Usable(i) == i \in weak /\ refs[i] # {}

----------------------------------------------------------------------------
(* Constructor and destructor.                                               *)

(* The id is taken before the lock.                                          *)
Create(t) ==
  /\ At(t, "idle") /\ Go(t, "insert")
  /\ lastId < MaxId /\ lastId' = lastId + 1
  /\ self' = [self EXCEPT ![t] = lastId + 1]
  /\ UNCHANGED <<guard, sessions, weak, refs, iter, from, visited, scans>>

Insert(t) ==
  /\ At(t, "insert") /\ Unlocked /\ Go(t, "publish")
  /\ sessions' = sessions \cup {self[t]}
  /\ UNCHANGED <<guard, lastId, weak, refs, self, iter, from, visited, scans>>

(* Fault: the creator keeps no session_ptr of its own.                       *)
PublishUnheld(t, h) ==
  /\ At(t, "publish") /\ Go(t, "idle")
  /\ weak' = weak \cup {self[t]}
  /\ refs' = [refs EXCEPT ![self[t]] = {Owner}]
  /\ UNCHANGED <<guard, sessions, lastId, self, iter, from, visited, scans>>

(* make_shared sets the weak pointer when the constructor has returned; h    *)
(* holds the session_ptr it returns.                                         *)
Publish(t, h) ==
  /\ At(t, "publish") /\ Go(t, "idle")
  /\ weak' = weak \cup {self[t]}
  /\ refs' = [refs EXCEPT ![self[t]] = {h}]
  /\ UNCHANGED <<guard, sessions, lastId, self, iter, from, visited, scans>>

(* Fault: the destructor runs although others hold the session.              *)
UnrefAlways(t, h, i, last, more) ==
  /\ refs' = [refs EXCEPT ![i] = @ \ {h}]
  /\ self' = [self EXCEPT ![t] = i]
  /\ Go(t, last)
  /\ from' = [u \in Threads |-> from[u] \ {i}]
  /\ UNCHANGED <<guard, sessions, lastId, weak, iter, visited, scans>>

(* Holder h releases session i; the last one runs the destructor.            *)
Unref(t, h, i, last, more) ==
  /\ refs' = [refs EXCEPT ![i] = @ \ {h}]
  /\ self' = [self EXCEPT ![t] = IF refs'[i] = {} THEN i ELSE 0]
  /\ Go(t, IF refs'[i] = {} THEN last ELSE more)
  /\ from' = IF refs'[i] = {} THEN [u \in Threads |-> from[u] \ {i}] ELSE from
  /\ UNCHANGED <<guard, sessions, lastId, weak, iter, visited, scans>>

Drop(t) == At(t, "idle") /\ \E i \in Ids : Owner \in refs[i] /\ Unref(t, Owner, i, "erase", "idle")

Erase(t) ==
  /\ Unlocked
  /\ \/ At(t, "erase")      /\ Go(t, "idle")
     \/ At(t, "erase_scan") /\ Go(t, "scan_lock")
  /\ sessions' = sessions \ {self[t]}
  /\ self' = [self EXCEPT ![t] = 0]
  /\ UNCHANGED <<guard, lastId, weak, refs, iter, from, visited, scans>>

----------------------------------------------------------------------------
(* get(id): nothing, a session_ptr, or the exception out of a lock_guard.    *)

Get(t) ==
  /\ At(t, "idle") /\ Unlocked
  /\ scans < MaxScans /\ scans' = scans + 1
  /\ \E i \in sessions :
       IF Usable(i)
         THEN /\ refs' = [refs EXCEPT ![i] = @ \cup {t}]
              /\ self' = [self EXCEPT ![t] = i]
              /\ Go(t, "release")
         ELSE UNCHANGED <<refs, self, pc>>
  /\ UNCHANGED <<guard, sessions, lastId, weak, iter, from, visited>>

Release(t) == At(t, "release") /\ Unref(t, t, self[t], "erase", "idle")

----------------------------------------------------------------------------
(* foreach(f).                                                               *)

ScanStart(t) ==
  /\ At(t, "idle") /\ Go(t, "scan_lock")
  /\ scans < MaxScans /\ scans' = scans + 1
  /\ iter' = [iter EXCEPT ![t] = 0]
  /\ from' = [from EXCEPT ![t] = {i \in Ids : Usable(i)}]
  /\ visited' = [visited EXCEPT ![t] = <<>>]
  /\ UNCHANGED <<set, self>>

(* Fault: an iterator kept over the unlocked call, incremented twice.        *)
ScanLockSkip(t) ==
  /\ At(t, "scan_lock") /\ Unlocked /\ guard' = t /\ Go(t, "scan")
  /\ iter' = [iter EXCEPT ![t] = Min({i \in sessions : i > @ + 1} \cup {End})]
  /\ UNCHANGED <<sessions, lastId, weak, refs, self, from, visited, scans>>

(* begin(), or upper_bound(id) after a visit.                                *)
ScanLock(t) ==
  /\ At(t, "scan_lock") /\ Unlocked /\ guard' = t /\ Go(t, "scan")
  /\ iter' = [iter EXCEPT ![t] = Min({i \in sessions : i > @} \cup {End})]
  /\ UNCHANGED <<sessions, lastId, weak, refs, self, from, visited, scans>>

(* The foreach() of t is over.                                               *)
Over(t) ==
  /\ iter' = [iter EXCEPT ![t] = 0]
  /\ from' = [from EXCEPT ![t] = {}] /\ visited' = [visited EXCEPT ![t] = <<>>]
GoesOn == UNCHANGED <<iter, from, visited>>

(* Fault: the pointer in the set is used without asking the weak pointer.    *)
ScanRaw(t) ==
  /\ At(t, "scan") /\ guard' = NoThread
  /\ IF iter[t] = End
       THEN Go(t, "idle") /\ UNCHANGED refs /\ Over(t)
       ELSE Go(t, "visit") /\ refs' = [refs EXCEPT ![iter[t]] = @ \cup {t}] /\ GoesOn
  /\ UNCHANGED <<sessions, lastId, weak, self, scans>>

(* shared_from_this() throws for a session that is not usable; the lock is   *)
(* not taken by a lock_guard, and nobody releases it.                        *)
Scan(t) ==
  /\ At(t, "scan")
  /\ \/ /\ iter[t] = End /\ Go(t, "idle") /\ Over(t)
        /\ guard' = NoThread /\ UNCHANGED refs
     \/ /\ iter[t] # End /\ Usable(iter[t]) /\ Go(t, "visit") /\ GoesOn
        /\ guard' = NoThread /\ refs' = [refs EXCEPT ![iter[t]] = @ \cup {t}]
     \/ /\ iter[t] # End /\ ~Usable(iter[t]) /\ Go(t, "idle") /\ Over(t)
        /\ UNCHANGED <<guard, refs>>
  /\ UNCHANGED <<sessions, lastId, weak, self, scans>>

(* f returns true to go on, false to stop.                                   *)
Visit(t) ==
  /\ At(t, "visit") /\ self' = [self EXCEPT ![t] = iter[t]]
  /\ \/ /\ Go(t, "release_scan") /\ UNCHANGED <<iter, from>>
        /\ visited' = [visited EXCEPT ![t] = Append(@, iter[t])]
     \/ Go(t, "release") /\ Over(t)
  /\ UNCHANGED <<set, scans>>

ReleaseScan(t) == At(t, "release_scan") /\ Unref(t, t, self[t], "erase_scan", "scan_lock")

----------------------------------------------------------------------------
Next == \E t \in Threads :
  \/ Create(t) \/ Insert(t) \/ Publish(t, Owner) \/ Drop(t) \/ Erase(t)
  \/ Get(t) \/ Release(t)
  \/ ScanStart(t) \/ ScanLock(t) \/ Scan(t) \/ Visit(t) \/ ReleaseScan(t)

Spec == Init /\ [][Next]_vars

----------------------------------------------------------------------------
(* Properties.                                                               *)

(* Whoever holds a session_ptr can find the session in the registry, so an   *)
(* iterator to it is valid in the destructor; one thread erases a session,   *)
(* once, and after it nobody holds it.                                       *)
Erasing(t) == pc[t] \in {"erase", "erase_scan"}
HeldIsRegistered ==
  /\ \A i \in Ids : refs[i] # {} => i \in sessions
  /\ \A t \in Threads : Erasing(t) =>
       /\ self[t] \in sessions /\ refs[self[t]] = {}
       /\ \A u \in Threads \ {t} : Erasing(u) => self[u] # self[t]

(* A session whose last session_ptr is gone is never handed out again.       *)
NoResurrection ==
  [][\A i \in weak : refs[i] = {} => refs'[i] = {}]_vars

(* foreach() calls f in ascending order of ids, at most once per session,    *)
(* and one that comes to the end has called f with every session that was    *)
(* usable from its beginning to its end, although sessions came and went     *)
(* while the lock was free.                                                  *)
CompleteScan ==
  \A t \in Threads :
    /\ \A j \in DOMAIN visited[t] :
         /\ \A i \in DOMAIN visited[t] : i < j => visited[t][i] < visited[t][j]
         /\ At(t, "visit") => visited[t][j] < iter[t]
    /\ At(t, "scan") /\ iter[t] = End => from[t] \subseteq {visited[t][k] : k \in DOMAIN visited[t]}

(* foreach() leaves the registry unlocked: f returning true means continue,  *)
(* f returning false stop, and a session without owner is skipped.           *)
LockReleased == guard # NoThread => At(guard, "scan")
=============================================================================
