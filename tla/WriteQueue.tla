----------------------------- MODULE WriteQueue -----------------------------
(***************************************************************************)
(* persistent_buffer_manager at the level of list nodes, spinlocks and     *)
(* node reuse, driven the way session::write() and the completion of       *)
(* async_write drive it: manage(), mark(), the write itself when mark()    *)
(* returns a positive marker, clear_marked(), mark() again.                *)
(*                                                                         *)
(* A node is preallocated (in Cached) or comes from the boost::pool.  Each *)
(* critical section under the cached, managed or pool guard is one step;   *)
(* mark() holds the marked guard while it takes the managed one, so it is  *)
(* two.  clear_marked() holds no lock: it disposes the nodes one by one    *)
(* and resets the list after the last, so that for mark() the list is not  *)
(* empty until then.                                                       *)
(***************************************************************************)
EXTENDS Naturals, Integers, FiniteSets, SequencesExt

CONSTANTS
  Threads,
  Cached,     (* nodes preallocated by the constructor                       *)
  Pool,       (* nodes that pool.malloc() can return                         *)
  NoThread,
  MaxCalls,   (* bound: calls of manage()                                    *)
  MaxBatch,   (* bound: buffers per call                                     *)
  MaxMarker   (* std::numeric_limits<long>::max()                            *)

ASSUME QueueAssumption ==
  /\ Cached \cap Pool = {} /\ IsFiniteSet(Cached) /\ NoThread \notin Threads
  /\ MaxCalls \in Nat /\ MaxBatch \in Nat \ {0} /\ MaxMarker \in Nat \ {0}

VARIABLES
  cached,   (* cached_buffers_list                                           *)
  free,     (* pool: nodes not handed out                                    *)
  managed,  (* managed_buffers_list                                          *)
  marked,   (* marked_buffers_list                                           *)
  cleared,  (* nodes of marked that clear_marked() has disposed              *)
  contents, (* what each node refers to: an item, or Empty                   *)
  gate,     (* marked_buffers_list_guard: the thread inside mark()           *)
  marker, ret,        (* marker, and what mark() returned to each thread     *)
  pc, batch, held,    (* the call of manage(): its items, the nodes it holds *)
  flight, sent,       (* async_write: "none", "sending" or "done"; progress  *)
  calls, log, order   (* history: calls, items sent, items in splice order   *)

lists == <<cached, free, managed, marked, cleared, contents>>
marks == <<gate, marker, ret>>
hold  == <<batch, held>>
write == <<flight, sent, log>>
vars  == <<lists, marks, pc, hold, write, calls, order>>

Nodes  == Cached \cup Pool
Empty  == <<0, 0>>
Items  == ((1..MaxCalls) \X (1..MaxBatch)) \cup {Empty}
Labels == {"idle", "hold", "malloc", "fill", "splice", "mark", "swap", "decide",
           "clear", "release"}

TypeOK ==
  /\ cached \in Seq(Cached) /\ free \in SUBSET Pool
  /\ managed \in Seq(Nodes) /\ marked \in Seq(Nodes)
  /\ cleared \in 0..Len(marked)
  /\ contents \in [Nodes -> Items]
  /\ gate \in Threads \cup {NoThread}
  /\ marker \in 0..MaxMarker
  /\ ret \in [Threads -> -MaxMarker..MaxMarker]
  /\ pc \in [Threads -> Labels]
  /\ batch \in [Threads -> Seq(Items)] /\ held \in [Threads -> Seq(Nodes)]
  /\ flight \in {"none", "sending", "done"} /\ sent \in 0..Len(marked)
  /\ calls \in 0..MaxCalls /\ log \in Seq(Items) /\ order \in Seq(Items)

Init ==
  /\ cached = SetToSeq(Cached) /\ free = Pool
  /\ managed = <<>> /\ marked = <<>> /\ cleared = 0
  /\ contents = [n \in Nodes |-> Empty]
  /\ gate = NoThread /\ marker = 0 /\ ret = [t \in Threads |-> 0]
  /\ pc = [t \in Threads |-> "idle"]
  /\ batch = [t \in Threads |-> <<>>] /\ held = [t \in Threads |-> <<>>]
  /\ flight = "none" /\ sent = 0
  /\ calls = 0 /\ log = <<>> /\ order = <<>>

At(t, l) == pc[t] = l
Go(t, l) == pc' = [pc EXCEPT ![t] = l]

----------------------------------------------------------------------------
(* manage(): every buffer is copied into a node of its own, then the nodes   *)
(* are spliced to the managed list together.                                 *)

Manage(t) ==
  /\ At(t, "idle")
  /\ calls < MaxCalls /\ calls' = calls + 1
  /\ \E n \in 0..MaxBatch :
       /\ batch' = [batch EXCEPT ![t] = [i \in 1..n |-> <<calls + 1, i>>]]
       /\ Go(t, IF n = 0 THEN "splice" ELSE "hold")
  /\ held' = [held EXCEPT ![t] = <<>>]
  /\ UNCHANGED <<lists, marks, write, order>>

Take(t, n) == held' = [held EXCEPT ![t] = Append(@, n)] /\ UNCHANGED batch

HoldCached(t) ==
  /\ At(t, "hold")
  /\ IF cached = <<>>
       THEN Go(t, "malloc") /\ UNCHANGED <<cached, hold>>
       ELSE Go(t, "fill") /\ cached' = Tail(cached) /\ Take(t, Head(cached))
  /\ UNCHANGED <<free, managed, marked, cleared, contents, marks, write, calls, order>>

HoldPool(t) ==
  /\ At(t, "malloc") /\ Go(t, "fill")
  /\ \E n \in free : free' = free \ {n} /\ Take(t, n)
  /\ UNCHANGED <<cached, managed, marked, cleared, contents, marks, write, calls, order>>

(* *p = b, outside the lock.                                                 *)
Fill(t) ==
  /\ At(t, "fill")
  /\ contents' = [contents EXCEPT ![Last(held[t])] = batch[t][Len(held[t])]]
  /\ Go(t, IF Len(held[t]) < Len(batch[t]) THEN "hold" ELSE "splice")
  /\ UNCHANGED <<cached, free, managed, marked, cleared, marks, hold, write, calls, order>>

(* Fault: each buffer is appended when it is held, not the batch at the end. *)
SpliceEach(t) ==
  /\ At(t, "splice") /\ held[t] # <<>>
  /\ managed' = Append(managed, Head(held[t]))
  /\ held' = [held EXCEPT ![t] = Tail(@)]
  /\ order' = IF Len(held[t]) = Len(batch[t]) THEN order \o batch[t] ELSE order
  /\ Go(t, IF Len(held[t]) = 1 THEN "mark" ELSE "splice")
  /\ UNCHANGED <<cached, free, marked, cleared, contents, marks, batch, write, calls>>

Splice(t) ==
  /\ At(t, "splice") /\ Go(t, "mark")
  /\ managed' = managed \o held[t]
  /\ held' = [held EXCEPT ![t] = <<>>]
  /\ order' = order \o batch[t]
  /\ UNCHANGED <<cached, free, marked, cleared, contents, marks, batch, write, calls>>

----------------------------------------------------------------------------
(* mark().                                                                   *)

Answer(t, r) == ret' = [ret EXCEPT ![t] = r] /\ Go(t, "decide")

(* Fault: mark() does not look at the marked list.                           *)
MarkLookBlind(t) ==
  /\ At(t, "mark") /\ gate = NoThread /\ gate' = t /\ Go(t, "swap")
  /\ UNCHANGED <<lists, marker, ret, hold, write, calls, order>>

MarkLook(t) ==
  /\ At(t, "mark") /\ gate = NoThread
  /\ IF marked # <<>> THEN Answer(t, -marker) /\ UNCHANGED gate
                      ELSE gate' = t /\ Go(t, "swap") /\ UNCHANGED ret
  /\ UNCHANGED <<lists, marker, hold, write, calls, order>>

(* Fault: the marker wraps to zero.                                          *)
MarkSwapZero(t) ==
  /\ At(t, "swap") /\ gate' = NoThread
  /\ IF managed = <<>>
       THEN Answer(t, 0) /\ UNCHANGED <<managed, marked, marker>>
       ELSE /\ marked' = managed /\ managed' = marked
            /\ marker' = IF marker = MaxMarker THEN 0 ELSE marker + 1
            /\ Answer(t, marker')
  /\ UNCHANGED <<cached, free, cleared, contents, hold, write, calls, order>>

MarkSwap(t) ==
  /\ At(t, "swap") /\ gate' = NoThread
  /\ IF managed = <<>>
       THEN Answer(t, 0) /\ UNCHANGED <<managed, marked, marker>>
       ELSE /\ marked' = managed /\ managed' = marked
            /\ marker' = IF marker = MaxMarker THEN 1 ELSE marker + 1
            /\ Answer(t, marker')
  /\ UNCHANGED <<cached, free, cleared, contents, hold, write, calls, order>>

----------------------------------------------------------------------------
(* session::write(): only a positive answer starts an async_write.           *)

Decide(t) ==
  /\ At(t, "decide") /\ Go(t, "idle")
  /\ flight' = IF ret[t] > 0 THEN "sending" ELSE flight
  /\ UNCHANGED <<lists, marks, hold, sent, log, calls, order>>

(* TCP takes the next buffer of marked(), as it is now.                      *)
SendBuffer ==
  /\ flight = "sending" /\ sent < Len(marked)
  /\ log' = Append(log, contents[marked[sent + 1]])
  /\ sent' = sent + 1
  /\ flight' = IF sent' = Len(marked) THEN "done" ELSE "sending"
  /\ UNCHANGED <<lists, marks, pc, hold, calls, order>>

(* Fault: the list is dropped without disposing its nodes.                   *)
CompleteDrop(t) ==
  /\ At(t, "idle") /\ Go(t, "mark")
  /\ flight = "done" /\ flight' = "none" /\ sent' = 0
  /\ marked' = <<>>
  /\ UNCHANGED <<cached, free, managed, cleared, contents, marks, hold, log, calls, order>>

Complete(t) ==
  /\ At(t, "idle") /\ Go(t, "clear")
  /\ flight = "done" /\ flight' = "none" /\ sent' = 0
  /\ UNCHANGED <<lists, marks, hold, log, calls, order>>

----------------------------------------------------------------------------
(* clear_marked() and free_buffer().                                         *)

Wipe(t) ==
  /\ At(t, "clear") /\ cleared < Len(marked) /\ Go(t, "release")
  /\ contents' = [contents EXCEPT ![marked[cleared + 1]] = Empty]
  /\ UNCHANGED <<cached, free, managed, marked, cleared, marks, hold, write, calls, order>>

(* Fault: every node goes back to the cache.                                 *)
ReleaseCached(t) ==
  /\ At(t, "release") /\ Go(t, "clear")
  /\ cached' = <<marked[cleared + 1]>> \o cached
  /\ cleared' = cleared + 1
  /\ UNCHANGED <<free, managed, marked, contents, marks, hold, write, calls, order>>

Release(t) ==
  /\ At(t, "release") /\ Go(t, "clear")
  /\ LET p == marked[cleared + 1]
     IN  IF p \in Cached THEN cached' = <<p>> \o cached /\ UNCHANGED free
                         ELSE free' = free \cup {p} /\ UNCHANGED cached
  /\ cleared' = cleared + 1
  /\ UNCHANGED <<managed, marked, contents, marks, hold, write, calls, order>>

ClearEnd(t) ==
  /\ At(t, "clear") /\ cleared = Len(marked) /\ Go(t, "mark")
  /\ marked' = <<>> /\ cleared' = 0
  /\ UNCHANGED <<cached, free, managed, contents, marks, hold, write, calls, order>>

----------------------------------------------------------------------------
Finished == /\ calls = MaxCalls /\ flight = "none" /\ \A t \in Threads : At(t, "idle")
            /\ UNCHANGED vars

Next ==
  \/ \E t \in Threads :
       \/ Manage(t) \/ HoldCached(t) \/ HoldPool(t) \/ Fill(t) \/ Splice(t)
       \/ MarkLook(t) \/ MarkSwap(t) \/ Decide(t)
       \/ Complete(t) \/ Wipe(t) \/ Release(t) \/ ClearEnd(t)
  \/ SendBuffer
  \/ Finished

Spec == Init /\ [][Next]_vars

----------------------------------------------------------------------------
(* Properties.                                                               *)

Clearing == \E t \in Threads : pc[t] \in {"clear", "release"}
ItemsOf(s) == [i \in DOMAIN s |-> contents[s[i]]]

(* The nodes of the marked list that clear_marked() has not yet disposed.    *)
Undisposed == SubSeq(marked, cleared + 1, Len(marked))

(* Every node is in exactly one place, once: none leaks, none is handed out  *)
(* twice, and a preallocated node never ends up in the pool or vice versa.   *)
NodeOnce ==
  LET listed == cached \o managed \o Undisposed
  IN  /\ cached \in Seq(Cached) /\ free \subseteq Pool
      /\ free \cup ToSet(listed) \cup UNION {ToSet(held[t]) : t \in Threads} = Nodes
      /\ IsInjective(listed) /\ ToSet(listed) \cap free = {}
      /\ \A t \in Threads :
           /\ IsInjective(held[t])
           /\ ToSet(held[t]) \cap (ToSet(listed) \cup free) = {}
           /\ \A u \in Threads \ {t} : ToSet(held[t]) \cap ToSet(held[u]) = {}

(* What was sent, is being sent and waits is, in this order, the batches in  *)
(* the order of their splices: the buffers of one write() stay together,     *)
(* nothing is lost, and no node is reused while it still has to be sent.     *)
BatchesInOrder ==
  LET out == IF Clearing THEN <<>> ELSE ItemsOf(marked)
  IN  log \o SubSeq(out, sent + 1, Len(out)) \o ItemsOf(managed) = order

(* "marked() and clear_marked() should be protected by marker": a non-empty  *)
(* marked list has exactly one user, the thread that got the positive answer *)
(* or the write it started or the completion that clears it; and the answers *)
(* the others get are negative, never the zero that means drained.           *)
MarkerProtects ==
  /\ Cardinality({t \in Threads : \/ pc[t] \in {"clear", "release"}
                                  \/ pc[t] = "decide" /\ ret[t] > 0})
       + (IF flight = "none" THEN 0 ELSE 1) = (IF marked = <<>> THEN 0 ELSE 1)
  /\ marked # <<>> => marker > 0

OutQ == INSTANCE OutQueue WITH
  queue <- ItemsOf(managed),
  out   <- IF Clearing THEN <<>> ELSE ItemsOf(marked),
  sent  <- sent,
  log   <- log

(* The node-level manager is an OutQueue: clear_marked() is its Done, and    *)
(* reusing nodes while the list is being cleared is invisible.               *)
ImplementsOutQueue == OutQ!Spec
=============================================================================
