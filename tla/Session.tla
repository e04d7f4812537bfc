------------------------------ MODULE Session ------------------------------
(***************************************************************************)
(* The life of one minapp::session: connecting, the read loop, the write   *)
(* pump, close(false) and close(true), and the destructor.                 *)
(*                                                                         *)
(* Threads run the io_context and the application's calls.  A session has  *)
(* no strand, so the completion handlers of its operations can run at the  *)
(* same time as each other and as calls of user code.  task[t] is what     *)
(* thread t is running and pc[t] the statement it executes next; one step  *)
(* is the code from one access to shared state to the next.  The calls the *)
(* code makes are tail calls, except those a handler callback makes:       *)
(* after[t] says what the code does when the callback returns.             *)
(***************************************************************************)
EXTENDS Naturals, Sequences

CONSTANTS
  Threads,      (* threads that run completions, tasks and user calls        *)
  MaxCalls,     (* bound: calls of write() and close() made by user code     *)
  MaxBacklog,   (* bound: packets left in the buffer by one read             *)
  EarlyAccess   (* user code finds the session in the session_manager before *)
                (* a handler callback has received it                        *)

ASSUME SessionAssumption ==
  /\ Threads # {}
  /\ MaxCalls \in Nat
  /\ MaxBacklog \in Nat
  /\ EarlyAccess \in BOOLEAN

VARIABLES
  status,   (* status_                                                       *)
  sock,     (* socket_: "open", "rxshut" after shutdown_receive, "closed"    *)
  promise,  (* the future of connect(); "null" for an accepted session       *)
  op,       (* asynchronous operations: "none", "pending", or the result     *)
            (* "ok" / "err" of a completion waiting for a thread             *)
  managed,  (* write_queue_: managed_buffers_list                            *)
  marked,   (* write_queue_: marked_buffers_list                             *)
  backlog,  (* buf_: complete packets not yet delivered                      *)
  task, pc, after,  (* what each thread runs                                 *)
  owner,    (* session_ptr of the application: "held", "dropped", and        *)
            (* "destroyed" once the destructor has begun                     *)
  calls,    (* calls user code has made so far                               *)
  entered,  (* a handler callback has received the session                   *)
  accepted, (* history: buffers taken by manage(), numbered from 1           *)
  acked,    (* history: buffers whose completion clear_marked() has handled  *)
  wire,     (* history: buffers TCP has taken, in order                      *)
  promised, (* history: accepted at the moment close(false) took effect      *)
  drained,  (* history: write() found the queue drained and closes           *)
  raced,    (* history: a buffer was queued between that look at the queue   *)
            (* and the look at status_ that follows it                       *)
  closeCbs  (* history: calls of handler::close                              *)

queue  == <<managed, marked, accepted, acked, wire>>
thread == <<task, pc, after>>
user   == <<owner, calls, entered>>
hist   == <<promised, drained, raced, closeCbs>>
vars   == <<status, sock, promise, op, queue, backlog, thread, user, hist>>

Status == {"connecting", "connected", "reading", "closing", "closed"}
Tasks  == {"none", "connect", "read", "write", "call", "destroy"}
Labels == {"idle", "handler", "connected", "entry", "settle", "read", "arm",
           "clear", "write_list", "manage", "write", "mark", "drained",
           "start", "close_false", "shut_recv", "close_true", "shut_both",
           "on_close"}
(* After connect and read callbacks comes read(), after write the call of    *)
(* clear_marked(), after error close(false) or close(true).                  *)
Afters == {"none", "read", "clear", "close_false", "close_true"}

Ops == {"connect", "read", "write"}

DataOK ==
  /\ status \in Status
  /\ sock \in {"open", "rxshut", "closed"}
  /\ promise \in {"null", "pending", "value", "exception", "broken"}
  /\ op \in [Ops -> {"none", "pending", "ok", "err"}]
  /\ managed \in Seq(Nat) /\ marked \in Seq(Nat)
  /\ acked \in Seq(Nat) /\ wire \in Seq(Nat)
  /\ backlog \in Nat
  /\ owner \in {"held", "dropped", "destroyed"}
  /\ calls \in Nat /\ accepted \in Nat /\ promised \in Nat /\ closeCbs \in Nat
  /\ entered \in BOOLEAN /\ drained \in BOOLEAN /\ raced \in BOOLEAN

(* A thread inside a handler callback knows what to do when it returns.      *)
ThreadOK ==
  /\ task \in [Threads -> Tasks]
  /\ pc \in [Threads -> Labels]
  /\ after \in [Threads -> Afters]
  /\ \A t \in Threads : pc[t] = "handler" => after[t] # "none"

TypeOK == DataOK /\ ThreadOK

(* A connector's session starts with async_connect pending; an acceptor's is *)
(* built in the completion of async_accept, around an open socket.           *)
Init ==
  /\ status = "connecting" /\ sock = "open"
  /\ \E r \in {"pending", "ok"} :
       /\ op = [o \in Ops |-> IF o = "connect" THEN r ELSE "none"]
       /\ promise = IF r = "pending" THEN "pending" ELSE "null"
  /\ managed = <<>> /\ marked = <<>> /\ acked = <<>> /\ wire = <<>>
  /\ backlog = 0
  /\ task = [t \in Threads |-> "none"]
  /\ pc = [t \in Threads |-> "idle"]
  /\ after = [t \in Threads |-> "none"]
  /\ owner = "held" /\ entered = FALSE /\ drained = FALSE /\ raced = FALSE
  /\ calls = 0 /\ accepted = 0 /\ promised = 0 /\ closeCbs = 0

----------------------------------------------------------------------------
(* Control flow.                                                             *)

At(t, l) == pc[t] = l

Go(t, l) == pc' = [pc EXCEPT ![t] = l] /\ UNCHANGED <<task, after>>

(* An idle thread takes up a task.                                           *)
Begin(t, k, l) == /\ At(t, "idle")
                  /\ task' = [task EXCEPT ![t] = k]
                  /\ pc' = [pc EXCEPT ![t] = l]

End(t) == /\ task' = [task EXCEPT ![t] = "none"]
          /\ pc' = [pc EXCEPT ![t] = "idle"]
          /\ UNCHANGED after

(* A call returns: into the handler callback that made it, to the rest of    *)
(* session::connect(), or to the end of the task.                            *)
Return(t) == CASE after[t] # "none"     -> Go(t, "handler")
               [] after[t] = "none" /\ task[t] = "connect" -> Go(t, "settle")
               [] OTHER                 -> End(t)

(* The code invokes a handler callback and executes k when it returns.       *)
Callback(t, k) == /\ pc' = [pc EXCEPT ![t] = "handler"]
                  /\ after' = [after EXCEPT ![t] = k]
                  /\ entered' = TRUE
                  /\ UNCHANGED <<owner, calls>>

(* A completion whose first statement is a handler callback.                 *)
CompleteInto(t, k, next) == /\ At(t, "idle")
                            /\ task' = [task EXCEPT ![t] = k]
                            /\ Callback(t, next)

----------------------------------------------------------------------------
(* Operations and their results (Boost.Asio and the network).                *)

Finish(o, r) == /\ op[o] = "pending" /\ op' = [op EXCEPT ![o] = r]
                /\ UNCHANGED <<status, sock, promise, managed, marked, accepted,
                               acked, backlog, thread, user, hist>>

ConnectDone == /\ \/ sock # "closed" /\ Finish("connect", "ok")
                  \/ Finish("connect", "err")
               /\ UNCHANGED wire

(* Data already received can still be read after shutdown_receive.           *)
ReadData == sock # "closed" /\ Finish("read", "ok") /\ UNCHANGED wire

ReadEnd  == Finish("read", "err") /\ UNCHANGED wire

(* async_write succeeds when TCP has taken every buffer of the marked list.  *)
WriteOk  == sock # "closed" /\ Finish("write", "ok") /\ wire' = wire \o marked

WriteErr == /\ Finish("write", "err")
            /\ \E n \in 0..(Len(marked) - 1) : wire' = wire \o SubSeq(marked, 1, n)

----------------------------------------------------------------------------
(* session::connect(ec, promise).                                            *)

ConnectCompletion(t) ==
  /\ \A u \in Threads : task[u] # "connect"
  /\ \/ op["connect"] = "ok"  /\ Begin(t, "connect", "connected") /\ UNCHANGED <<after, user>>
     \/ op["connect"] = "err" /\ CompleteInto(t, "connect", "close_true")
  /\ UNCHANGED <<status, sock, promise, op, queue, backlog, hist>>

(* The store is unconditional.                                               *)
SetConnected(t) ==
  /\ At(t, "connected") /\ Go(t, "entry")
  /\ status' = "connected"
  /\ UNCHANGED <<sock, promise, op, queue, backlog, user, hist>>

(* socket_.remote_endpoint() throws when the socket is closed or the peer is *)
(* gone; the exception leaves io_context::run() and breaks the promise.      *)
EnterConnected(t) ==
  /\ At(t, "entry")
  /\ \/ /\ sock # "closed" /\ Callback(t, "read")
        /\ UNCHANGED <<task, promise, op>>
     \/ /\ End(t) /\ op' = [op EXCEPT !["connect"] = "none"]
        /\ promise' = IF promise = "pending" THEN "broken" ELSE promise
        /\ UNCHANGED user
  /\ UNCHANGED <<status, sock, queue, backlog, hist>>

(* Fault: a failed connect leaves the promise alone.                         *)
SettleOk(t) ==
  /\ At(t, "settle") /\ End(t)
  /\ promise' = IF promise = "pending" /\ op["connect"] = "ok" THEN "value" ELSE promise
  /\ op' = [op EXCEPT !["connect"] = "none"]
  /\ UNCHANGED <<status, sock, queue, backlog, user, hist>>

Settle(t) ==
  /\ At(t, "settle") /\ End(t)
  /\ promise' = CASE promise # "pending" -> promise
                  [] promise = "pending" /\ op["connect"] = "ok" -> "value"
                  [] OTHER -> "exception"
  /\ op' = [op EXCEPT !["connect"] = "none"]
  /\ UNCHANGED <<status, sock, queue, backlog, user, hist>>

----------------------------------------------------------------------------
(* session::read() and the completions of the read operations.               *)

Read(t) ==
  /\ At(t, "read")
  /\ IF status \in {"connected", "reading"}
       THEN status' = "reading" /\ Go(t, "arm")
       ELSE UNCHANGED status /\ Return(t)
  /\ UNCHANGED <<sock, promise, op, queue, backlog, user, hist>>

(* A packet already complete in the buffer is delivered at once; protocol    *)
(* none reads nothing; a malformed packet or an unknown protocol is an error.*)
Arm(t) ==
  /\ At(t, "arm")
  /\ \/ /\ backlog = 0 /\ op' = [op EXCEPT !["read"] = "pending"]
        /\ Return(t) /\ UNCHANGED <<status, backlog, user>>
     \/ /\ backlog > 0 /\ backlog' = backlog - 1
        /\ Callback(t, "read") /\ UNCHANGED <<task, status, op>>
     \/ /\ status' = IF status = "reading" THEN "connected" ELSE status
        /\ Return(t) /\ UNCHANGED <<op, backlog, user>>
     \/ Callback(t, "close_false") /\ UNCHANGED <<task, status, op, backlog>>
  /\ UNCHANGED <<sock, promise, queue, hist>>

(* Fault: the next read is started before the callback runs.                 *)
ReadCompletionEarly(t) ==
  /\ op["read"] = "ok" /\ CompleteInto(t, "read", "read")
  /\ op' = [op EXCEPT !["read"] = "pending"]
  /\ UNCHANGED <<status, sock, promise, queue, backlog, hist>>

(* One read may bring several packets.                                       *)
ReadCompletion(t) ==
  /\ \/ /\ op["read"] = "ok"  /\ CompleteInto(t, "read", "read")
        /\ backlog' \in 0..MaxBacklog
     \/ /\ op["read"] = "err" /\ CompleteInto(t, "read", "close_false")
        /\ UNCHANGED backlog
  /\ op' = [op EXCEPT !["read"] = "none"]
  /\ UNCHANGED <<status, sock, promise, queue, hist>>

(* A read that brought (part of) a length prefix and no packet goes on, in   *)
(* any state, or fails with a protocol error.                                *)
PrefixCompletion(t) ==
  /\ op["read"] = "ok"
  /\ \/ /\ At(t, "idle") /\ UNCHANGED <<thread, user>>
        /\ op' = [op EXCEPT !["read"] = "pending"]
     \/ /\ CompleteInto(t, "read", "close_false")
        /\ op' = [op EXCEPT !["read"] = "none"]
  /\ UNCHANGED <<status, sock, promise, queue, backlog, hist>>

----------------------------------------------------------------------------
(* session::write(list), session::write() and the completion of async_write. *)

WriteList(t) ==
  /\ At(t, "write_list")
  /\ IF status \in {"closing", "closed"} THEN Return(t) ELSE Go(t, "manage")
  /\ UNCHANGED <<status, sock, promise, op, queue, backlog, user, hist>>

Overtakes(t) ==
  /\ raced' = (raced \/ \E u \in Threads : u # t /\ pc[u] = "drained")
  /\ UNCHANGED <<promised, drained, closeCbs>>

(* Fault: push_front.                                                        *)
ManageFront(t) ==
  /\ At(t, "manage") /\ Go(t, "write") /\ Overtakes(t)
  /\ accepted' = accepted + 1
  /\ managed' = <<accepted + 1>> \o managed
  /\ UNCHANGED <<status, sock, promise, op, marked, acked, wire, backlog, user>>

Manage(t) ==
  /\ At(t, "manage") /\ Go(t, "write") /\ Overtakes(t)
  /\ accepted' = accepted + 1
  /\ managed' = Append(managed, accepted + 1)
  /\ UNCHANGED <<status, sock, promise, op, marked, acked, wire, backlog, user>>

Write(t) ==
  /\ At(t, "write")
  /\ IF status = "closed" THEN Return(t) ELSE Go(t, "mark")
  /\ UNCHANGED <<status, sock, promise, op, queue, backlog, user, hist>>

(* Fault: mark() does not look whether a batch is out already.               *)
MarkUnguarded(t) ==
  /\ At(t, "mark")
  /\ \/ managed = <<>> /\ Go(t, "drained") /\ UNCHANGED <<managed, marked>>
     \/ managed # <<>> /\ Go(t, "start") /\ marked' = managed /\ managed' = marked
  /\ UNCHANGED <<status, sock, promise, op, accepted, acked, wire, backlog, user, hist>>

(* Fault: mark() looks at the managed list first.                            *)
MarkZeroFirst(t) ==
  /\ At(t, "mark")
  /\ \/ managed = <<>> /\ Go(t, "drained") /\ UNCHANGED <<managed, marked>>
     \/ managed # <<>> /\ marked # <<>> /\ Return(t) /\ UNCHANGED <<managed, marked>>
     \/ /\ managed # <<>> /\ marked = <<>> /\ Go(t, "start")
        /\ marked' = managed /\ managed' = <<>>
  /\ UNCHANGED <<status, sock, promise, op, accepted, acked, wire, backlog, user, hist>>

Mark(t) ==
  /\ At(t, "mark")
  /\ \/ /\ marked # <<>> /\ Return(t)
        /\ UNCHANGED <<managed, marked>>
     \/ /\ marked = <<>> /\ managed = <<>> /\ Go(t, "drained")
        /\ UNCHANGED <<managed, marked>>
     \/ /\ marked = <<>> /\ managed # <<>> /\ Go(t, "start")
        /\ marked' = managed /\ managed' = <<>>
  /\ UNCHANGED <<status, sock, promise, op, accepted, acked, wire, backlog, user, hist>>

Drained(t) ==
  /\ At(t, "drained")
  /\ IF status = "closing" THEN Go(t, "close_true") /\ drained' = TRUE
                           ELSE Return(t) /\ UNCHANGED drained
  /\ UNCHANGED <<status, sock, promise, op, queue, backlog, user, promised, raced, closeCbs>>

StartWrite(t) ==
  /\ At(t, "start") /\ Return(t)
  /\ op' = [op EXCEPT !["write"] = "pending"]
  /\ UNCHANGED <<status, sock, promise, queue, backlog, user, hist>>

WriteCompletion(t) ==
  /\ \/ op["write"] = "ok"  /\ CompleteInto(t, "write", "clear")
     \/ op["write"] = "err" /\ CompleteInto(t, "write", "close_true")
  /\ op' = [op EXCEPT !["write"] = "none"]
  /\ UNCHANGED <<status, sock, promise, queue, backlog, hist>>

(* Fault: the completion does not call write() again.                        *)
ClearMarkedOnly(t) ==
  /\ At(t, "clear") /\ End(t)
  /\ acked' = acked \o marked
  /\ marked' = <<>>
  /\ UNCHANGED <<status, sock, promise, op, managed, accepted, wire, backlog, user, hist>>

ClearMarked(t) ==
  /\ At(t, "clear") /\ Go(t, "write")
  /\ acked' = acked \o marked
  /\ marked' = <<>>
  /\ UNCHANGED <<status, sock, promise, op, managed, accepted, wire, backlog, user, hist>>

----------------------------------------------------------------------------
(* session::close(immediately).                                              *)

(* Fault: a store instead of the compare-and-swap loop.                      *)
CloseNowStore(t) ==
  /\ At(t, "close_true") /\ Go(t, "shut_both")
  /\ status' = "closed"
  /\ UNCHANGED <<sock, promise, op, queue, backlog, user, hist>>

CloseNow(t) ==
  /\ At(t, "close_true")
  /\ IF status = "closed" THEN UNCHANGED status /\ Return(t)
                          ELSE status' = "closed" /\ Go(t, "shut_both")
  /\ UNCHANGED <<sock, promise, op, queue, backlog, user, hist>>

(* Fault: the socket stays open.                                             *)
ShutdownBothLeak(t) ==
  /\ At(t, "shut_both") /\ Go(t, "on_close")
  /\ UNCHANGED <<status, sock, promise, op, queue, backlog, user, hist>>

ShutdownBoth(t) ==
  /\ At(t, "shut_both") /\ Go(t, "on_close")
  /\ sock' = "closed"
  /\ UNCHANGED <<status, promise, op, queue, backlog, user, hist>>

OnClose(t) ==
  /\ At(t, "on_close") /\ Return(t)
  /\ closeCbs' = closeCbs + 1
  /\ UNCHANGED <<status, sock, promise, op, queue, backlog, user, promised, drained, raced>>

(* Fault: a store instead of the compare-and-swap loop.                      *)
CloseGracefullyStore(t) ==
  /\ At(t, "close_false") /\ Go(t, "shut_recv")
  /\ status' = "closing" /\ promised' = accepted
  /\ UNCHANGED <<sock, promise, op, queue, backlog, user, drained, raced, closeCbs>>

CloseGracefully(t) ==
  /\ At(t, "close_false")
  /\ IF status \in {"closing", "closed"}
       THEN Return(t) /\ UNCHANGED <<status, promised>>
       ELSE Go(t, "shut_recv") /\ status' = "closing" /\ promised' = accepted
  /\ UNCHANGED <<sock, promise, op, queue, backlog, user, drained, raced, closeCbs>>

(* Fault: close(false) does not call write().                                *)
ShutdownReceiveOnly(t) ==
  /\ At(t, "shut_recv") /\ Return(t)
  /\ sock' = IF sock = "open" THEN "rxshut" ELSE sock
  /\ UNCHANGED <<status, promise, op, queue, backlog, user, hist>>

ShutdownReceive(t) ==
  /\ At(t, "shut_recv") /\ Go(t, "write")
  /\ sock' = IF sock = "open" THEN "rxshut" ELSE sock
  /\ UNCHANGED <<status, promise, op, queue, backlog, user, hist>>

----------------------------------------------------------------------------
(* User code: handler callbacks and calls from elsewhere.                    *)

UserCall(t) ==
  /\ calls < MaxCalls /\ calls' = calls + 1
  /\ \E l \in {"write_list", "close_false", "close_true"} :
       \/ At(t, "handler") /\ Go(t, l)
       \/ /\ owner = "held" /\ (EarlyAccess \/ entered)
          /\ Begin(t, "call", l) /\ UNCHANGED after
  /\ UNCHANGED <<status, sock, promise, op, queue, backlog, owner, entered, hist>>

(* Fault: what comes after the callback is forgotten.                        *)
HandlerReturnLost(t) ==
  /\ At(t, "handler")
  /\ pc' = [pc EXCEPT ![t] = "none"]
  /\ UNCHANGED <<status, sock, promise, op, queue, backlog, task, after, user, hist>>

HandlerReturn(t) ==
  /\ At(t, "handler")
  /\ pc' = [pc EXCEPT ![t] = after[t]]
  /\ after' = [after EXCEPT ![t] = "none"]
  /\ UNCHANGED <<status, sock, promise, op, queue, backlog, task, user, hist>>

(* The application lets its last session_ptr go.                             *)
Drop ==
  /\ owner = "held" /\ \A t \in Threads : task[t] # "call"
  /\ owner' = "dropped"
  /\ UNCHANGED <<status, sock, promise, op, queue, backlog, thread, calls, entered, hist>>

(* ~session(): every operation and every completion holds a session_ptr.     *)
Destroy(t) ==
  /\ owner = "dropped" /\ owner' = "destroyed"
  /\ \A o \in Ops : op[o] = "none"
  /\ \A u \in Threads : task[u] = "none"
  /\ Begin(t, "destroy", "close_true")
  /\ UNCHANGED <<status, sock, promise, op, queue, backlog, after, calls, entered, hist>>

(* Nothing is left to run after the destructor.                              *)
Finished == /\ owner = "destroyed" /\ \A t \in Threads : task[t] = "none"
            /\ UNCHANGED vars

----------------------------------------------------------------------------
Network == ConnectDone \/ ReadData \/ ReadEnd \/ WriteOk \/ WriteErr

(* The steps of the library's own code on thread t, completions apart.       *)
Code(t) ==
  \/ SetConnected(t) \/ EnterConnected(t) \/ Settle(t)
  \/ Read(t) \/ Arm(t)
  \/ WriteList(t) \/ Manage(t) \/ Write(t) \/ Mark(t) \/ Drained(t)
  \/ StartWrite(t) \/ ClearMarked(t)
  \/ CloseNow(t) \/ ShutdownBoth(t) \/ OnClose(t)
  \/ CloseGracefully(t) \/ ShutdownReceive(t)

Next ==
  \/ Network
  \/ \E t \in Threads : \/ Code(t)
                        \/ ConnectCompletion(t) \/ ReadCompletion(t) \/ PrefixCompletion(t)
                        \/ WriteCompletion(t) \/ UserCall(t) \/ HandlerReturn(t) \/ Destroy(t)
  \/ Drop
  \/ Finished

Spec == Init /\ [][Next]_vars

(***************************************************************************)
(* Fairness.  A thread that runs goes on (WF per thread) and callbacks     *)
(* return; io_context takes ready completions in FIFO order, so none waits *)
(* for ever although threads become idle and busy in between (SF); the     *)
(* kernel answers a connect, ends a read once the socket is shut, and the  *)
(* peer keeps reading, so that a write ends (WF).  Nothing makes data      *)
(* arrive, user code call, or the application drop the session.            *)
(***************************************************************************)
Fairness ==
  /\ \A t \in Threads : /\ WF_vars(Code(t))
                        /\ WF_vars(HandlerReturn(t))
  /\ SF_vars(\E t \in Threads : ConnectCompletion(t))
  /\ SF_vars(\E t \in Threads : ReadCompletion(t) \/ PrefixCompletion(t))
  /\ SF_vars(\E t \in Threads : WriteCompletion(t))
  /\ SF_vars(\E t \in Threads : Destroy(t))
  /\ WF_vars(ConnectDone)
  /\ WF_vars(sock # "open" /\ ReadEnd)
  /\ WF_vars(WriteOk \/ WriteErr)

FairSpec == Spec /\ Fairness

----------------------------------------------------------------------------
(* Safety.                                                                   *)

UpTo(n) == [i \in 1..n |-> i]

(* Buffers leave in the order write() accepted them, none lost, repeated or  *)
(* reordered, and handler::write reports only buffers that TCP has taken.    *)
WriteOrder ==
  /\ acked \o (marked \o managed) = UpTo(accepted)
  /\ wire = UpTo(Len(wire))
  /\ Len(acked) <= Len(wire)
  /\ Len(wire) <= Len(acked) + Len(marked)

(* The part of the write pump that owns the marked list: from mark() to the  *)
(* start of async_write, the operation itself, and its handler up to         *)
(* clear_marked(), or up to the end of close(true) after an error.           *)
InWriteHandler(t) == task[t] = "write" /\ (after[t] # "none" \/ pc[t] = "clear")
Pumping(t) == pc[t] = "start" \/ InWriteHandler(t)

(* At most one async_write is outstanding, and nobody else uses the list it  *)
(* reads from (the comment on persistent_buffer_manager: marked() and        *)
(* clear_marked() are protected by the marker).                              *)
SinglePump ==
  /\ \A t, u \in Threads : Pumping(t) /\ Pumping(u) => t = u
  /\ op["write"] # "none" => \A t \in Threads : ~Pumping(t)
  /\ op["write"] # "none" \/ (\E t \in Threads : Pumping(t)) => marked # <<>>

(* The buffers of an outstanding async_write do not change under it.         *)
MarkedStable == [][op["write"] \in {"pending", "ok"} => marked' = marked]_vars

(* The write side of the session is the queue that persistent_buffer_manager *)
(* is shown to implement node by node: a batch leaves the queue only when    *)
(* the one before has been acknowledged, its buffers are sent once and front *)
(* to back, and it is acknowledged only when TCP has taken all of it,        *)
(* whichever threads write, complete and close.                              *)
Queue == INSTANCE OutQueue WITH queue <- managed, out <- marked,
                                sent <- Len(wire) - Len(acked), log <- wire

ImplementsOutQueue == Queue!Spec

(* No wake-up is lost between write() calls and the completion handler: a    *)
(* buffer that waits is always followed up by a thread on its way to mark()  *)
(* or by the write in progress.                                              *)
Failing(t) == task[t] = "write" /\ pc[t] = "close_true"
Pumped == \/ op["write"] # "none"
          \/ \E t \in Threads : Pumping(t) \/ Failing(t)
NoLostWakeup ==
  status # "closed" =>
    /\ marked # <<>> => Pumped
    /\ managed # <<>> => \/ marked # <<>>
                         \/ \E t \in Threads : pc[t] \in {"write", "mark"}

(* A session in state closing has somebody who will close it: the pump, or a *)
(* thread that is about to look at the queue after the state changed.        *)
ClosingAttended ==
  status = "closing" =>
    \/ marked # <<>>
    \/ \E t \in Threads : pc[t] \in {"shut_recv", "write", "mark", "drained", "close_true"}

(* handler::close is called once, by the one thread that brought the state   *)
(* to closed; in all other states it has not been called.                    *)
Closing(t) == pc[t] \in {"shut_both", "on_close"}
CloseOnce ==
  /\ \A t, u \in Threads : Closing(t) /\ Closing(u) => t = u
  /\ IF \E t \in Threads : Closing(t)
       THEN status = "closed" /\ closeCbs = 0
       ELSE closeCbs = IF status = "closed" THEN 1 ELSE 0

(* Callbacks of the read side do not overlap: one chain of connect, read and *)
(* read completions runs at a time, on one thread, and only while no         *)
(* asynchronous read is outstanding.                                         *)
Reading(t) == \/ task[t] = "read" /\ (after[t] # "none" \/ pc[t] \in {"read", "arm"})
              \/ task[t] = "connect" /\ (after[t] = "read" \/ pc[t] \in {"read", "arm"})
SingleReader ==
  /\ \A t, u \in Threads : Reading(t) /\ Reading(u) => t = u
  /\ op["read"] # "none" => \A t \in Threads : ~Reading(t)

(* close(false) delivers what was written before it: when write() decides    *)
(* that the queue is drained, every buffer accepted before the call has been *)
(* acknowledged.  The one exception is a buffer queued by another thread     *)
(* while write() is between its looks at the queue and at status_.           *)
GracefulFlush == drained /\ ~raced => Len(acked) >= promised

(* closed has no way out.                                                    *)
ClosedIsFinal == [][status = "closed" => status' = "closed"]_vars

----------------------------------------------------------------------------
(* Liveness.                                                                 *)

(* close(false) ends in state closed.                                        *)
GracefulCloseEnds == status = "closing" ~> status = "closed"

(* Every accepted buffer is acknowledged unless the session closes.          *)
BufferAcked ==
  \A b \in 1..MaxCalls : accepted >= b ~> (Len(acked) >= b \/ status = "closed")

(* The future of connect() becomes ready.                                    *)
PromiseSettled == promise = "pending" ~> promise # "pending"

(* A closed session that the application has let go is destroyed: no         *)
(* operation keeps it alive.                                                 *)
ClosedIsFreed ==
  (status = "closed" /\ owner = "dropped") ~> (owner = "destroyed")
=============================================================================
