------------------------------- MODULE Service -------------------------------
(***************************************************************************)
(* A service at work: connect() and the acceptor create sessions, which    *)
(* the session_manager registers (module SessionManager, whose threads and *)
(* session_ptrs these are) before they have a handler; the completions of  *)
(* async_connect and async_accept call handlers, whose exceptions          *)
(* noexcept_handler_impl contains.  Other threads find sessions with get() *)
(* and foreach() all the time.                                             *)
(*                                                                         *)
(* step[t] is what thread t does for the service, with session self[t];    *)
(* while it creates or releases a session, pc[t] says how far it is.       *)
(***************************************************************************)
EXTENDS SessionManager

VARIABLES
  sock,    (* the acceptor's socket: "closed", "open" or "listening"         *)
  accept,  (* async_accept: "none", "pending", or its result "ok" or "err"   *)
  failed,  (* history: an accept has ended in an error                       *)
  step, who, (* of each thread; the handler object whose code it is in       *)
  origin,  (* of each session: "service" and "callback" from connect(),      *)
           (* "accept" from the acceptor, "none" before                      *)
  handler, (* handler_: "none" is the null pointer, "user" a wrapped handler *)
           (* of the application, "callback" a connect_handler, or "dummy"   *)
  conn,    (* of connect_handlers: the std::function has not been moved out  *)
  op,      (* async_connect: "none", "pending", its result, "failing" until *)
           (* close(true), and "done", or "thrown" by remote_endpoint()     *)
  called   (* history: calls of the std::function given to connect()         *)

acceptor == <<sock, accept, failed>>
thread   == <<step, who>>
session  == <<origin, handler, conn, op, called>>
svars    == <<vars, acceptor, thread, session>>

Steps    == {"idle", "rearm", "create", "fill", "assign", "start",
             "connect", "except", "error", "again", "close"}
Handlers == {"none", "user", "callback", "dummy"}

ServiceTypeOK ==
  /\ TypeOK
  /\ sock \in {"closed", "open", "listening"}
  /\ accept \in {"none", "pending", "ok", "err"} /\ failed \in BOOLEAN
  /\ step \in [Threads -> Steps] /\ who \in [Threads -> Handlers]
  /\ origin \in [Ids -> {"none", "service", "callback", "accept"}]
  /\ handler \in [Ids -> Handlers] /\ conn \in [Ids -> BOOLEAN]
  /\ op \in [Ids -> {"none", "pending", "ok", "err", "failing", "thrown", "done"}]
  /\ called \in [Ids -> Nat]
  /\ \A t \in Threads : step[t] \in {"connect", "except", "error", "again", "close"} =>
       /\ who[t] # "none" /\ pc[t] = "idle" /\ refs[self[t]] # {}

ServiceInit ==
  /\ Init
  /\ sock = "closed" /\ accept = "none" /\ failed = FALSE
  /\ step = [t \in Threads |-> "idle"] /\ who = [t \in Threads |-> "none"]
  /\ origin = [i \in Ids |-> "none"] /\ handler = [i \in Ids |-> "none"]
  /\ conn = [i \in Ids |-> FALSE] /\ op = [i \in Ids |-> "none"]
  /\ called = [i \in Ids |-> 0]

On(t, s)   == step[t] = s /\ At(t, "idle")
Then(t, s) == step' = [step EXCEPT ![t] = s]

(* noexcept_handler::wrap(): what handler_ becomes when it is set.           *)
Wrap == [null |-> "dummy", handler |-> "user"]

----------------------------------------------------------------------------
(* The acceptor.                                                             *)

(* Fault: a socket that is open is not an error.                             *)
BindAgain(t) ==
  /\ On(t, "idle")
  /\ \/ sock' = "open" /\ UNCHANGED accept
     \/ sock' = "listening" /\ accept' = "pending"
  /\ UNCHANGED <<vars, failed, thread, session>>

(* open() fails on an open socket, which a failed bind() or listen() leaves. *)
Bind(t) ==
  /\ On(t, "idle") /\ sock = "closed"
  /\ \/ sock' = "open" /\ UNCHANGED accept
     \/ sock' = "listening" /\ accept' = "pending"
  /\ UNCHANGED <<vars, failed, thread, session>>

(* cancel() ends a pending accept; it has no effect on a completion that     *)
(* waits for a thread, nor on later accepts.                                 *)
Unbind(t) ==
  /\ On(t, "idle") /\ accept = "pending" /\ accept' = "err"
  /\ UNCHANGED <<vars, sock, failed, thread, session>>

(* A connection, or an error such as too many open files.                    *)
Incoming ==
  /\ accept = "pending" /\ accept' \in {"ok", "err"}
  /\ UNCHANGED <<vars, sock, failed, thread, session>>

(* The error is thrown out of io_context::run().                             *)
AcceptCompletion(t) ==
  /\ On(t, "idle") /\ accept \in {"ok", "err"} /\ accept' = "none"
  /\ IF accept = "ok" THEN Then(t, "rearm") /\ UNCHANGED failed
                      ELSE failed' = TRUE /\ UNCHANGED step
  /\ UNCHANGED <<vars, sock, who, session>>

(* The next accept() comes first.                                            *)
Rearm(t) ==
  /\ On(t, "rearm") /\ Then(t, "create")
  /\ accept' = "pending"
  /\ UNCHANGED <<vars, sock, failed, who, session>>

----------------------------------------------------------------------------
(* Building a session: session_manager::create(), then its members.          *)

CreateFor(t, o) ==
  /\ Create(t) /\ Then(t, "fill")
  /\ origin' = [origin EXCEPT ![self'[t]] = o]
  /\ conn' = [conn EXCEPT ![self'[t]] = (o = "callback")]
  /\ UNCHANGED <<acceptor, who, handler, op, called>>

Connect(t)  == step[t] = "idle" /\ \E o \in {"service", "callback"} : CreateFor(t, o)
Accepted(t) == step[t] = "create" /\ CreateFor(t, "accept")

(* attrs.swap(), or the assignment of socket_.                               *)
Fill(t) ==
  /\ On(t, "fill") /\ Then(t, "assign")
  /\ UNCHANGED <<vars, acceptor, who, session>>

AssignHandler(t) ==
  /\ On(t, "assign") /\ Then(t, "start")
  /\ handler' = [handler EXCEPT ![self[t]] =
       IF origin[self[t]] = "callback" THEN "callback" ELSE Wrap.handler]
  /\ UNCHANGED <<vars, acceptor, who, origin, conn, op, called>>

(* The operation holds a session_ptr; that of connect_impl() goes.           *)
StartConnect(t) ==
  /\ On(t, "start") /\ origin[self[t]] # "accept"
  /\ Then(t, "idle") /\ Go(t, "release")
  /\ refs' = [refs EXCEPT ![self[t]] = @ \cup {Owner}]
  /\ op' = [op EXCEPT ![self[t]] = "pending"]
  /\ UNCHANGED <<guard, sessions, lastId, weak, self, iter, from, visited, scans>>
  /\ UNCHANGED <<acceptor, who, origin, handler, conn, called>>

Answer ==
  /\ \E i \in Ids : op[i] = "pending" /\ \E r \in {"ok", "err"} : op' = [op EXCEPT ![i] = r]
  /\ UNCHANGED <<vars, acceptor, thread, origin, handler, conn, called>>

----------------------------------------------------------------------------
(* session::connect(ec, promise) and noexcept_handler_impl, whose code t is  *)
(* in when step[t] is "connect", "except", "error", "again" or "close".      *)

Enter(t, i, s) == Then(t, s) /\ who' = [who EXCEPT ![t] = handler[i]]

(* The end of a completion that holds a session_ptr: an operation or the     *)
(* application has taken another one, or not.                                *)
Leave(t, i) ==
  /\ Then(t, "idle") /\ Go(t, "release") /\ who' = [who EXCEPT ![t] = "none"]
  /\ refs' = [refs EXCEPT ![i] = @ \cup {t}] \/ refs' = [refs EXCEPT ![i] = @ \cup {t, Owner}]

Stay == UNCHANGED <<pc, refs>>

(* Fault: the completion holds no session_ptr.                               *)
ConnectCompletionUnheld(t) ==
  /\ On(t, "idle")
  /\ \E i \in Ids :
       /\ self' = [self EXCEPT ![t] = i]
       /\ \/ op[i] = "ok" /\ op' = [op EXCEPT ![i] = "done"] /\ Enter(t, i, "connect") /\ UNCHANGED pc
          \/ op[i] = "err" /\ op' = [op EXCEPT ![i] = "failing"] /\ Enter(t, i, "error") /\ UNCHANGED pc
  /\ UNCHANGED <<set, pc, iter, from, visited, scans>>
  /\ UNCHANGED <<acceptor, origin, handler, conn, called>>

(* remote_endpoint() may throw, before any handler is called.                *)
ConnectCompletion(t) ==
  /\ On(t, "idle")
  /\ \E i \in Ids :
       /\ self' = [self EXCEPT ![t] = i]
       /\ refs' = [refs EXCEPT ![i] = (@ \ {Owner}) \cup {t}]
       /\ \/ op[i] = "ok" /\ op' = [op EXCEPT ![i] = "done"] /\ Enter(t, i, "connect") /\ UNCHANGED pc
          \/ op[i] = "ok" /\ op' = [op EXCEPT ![i] = "thrown"] /\ Go(t, "release") /\ UNCHANGED thread
          \/ op[i] = "err" /\ op' = [op EXCEPT ![i] = "failing"] /\ Enter(t, i, "error") /\ UNCHANGED pc
  /\ UNCHANGED <<guard, sessions, lastId, weak, iter, from, visited, scans>>
  /\ UNCHANGED <<acceptor, origin, handler, conn, called>>

StartAccepted(t) ==
  /\ On(t, "start") /\ origin[self[t]] = "accept"
  /\ \/ Enter(t, self[t], "connect") /\ UNCHANGED pc
     \/ Then(t, "idle") /\ Go(t, "release") /\ UNCHANGED who
  /\ UNCHANGED <<set, self, iter, from, visited, scans>>
  /\ UNCHANGED <<acceptor, session>>

(* The function is at its end; after a failed connect comes close(true).     *)
Done(t) ==
  \/ /\ op[self[t]] = "failing" /\ op' = [op EXCEPT ![self[t]] = "done"]
     /\ Then(t, "close") /\ who' = [who EXCEPT ![t] = handler'[self[t]]] /\ Stay
  \/ op[self[t]] # "failing" /\ Leave(t, self[t]) /\ UNCHANGED op

Fails(t, s) == Then(t, s) /\ Stay /\ UNCHANGED <<who, op>>

Handles(t, s) ==
  /\ On(t, s)
  /\ UNCHANGED <<guard, sessions, lastId, weak, self, iter, from, visited, scans>>
  /\ UNCHANGED <<acceptor, origin>>

(* Fault: the function is copied, not moved out.                             *)
InvokeCopy(t) ==
  LET i == self[t]
  IN \/ who[t] # "callback" /\ UNCHANGED <<handler, conn, called>>
     \/ /\ who[t] = "callback" /\ UNCHANGED conn
        /\ handler' = [handler EXCEPT ![i] = Wrap.null]
        /\ called' = [called EXCEPT ![i] = @ + 1]

(* connect_impl() or error_impl() of a connect_handler: handler_ becomes the *)
(* dummy, and the function given to connect() is moved out and called, which *)
(* may set another handler; without function the dummy is called.            *)
Invoke(t) ==
  LET i == self[t]
  IN \/ who[t] # "callback" /\ UNCHANGED <<handler, conn, called>>
     \/ /\ who[t] = "callback" /\ ~conn[i]
        /\ handler' = [handler EXCEPT ![i] = Wrap.null] /\ UNCHANGED <<conn, called>>
     \/ /\ who[t] = "callback" /\ conn[i]
        /\ \E h \in {Wrap.null, Wrap.handler} : handler' = [handler EXCEPT ![i] = h]
        /\ conn' = [conn EXCEPT ![i] = FALSE]
        /\ called' = [called EXCEPT ![i] = @ + 1]

MayThrow(t) == who[t] = "user" \/ (who[t] = "callback" /\ conn[self[t]])

(* A std::exception goes to except(), anything else to error().              *)
OnConnect(t) ==
  /\ Handles(t, "connect") /\ Invoke(t)
  /\ Done(t) \/ (MayThrow(t) /\ (Fails(t, "except") \/ Fails(t, "error")))

OnExcept(t) ==
  /\ Handles(t, "except") /\ UNCHANGED <<handler, conn, called>>
  /\ Done(t) \/ (who[t] = "user" /\ Fails(t, "error"))

(* error_impl() is called again if it throws, and only once.                 *)
OnError(t) ==
  /\ Handles(t, "error") /\ Invoke(t)
  /\ Done(t) \/ (MayThrow(t) /\ Fails(t, "again"))

OnErrorAgain(t) == Handles(t, "again") /\ Invoke(t) /\ Done(t)

OnClose(t) ==
  /\ Handles(t, "close") /\ UNCHANGED <<handler, conn, called>>
  /\ Done(t) \/ (who[t] = "user" /\ (Fails(t, "except") \/ Fails(t, "error")))

----------------------------------------------------------------------------
(* Steps of the session_manager; operations keep their session_ptr.          *)

InFlight(i) == op[i] \in {"pending", "ok", "err"}

Registry(t) ==
  /\ \/ Insert(t) \/ Publish(t, t) \/ Release(t)
     \/ ScanLock(t) \/ Scan(t) \/ Visit(t) \/ ReleaseScan(t)
     \/ step[t] = "idle" /\ (Get(t) \/ ScanStart(t))
     \/ step[t] = "idle" /\ Drop(t) /\ \A i \in Ids : InFlight(i) => Owner \in refs'[i]
  /\ UNCHANGED <<acceptor, thread, session>>

(* Nothing is remembered of a session that is gone.                          *)
Destroyed(t) ==
  /\ Erase(t)
  /\ origin' = [origin EXCEPT ![self[t]] = "none"]
  /\ handler' = [handler EXCEPT ![self[t]] = "none"]
  /\ conn' = [conn EXCEPT ![self[t]] = FALSE]
  /\ op' = [op EXCEPT ![self[t]] = "none"]
  /\ called' = [called EXCEPT ![self[t]] = 0]
  /\ UNCHANGED <<acceptor, thread>>

ServiceNext ==
  \/ Incoming \/ Answer
  \/ \E t \in Threads :
       \/ Registry(t) \/ Destroyed(t)
       \/ Bind(t) \/ Unbind(t) \/ AcceptCompletion(t) \/ Rearm(t)
       \/ Connect(t) \/ Accepted(t) \/ Fill(t) \/ AssignHandler(t) \/ StartConnect(t)
       \/ ConnectCompletion(t) \/ StartAccepted(t)
       \/ OnConnect(t) \/ OnExcept(t) \/ OnError(t) \/ OnErrorAgain(t) \/ OnClose(t)

ServiceSpec == ServiceInit /\ [][ServiceNext]_svars

----------------------------------------------------------------------------
(* Properties.                                                               *)

(* Once bind() has returned and until an accept ends in an error, one accept *)
(* is outstanding, or one thread is about to start it: no connection waits   *)
(* while threads build sessions, and no two accepts run at a time.           *)
AcceptorListens ==
  /\ accept # "none" => \A t \in Threads : step[t] # "rearm"
  /\ \A t, u \in Threads : step[t] = "rearm" /\ step[u] = "rearm" => t = u
  /\ sock = "listening" /\ ~failed =>
       accept # "none" \/ \E t \in Threads : step[t] = "rearm"

(* The function given to connect() is called once for every connect() that   *)
(* completes, whether it succeeds or fails and whatever the function throws, *)
(* and never again.                                                          *)
ConnectCalledOnce ==
  \A i \in Ids :
    /\ called[i] <= 1
    /\ origin[i] = "callback" /\ op[i] = "done" /\ (\A t \in Threads : self[t] = i => step[t] = "idle") =>
         called[i] = 1

(* A session being destroyed, or closed after an error, has a handler whose  *)
(* close() can be called, although it could be found before it had one.      *)
ClosesWithHandler ==
  \A t \in Threads : Erasing(t) \/ step[t] = "close" => handler[self[t]] # "none"

(* A session that get() or foreach() returns can be closed: its handler_ is  *)
(* not null (every session has a handler, whose close it calls).             *)
HandlerPresent ==
  \A t \in Threads :
    /\ At(t, "visit")   => handler[iter[t]] # "none"
    /\ At(t, "release") => handler[self[t]] # "none"
=============================================================================
