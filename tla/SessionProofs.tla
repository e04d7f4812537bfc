--------------------------- MODULE SessionProofs ---------------------------
(***************************************************************************)
(* Theorems about Session, for any set of threads and any bounds.          *)
(***************************************************************************)
EXTENDS Session, TLAPS

----------------------------------------------------------------------------
(* Control flow: how the moves of a thread change task, pc and after.        *)

LEMMA GoType ==
  ASSUME ThreadOK, NEW t \in Threads, NEW l \in Labels, Go(t, l),
         l = "handler" => after[t] # "none"
  PROVE  ThreadOK'
BY DEF ThreadOK, Go

LEMMA EndType ==
  ASSUME ThreadOK, NEW t \in Threads, End(t)
  PROVE  ThreadOK'
BY DEF ThreadOK, End, Tasks, Labels

LEMMA ReturnType ==
  ASSUME ThreadOK, NEW t \in Threads, Return(t)
  PROVE  ThreadOK'
<1>1. CASE after[t] # "none"
  BY <1>1, GoType DEF Return, Labels
<1>2. CASE after[t] = "none" /\ task[t] = "connect"
  BY <1>2, GoType DEF Return, Labels
<1>3. CASE ~(after[t] # "none") /\ ~(after[t] = "none" /\ task[t] = "connect")
  BY <1>3, EndType DEF Return
<1> QED
  BY <1>1, <1>2, <1>3

LEMMA BeginType ==
  ASSUME ThreadOK, NEW t \in Threads, NEW k \in Tasks, NEW l \in Labels \ {"handler"},
         Begin(t, k, l), after' = after
  PROVE  ThreadOK'
BY DEF ThreadOK, Begin

LEMMA CallbackType ==
  ASSUME ThreadOK, NEW t \in Threads, NEW k \in Afters \ {"none"}, Callback(t, k),
         task' \in [Threads -> Tasks]
  PROVE  ThreadOK'
BY DEF ThreadOK, Callback, Labels

----------------------------------------------------------------------------
(* Type correctness.                                                         *)

LEMMA CallbackData ==
  ASSUME DataOK, NEW t \in Threads, NEW k \in Afters, Callback(t, k)
  PROVE  /\ owner' \in {"held", "dropped", "destroyed"}
         /\ calls' \in Nat
         /\ entered' \in BOOLEAN
BY DEF DataOK, Callback

LEMMA TypeInductive == TypeOK /\ [Next]_vars => TypeOK'
<1> SUFFICES ASSUME TypeOK, [Next]_vars PROVE TypeOK'
  OBVIOUS
<1> USE DEF Ops
<1>0. ThreadOK /\ DataOK
  BY DEF TypeOK
<1>1. CASE Network
  <2>1. ThreadOK'
    BY <1>0, <1>1 DEF Network, ConnectDone, ReadData, ReadEnd, WriteOk, WriteErr, Finish,
                      thread, ThreadOK
  <2>2. DataOK'
    <3> USE <1>0 DEF DataOK, Finish, user, hist
    <3>1. CASE ConnectDone
      BY <3>1 DEF ConnectDone
    <3>2. CASE ReadData
      BY <3>2 DEF ReadData
    <3>3. CASE ReadEnd
      BY <3>3 DEF ReadEnd
    <3>4. CASE WriteOk
      BY <3>4 DEF WriteOk
    <3>5. CASE WriteErr
      BY <3>5 DEF WriteErr
    <3> QED
      BY <1>1, <3>1, <3>2, <3>3, <3>4, <3>5 DEF Network
  <2> QED
    BY <2>1, <2>2 DEF TypeOK
<1>2. ASSUME NEW t \in Threads, Code(t) PROVE TypeOK'
  <2> USE <1>0
  <2>1. CASE SetConnected(t)
    <3>1. ThreadOK'  BY <2>1, GoType DEF SetConnected, Labels
    <3>2. DataOK'    BY <2>1 DEF SetConnected, DataOK, Status, queue, user, hist
    <3> QED BY <3>1, <3>2 DEF TypeOK
  <2>2. CASE EnterConnected(t)
    <3>1. ThreadOK'  BY <2>2, EndType, CallbackType DEF EnterConnected, Afters, ThreadOK
    <3>2. DataOK'    BY <2>2, CallbackData DEF EnterConnected, DataOK, Afters, queue, user, hist
    <3> QED BY <3>1, <3>2 DEF TypeOK
  <2>3. CASE Settle(t)
    <3>1. ThreadOK'  BY <2>3, EndType DEF Settle
    <3>2. DataOK'    BY <2>3 DEF Settle, DataOK, queue, user, hist
    <3> QED BY <3>1, <3>2 DEF TypeOK
  <2>4. CASE Read(t)
    <3>1. ThreadOK'  BY <2>4, GoType, ReturnType DEF Read, Labels
    <3>2. DataOK'    BY <2>4 DEF Read, DataOK, Status, queue, user, hist
    <3> QED BY <3>1, <3>2 DEF TypeOK
  <2>5. CASE Arm(t)
    <3>1. ThreadOK'  BY <2>5, ReturnType, CallbackType DEF Arm, Afters, ThreadOK
    <3>2. DataOK'    BY <2>5, CallbackData DEF Arm, DataOK, Afters, Status, queue, user, hist
    <3> QED BY <3>1, <3>2 DEF TypeOK
  <2>6. CASE WriteList(t)
    <3>1. ThreadOK'  BY <2>6, GoType, ReturnType DEF WriteList, Labels
    <3>2. DataOK'    BY <2>6 DEF WriteList, DataOK, queue, user, hist
    <3> QED BY <3>1, <3>2 DEF TypeOK
  <2>7. CASE Manage(t)
    <3>1. ThreadOK'  BY <2>7, GoType DEF Manage, Labels
    <3>2. DataOK'    BY <2>7 DEF Manage, Overtakes, DataOK, user, hist
    <3> QED BY <3>1, <3>2 DEF TypeOK
  <2>8. CASE Write(t)
    <3>1. ThreadOK'  BY <2>8, GoType, ReturnType DEF Write, Labels
    <3>2. DataOK'    BY <2>8 DEF Write, DataOK, queue, user, hist
    <3> QED BY <3>1, <3>2 DEF TypeOK
  <2>9. CASE Mark(t)
    <3>1. ThreadOK'  BY <2>9, GoType, ReturnType DEF Mark, Labels
    <3>2. DataOK'    BY <2>9 DEF Mark, DataOK, user, hist
    <3> QED BY <3>1, <3>2 DEF TypeOK
  <2>10. CASE Drained(t)
    <3>1. ThreadOK'  BY <2>10, GoType, ReturnType DEF Drained, Labels
    <3>2. DataOK'    BY <2>10 DEF Drained, DataOK, queue, user
    <3> QED BY <3>1, <3>2 DEF TypeOK
  <2>11. CASE StartWrite(t)
    <3>1. ThreadOK'  BY <2>11, ReturnType DEF StartWrite
    <3>2. DataOK'    BY <2>11 DEF StartWrite, DataOK, queue, user, hist
    <3> QED BY <3>1, <3>2 DEF TypeOK
  <2>12. CASE ClearMarked(t)
    <3>1. ThreadOK'  BY <2>12, GoType DEF ClearMarked, Labels
    <3>2. DataOK'    BY <2>12 DEF ClearMarked, DataOK, user, hist
    <3> QED BY <3>1, <3>2 DEF TypeOK
  <2>13. CASE CloseNow(t)
    <3>1. ThreadOK'  BY <2>13, GoType, ReturnType DEF CloseNow, Labels
    <3>2. DataOK'    BY <2>13 DEF CloseNow, DataOK, Status, queue, user, hist
    <3> QED BY <3>1, <3>2 DEF TypeOK
  <2>14. CASE ShutdownBoth(t)
    <3>1. ThreadOK'  BY <2>14, GoType DEF ShutdownBoth, Labels
    <3>2. DataOK'    BY <2>14 DEF ShutdownBoth, DataOK, queue, user, hist
    <3> QED BY <3>1, <3>2 DEF TypeOK
  <2>15. CASE OnClose(t)
    <3>1. ThreadOK'  BY <2>15, ReturnType DEF OnClose
    <3>2. DataOK'    BY <2>15 DEF OnClose, DataOK, queue, user
    <3> QED BY <3>1, <3>2 DEF TypeOK
  <2>16. CASE CloseGracefully(t)
    <3>1. ThreadOK'  BY <2>16, GoType, ReturnType DEF CloseGracefully, Labels
    <3>2. DataOK'    BY <2>16 DEF CloseGracefully, DataOK, Status, queue, user
    <3> QED BY <3>1, <3>2 DEF TypeOK
  <2>17. CASE ShutdownReceive(t)
    <3>1. ThreadOK'  BY <2>17, GoType DEF ShutdownReceive, Labels
    <3>2. DataOK'    BY <2>17 DEF ShutdownReceive, DataOK, queue, user, hist
    <3> QED BY <3>1, <3>2 DEF TypeOK
  <2> QED
    BY <1>2, <2>1, <2>2, <2>3, <2>4, <2>5, <2>6, <2>7, <2>8, <2>9, <2>10,
       <2>11, <2>12, <2>13, <2>14, <2>15, <2>16, <2>17 DEF Code
<1>3. ASSUME NEW t \in Threads, ConnectCompletion(t) PROVE TypeOK'
  <2>1. ThreadOK'
    BY <1>0, <1>3, BeginType, CallbackType
       DEF ConnectCompletion, CompleteInto, Tasks, Labels, Afters, ThreadOK
  <2>2. DataOK'
    BY <1>0, <1>3, CallbackData DEF ConnectCompletion, CompleteInto, DataOK, Afters, queue, user, hist
  <2> QED BY <2>1, <2>2 DEF TypeOK
<1>4. ASSUME NEW t \in Threads, ReadCompletion(t) PROVE TypeOK'
  <2>1. ThreadOK'
    BY <1>0, <1>4, CallbackType DEF ReadCompletion, CompleteInto, Tasks, Afters, ThreadOK
  <2>2. DataOK'
    BY <1>0, <1>4, CallbackData, SessionAssumption
       DEF ReadCompletion, CompleteInto, DataOK, Afters, queue, hist
  <2> QED BY <2>1, <2>2 DEF TypeOK
<1>5. ASSUME NEW t \in Threads, WriteCompletion(t) PROVE TypeOK'
  <2>1. ThreadOK'
    BY <1>0, <1>5, CallbackType DEF WriteCompletion, CompleteInto, Tasks, Afters, ThreadOK
  <2>2. DataOK'
    BY <1>0, <1>5, CallbackData DEF WriteCompletion, CompleteInto, DataOK, Afters, queue, hist
  <2> QED BY <2>1, <2>2 DEF TypeOK
<1>6. ASSUME NEW t \in Threads, UserCall(t) PROVE TypeOK'
  <2>1. ThreadOK'
    BY <1>0, <1>6, GoType, BeginType DEF UserCall, Tasks, Labels
  <2>2. DataOK'
    <3>1. /\ calls' = calls + 1
          /\ UNCHANGED <<status, sock, promise, op, queue, backlog, owner, entered, hist>>
      BY <1>6 DEF UserCall
    <3> QED
      BY <1>0, <3>1 DEF DataOK, queue, hist
  <2> QED BY <2>1, <2>2 DEF TypeOK
<1>7. ASSUME NEW t \in Threads, HandlerReturn(t) PROVE TypeOK'
  <2>1. ThreadOK'
    BY <1>0, <1>7 DEF HandlerReturn, ThreadOK, At, Labels, Afters
  <2>2. DataOK'
    BY <1>0, <1>7 DEF HandlerReturn, DataOK, queue, user, hist
  <2> QED BY <2>1, <2>2 DEF TypeOK
<1>8. ASSUME NEW t \in Threads, Destroy(t) PROVE TypeOK'
  <2>1. ThreadOK'
    BY <1>0, <1>8, BeginType DEF Destroy, Tasks, Labels
  <2>2. DataOK'
    BY <1>0, <1>8 DEF Destroy, DataOK, queue, hist
  <2> QED BY <2>1, <2>2 DEF TypeOK
<1>9. CASE Drop \/ Finished \/ UNCHANGED vars
  <2>1. CASE Drop
    <3>1. ThreadOK'
      BY <1>0, <2>1 DEF Drop, thread, ThreadOK
    <3>2. DataOK'
      BY <1>0, <2>1 DEF Drop, queue, hist, DataOK
    <3> QED BY <3>1, <3>2 DEF TypeOK
  <2>2. CASE Finished \/ UNCHANGED vars
    BY <1>0, <2>2 DEF Finished, vars, queue, thread, user, hist, TypeOK, ThreadOK, DataOK
  <2> QED BY <1>9, <2>1, <2>2
<1>10. ASSUME NEW t \in Threads, PrefixCompletion(t) PROVE TypeOK'
  <2>1. ThreadOK'
    BY <1>0, <1>10, CallbackType
       DEF PrefixCompletion, CompleteInto, Tasks, Afters, ThreadOK, thread
  <2>2. DataOK'
    BY <1>0, <1>10, CallbackData DEF PrefixCompletion, CompleteInto, DataOK, Afters, queue, user, hist
  <2> QED BY <2>1, <2>2 DEF TypeOK
<1> QED
  BY <1>1, <1>2, <1>3, <1>4, <1>5, <1>6, <1>7, <1>8, <1>9, <1>10 DEF Next

LEMMA InitType == Init => TypeOK
<1> SUFFICES ASSUME Init PROVE TypeOK
  OBVIOUS
<1>1. ThreadOK
  BY DEF Init, ThreadOK, Tasks, Labels, Afters
<1>2. PICK r \in {"pending", "ok"} :
        /\ op = [o \in Ops |-> IF o = "connect" THEN r ELSE "none"]
        /\ promise = IF r = "pending" THEN "pending" ELSE "null"
  BY DEF Init
<1>3. op \in [Ops -> {"none", "pending", "ok", "err"}]
  BY <1>2
<1>4. entered \in BOOLEAN /\ drained \in BOOLEAN /\ raced \in BOOLEAN
  BY DEF Init
<1>5. DataOK
  BY <1>2, <1>3, <1>4 DEF Init, DataOK, Status
<1> QED
  BY <1>1, <1>5 DEF TypeOK

(* Every variable keeps its type, whatever the threads, the network and the  *)
(* application do.                                                           *)
THEOREM TypeCorrect == Spec => []TypeOK
BY InitType, TypeInductive, PTL DEF Spec

----------------------------------------------------------------------------
(* What the moves of one thread do to task, pc and after.                    *)

OthersSame(t) ==
  \A u \in Threads \ {t} :
    pc'[u] = pc[u] /\ task'[u] = task[u] /\ after'[u] = after[u]

LEMMA GoMove ==
  ASSUME ThreadOK, NEW t \in Threads, NEW l, Go(t, l)
  PROVE  /\ OthersSame(t)
         /\ pc'[t] = l /\ task'[t] = task[t] /\ after'[t] = after[t]
BY DEF ThreadOK, Go, OthersSame

LEMMA EndMove ==
  ASSUME ThreadOK, NEW t \in Threads, End(t)
  PROVE  /\ OthersSame(t)
         /\ pc'[t] = "idle" /\ task'[t] = "none" /\ after'[t] = after[t]
BY DEF ThreadOK, End, OthersSame

LEMMA ReturnMove ==
  ASSUME ThreadOK, NEW t \in Threads, Return(t)
  PROVE  /\ OthersSame(t)
         /\ after'[t] = after[t]
         /\ \/ after[t] # "none" /\ pc'[t] = "handler" /\ task'[t] = task[t]
            \/ /\ after[t] = "none" /\ task[t] = "connect"
               /\ pc'[t] = "settle" /\ task'[t] = "connect"
            \/ /\ after[t] = "none" /\ task[t] # "connect"
               /\ pc'[t] = "idle" /\ task'[t] = "none"
<1>1. CASE after[t] # "none"
  BY <1>1, GoMove DEF Return
<1>2. CASE after[t] = "none" /\ task[t] = "connect"
  BY <1>2, GoMove DEF Return
<1>3. CASE ~(after[t] # "none") /\ ~(after[t] = "none" /\ task[t] = "connect")
  BY <1>3, EndMove DEF Return
<1> QED
  BY <1>1, <1>2, <1>3

LEMMA BeginMove ==
  ASSUME ThreadOK, NEW t \in Threads, NEW k, NEW l, Begin(t, k, l), after' = after
  PROVE  /\ OthersSame(t)
         /\ pc[t] = "idle" /\ pc'[t] = l /\ task'[t] = k /\ after'[t] = after[t]
BY DEF ThreadOK, Begin, At, OthersSame

LEMMA CallbackMove ==
  ASSUME ThreadOK, NEW t \in Threads, NEW k, Callback(t, k), task' = task
  PROVE  /\ OthersSame(t)
         /\ pc'[t] = "handler" /\ task'[t] = task[t] /\ after'[t] = k
BY DEF ThreadOK, Callback, OthersSame

LEMMA CompleteMove ==
  ASSUME ThreadOK, NEW t \in Threads, NEW k, NEW l, CompleteInto(t, k, l)
  PROVE  /\ OthersSame(t)
         /\ pc[t] = "idle" /\ pc'[t] = "handler" /\ task'[t] = k /\ after'[t] = l
BY DEF ThreadOK, CompleteInto, Callback, At, OthersSame

LEMMA HandlerReturnMove ==
  ASSUME ThreadOK, NEW t \in Threads, HandlerReturn(t)
  PROVE  /\ OthersSame(t)
         /\ pc[t] = "handler" /\ after[t] # "none"
         /\ pc'[t] = after[t] /\ task'[t] = task[t] /\ after'[t] = "none"
BY DEF ThreadOK, HandlerReturn, At, OthersSame

LEMMA NetworkMove ==
  ASSUME DataOK, Network
  PROVE  /\ UNCHANGED <<thread, status, sock, promise, managed, marked, accepted, acked,
                        backlog, user, hist>>
         /\ \A o \in Ops : \/ op'[o] = op[o]
                           \/ op[o] = "pending" /\ op'[o] \in {"ok", "err"}
<1>1. PICK o \in Ops, r \in {"ok", "err"} : Finish(o, r)
  BY DEF Network, ConnectDone, ReadData, ReadEnd, WriteOk, WriteErr, Ops
<1>2. UNCHANGED <<thread, status, sock, promise, managed, marked, accepted, acked,
                  backlog, user, hist>>
  BY <1>1 DEF Finish
<1>3. op[o] = "pending" /\ op' = [op EXCEPT ![o] = r]
  BY <1>1 DEF Finish
<1> QED
  BY <1>2, <1>3 DEF DataOK

----------------------------------------------------------------------------
(* Which statements a task can be at, and inside which callbacks.            *)

Control(t) ==
  /\ pc[t] = "idle" => after[t] = "none"
  /\ pc[t] \in {"connected", "entry", "settle"} => task[t] = "connect" /\ after[t] = "none"
  /\ pc[t] = "clear" => task[t] = "write" /\ after[t] = "none"
  /\ after[t] = "clear" => task[t] = "write"
  /\ pc[t] \in {"read", "arm"} => task[t] \in {"connect", "read"} /\ after[t] = "none"
  /\ after[t] = "read" => task[t] \in {"connect", "read"}

ControlOK == \A t \in Threads : Control(t)

LEMMA ControlStep ==
  ASSUME ControlOK, NEW t \in Threads, OthersSame(t), Control(t)'
  PROVE  ControlOK'
BY DEF ControlOK, Control, OthersSame

LEMMA ControlReturn ==
  ASSUME ThreadOK, ControlOK, NEW t \in Threads, Return(t)
  PROVE  ControlOK'
<1>1. Control(t)'
  BY ReturnMove DEF ControlOK, Control
<1> QED
  BY <1>1, ReturnMove, ControlStep

LEMMA ControlGo ==
  ASSUME ThreadOK, ControlOK, NEW t \in Threads, NEW l, Go(t, l),
         l \notin {"idle", "connected", "entry", "settle", "clear", "read", "arm"}
  PROVE  ControlOK'
<1>1. Control(t)'
  BY GoMove DEF ControlOK, Control
<1> QED
  BY <1>1, GoMove, ControlStep

LEMMA ControlInductive == TypeOK /\ ControlOK /\ [Next]_vars => ControlOK'
<1> SUFFICES ASSUME TypeOK, ControlOK, [Next]_vars PROVE ControlOK'
  OBVIOUS
<1>0. ThreadOK /\ DataOK
  BY DEF TypeOK
<1>1. CASE Network
  BY <1>0, <1>1, NetworkMove DEF thread, ControlOK, Control
<1>2. ASSUME NEW t \in Threads, Code(t) PROVE ControlOK'
  <2> USE <1>0
  <2>c. Control(t)
    BY DEF ControlOK
  <2>1. CASE SetConnected(t)
    <3>1. Control(t)'
      BY <2>c, <2>1, GoMove DEF SetConnected, At, Control
    <3> QED
      BY <2>1, <3>1, GoMove, ControlStep DEF SetConnected
  <2>2. CASE EnterConnected(t)
    <3>1. CASE Callback(t, "read") /\ task' = task
      <4>1. Control(t)'
        BY <2>c, <2>2, <3>1, CallbackMove DEF EnterConnected, At, Control
      <4> QED
        BY <3>1, <4>1, CallbackMove, ControlStep
    <3>2. CASE End(t)
      <4>1. Control(t)'
        BY <2>c, <2>2, <3>2, EndMove DEF EnterConnected, At, Control
      <4> QED
        BY <3>2, <4>1, EndMove, ControlStep
    <3> QED
      BY <2>2, <3>1, <3>2 DEF EnterConnected
  <2>3. CASE Settle(t)
    <3>1. Control(t)'
      BY <2>c, <2>3, EndMove DEF Settle, At, Control
    <3> QED
      BY <2>3, <3>1, EndMove, ControlStep DEF Settle
  <2>4. CASE Read(t)
    <3>1. CASE Go(t, "arm")
      <4>1. Control(t)'
        BY <2>c, <2>4, <3>1, GoMove DEF Read, At, Control
      <4> QED
        BY <3>1, <4>1, GoMove, ControlStep
    <3> QED
      BY <2>4, <3>1, ControlReturn DEF Read
  <2>5. CASE Arm(t)
    <3>1. ASSUME NEW k \in {"read", "close_false"}, Callback(t, k), task' = task
          PROVE  ControlOK'
      <4>1. Control(t)'
        BY <2>c, <2>5, <3>1, CallbackMove DEF Arm, At, Control
      <4> QED
        BY <3>1, <4>1, CallbackMove, ControlStep
    <3> QED
      BY <2>5, <3>1, ControlReturn DEF Arm
  <2>6. CASE ClearMarked(t)
    BY <2>6, ControlGo DEF ClearMarked
  <2>7. CASE WriteList(t) \/ Manage(t) \/ Write(t) \/ Mark(t) \/ Drained(t) \/ StartWrite(t)
    BY <2>7, ControlGo, ControlReturn DEF WriteList, Manage, Write, Mark, Drained, StartWrite
  <2>8. CASE CloseNow(t) \/ ShutdownBoth(t) \/ OnClose(t) \/ CloseGracefully(t) \/ ShutdownReceive(t)
    BY <2>8, ControlGo, ControlReturn
       DEF CloseNow, ShutdownBoth, OnClose, CloseGracefully, ShutdownReceive
  <2> QED
    BY <1>2, <2>1, <2>2, <2>3, <2>4, <2>5, <2>6, <2>7, <2>8 DEF Code
<1>3. ASSUME NEW t \in Threads,
             \/ ConnectCompletion(t) \/ ReadCompletion(t) \/ PrefixCompletion(t)
             \/ WriteCompletion(t) \/ Destroy(t)
      PROVE  ControlOK'
  <2>c. Control(t)
    BY DEF ControlOK
  <2>1. ASSUME NEW k, NEW l, CompleteInto(t, k, l),
               <<k, l>> \in {<<"connect", "close_true">>, <<"read", "read">>, <<"read", "close_false">>,
                            <<"write", "clear">>, <<"write", "close_true">>}
        PROVE  ControlOK'
    <3>1. Control(t)'
      BY <1>0, <2>1, CompleteMove DEF Control
    <3> QED
      BY <1>0, <2>1, <3>1, CompleteMove, ControlStep
  <2>2. ASSUME NEW k, NEW l, Begin(t, k, l), after' = after,
               <<k, l>> \in {<<"connect", "connected">>, <<"destroy", "close_true">>}
        PROVE  ControlOK'
    <3>1. Control(t)'
      BY <1>0, <2>c, <2>2, BeginMove DEF Control
    <3> QED
      BY <1>0, <2>2, <3>1, BeginMove, ControlStep
  <2>3. CASE UNCHANGED thread
    BY <2>3 DEF thread, ControlOK, Control
  <2> QED
    BY <1>3, <2>1, <2>2, <2>3
       DEF ConnectCompletion, ReadCompletion, PrefixCompletion, WriteCompletion, Destroy
<1>4. ASSUME NEW t \in Threads, UserCall(t) PROVE ControlOK'
  <2>1. PICK l \in {"write_list", "close_false", "close_true"} :
          Go(t, l) \/ (Begin(t, "call", l) /\ after' = after)
    BY <1>4 DEF UserCall
  <2>2. CASE Go(t, l)
    BY <1>0, <2>2, ControlGo
  <2>3. CASE Begin(t, "call", l) /\ after' = after
    <3>1. Control(t)'
      BY <1>0, <2>3, BeginMove DEF ControlOK, Control
    <3> QED
      BY <1>0, <2>3, <3>1, BeginMove, ControlStep
  <2> QED
    BY <2>1, <2>2, <2>3
<1>5. ASSUME NEW t \in Threads, HandlerReturn(t) PROVE ControlOK'
  <2>1. Control(t)'
    BY <1>0, <1>5, HandlerReturnMove DEF ControlOK, Control, ThreadOK, Afters
  <2> QED
    BY <1>0, <1>5, <2>1, HandlerReturnMove, ControlStep
<1>6. CASE Drop \/ Finished \/ UNCHANGED vars
  BY <1>6 DEF Drop, Finished, vars, thread, ControlOK, Control
<1> QED
  BY <1>1, <1>2, <1>3, <1>4, <1>5, <1>6 DEF Next

----------------------------------------------------------------------------
(* The write pump.                                                           *)

PumpOK ==
  /\ SinglePump
  /\ \A t \in Threads : pc[t] = "start" => ~InWriteHandler(t)

(* A step that leaves the list and the operation alone, and that does not    *)
(* make its thread part of the pump.                                         *)
LEMMA PumpFrame ==
  ASSUME PumpOK, NEW t \in Threads, OthersSame(t), marked' = marked,
         op'["write"] = op["write"], Pumping(t)' => Pumping(t), pc'[t] # "start"
  PROVE  PumpOK'
BY DEF PumpOK, SinglePump, Pumping, InWriteHandler, OthersSame

LEMMA PumpGo ==
  ASSUME ThreadOK, PumpOK, NEW t \in Threads, NEW l, Go(t, l), l \notin {"start", "clear"},
         marked' = marked, op'["write"] = op["write"]
  PROVE  PumpOK'
<1>1. Pumping(t)' => Pumping(t)
  BY GoMove DEF Pumping, InWriteHandler
<1> QED
  BY <1>1, GoMove, PumpFrame

LEMMA PumpReturn ==
  ASSUME ThreadOK, PumpOK, NEW t \in Threads, Return(t),
         marked' = marked, op'["write"] = op["write"]
  PROVE  PumpOK'
<1>1. Pumping(t)' => Pumping(t)
  BY ReturnMove DEF Pumping, InWriteHandler
<1>2. pc'[t] # "start"
  BY ReturnMove
<1> QED
  BY <1>1, <1>2, ReturnMove, PumpFrame

LEMMA PumpInductive == TypeOK /\ ControlOK /\ PumpOK /\ [Next]_vars => PumpOK'
<1> SUFFICES ASSUME TypeOK, ControlOK, PumpOK, [Next]_vars PROVE PumpOK'
  OBVIOUS
<1>0. ThreadOK /\ DataOK
  BY DEF TypeOK
<1>a. ASSUME NEW o \in Ops \ {"write"}, NEW r, op' = [op EXCEPT ![o] = r]
      PROVE  op'["write"] = op["write"]
  BY <1>0, <1>a DEF DataOK, Ops
<1>1. CASE Network
  <2>1. op'["write"] = "none" <=> op["write"] = "none"
    BY <1>0, <1>1, NetworkMove DEF Ops
  <2> QED
    BY <1>0, <1>1, <2>1, NetworkMove DEF thread, PumpOK, SinglePump, Pumping, InWriteHandler
<1>2. ASSUME NEW t \in Threads, Code(t) PROVE PumpOK'
  <2> USE <1>0
  <2>c. Control(t)
    BY DEF ControlOK
  <2>1. CASE SetConnected(t)
    BY <2>1, PumpGo DEF SetConnected, queue
  <2>2. CASE EnterConnected(t)
    <3>1. task[t] = "connect" /\ marked' = marked /\ op'["write"] = op["write"]
      BY <1>a, <2>c, <2>2 DEF EnterConnected, At, Control, queue, Ops
    <3>2. OthersSame(t) /\ task'[t] # "write" /\ pc'[t] # "start"
      BY <2>2, <3>1, CallbackMove, EndMove DEF EnterConnected
    <3>3. Pumping(t)' => Pumping(t)
      BY <3>2 DEF Pumping, InWriteHandler
    <3> QED
      BY <3>1, <3>2, <3>3, PumpFrame
  <2>3. CASE Settle(t)
    <3>1. marked' = marked /\ op'["write"] = op["write"]
      BY <1>a, <2>3 DEF Settle, queue, Ops
    <3>2. OthersSame(t) /\ task'[t] # "write" /\ pc'[t] # "start"
      BY <2>3, EndMove DEF Settle
    <3>3. Pumping(t)' => Pumping(t)
      BY <3>2 DEF Pumping, InWriteHandler
    <3> QED
      BY <3>1, <3>2, <3>3, PumpFrame
  <2>4. CASE Read(t)
    BY <2>4, PumpGo, PumpReturn DEF Read, queue
  <2>5. CASE Arm(t)
    <3>1. task[t] # "write" /\ marked' = marked /\ op'["write"] = op["write"]
      BY <1>a, <2>c, <2>5 DEF Arm, At, Control, queue, Ops
    <3>2. ASSUME NEW k, Callback(t, k), task' = task PROVE PumpOK'
      <4>1. OthersSame(t) /\ task'[t] # "write" /\ pc'[t] # "start"
        BY <3>1, <3>2, CallbackMove
      <4>2. Pumping(t)' => Pumping(t)
        BY <4>1 DEF Pumping, InWriteHandler
      <4> QED
        BY <3>1, <4>1, <4>2, PumpFrame
    <3> QED
      BY <2>5, <3>1, <3>2, PumpReturn DEF Arm
  <2>6. CASE WriteList(t) \/ Manage(t) \/ Write(t) \/ Drained(t)
    BY <2>6, PumpGo, PumpReturn DEF WriteList, Manage, Write, Drained, queue
  <2>7. CASE CloseNow(t) \/ ShutdownBoth(t) \/ OnClose(t) \/ CloseGracefully(t) \/ ShutdownReceive(t)
    BY <2>7, PumpGo, PumpReturn
       DEF CloseNow, ShutdownBoth, OnClose, CloseGracefully, ShutdownReceive, queue
  <2>8. CASE Mark(t)
    <3>1. CASE marked = <<>> /\ managed # <<>> /\ Go(t, "start") /\ marked' = managed
      <4>1. op["write"] = "none" /\ \A u \in Threads : ~Pumping(u)
        BY <3>1 DEF PumpOK, SinglePump
      <4>2. op' = op
        BY <2>8 DEF Mark
      <4>3. /\ \A u \in Threads : Pumping(u)' => u = t
            /\ ~InWriteHandler(t)'
        BY <3>1, <4>1, GoMove DEF OthersSame, Pumping, InWriteHandler
      <4> QED
        BY <3>1, <4>1, <4>2, <4>3 DEF PumpOK, SinglePump, Pumping
    <3> QED
      BY <2>8, <3>1, PumpGo, PumpReturn DEF Mark
  <2>9. CASE StartWrite(t)
    <3>1. Return(t) /\ marked' = marked /\ op'["write"] = "pending" /\ pc[t] = "start"
      BY <2>9 DEF StartWrite, At, queue, DataOK, Ops
    <3>2. marked # <<>> /\ \A u \in Threads : Pumping(u) => u = t
      BY <3>1 DEF PumpOK, SinglePump, Pumping
    <3>3. ~Pumping(t)'
      BY <3>1, ReturnMove DEF PumpOK, Pumping, InWriteHandler
    <3>4. \A u \in Threads : ~Pumping(u)'
      BY <3>1, <3>2, <3>3, ReturnMove DEF OthersSame, Pumping, InWriteHandler
    <3> QED
      BY <3>1, <3>2, <3>4 DEF PumpOK, SinglePump, Pumping
  <2>10. CASE ClearMarked(t)
    <3>1. Go(t, "write") /\ op' = op
      BY <2>10 DEF ClearMarked
    <3>2. Pumping(t) /\ after[t] = "none"
      BY <2>c, <2>10 DEF ClearMarked, At, Control, Pumping, InWriteHandler
    <3>3. op["write"] = "none" /\ \A u \in Threads : Pumping(u) => u = t
      BY <3>2 DEF PumpOK, SinglePump
    <3>4. \A u \in Threads : ~Pumping(u)'
      BY <3>1, <3>2, <3>3, GoMove DEF OthersSame, Pumping, InWriteHandler
    <3> QED
      BY <3>1, <3>3, <3>4 DEF PumpOK, SinglePump, Pumping
  <2> QED
    BY <1>2, <2>1, <2>2, <2>3, <2>4, <2>5, <2>6, <2>7, <2>8, <2>9, <2>10 DEF Code
<1>3. ASSUME NEW t \in Threads, ConnectCompletion(t) \/ ReadCompletion(t) \/ Destroy(t)
      PROVE  PumpOK'
  <2>1. marked' = marked /\ op'["write"] = op["write"]
    BY <1>3, <1>a DEF ConnectCompletion, ReadCompletion, Destroy, queue, Ops
  <2>2. OthersSame(t) /\ task'[t] # "write" /\ pc'[t] # "start"
    BY <1>0, <1>3, BeginMove, CompleteMove DEF ConnectCompletion, ReadCompletion, Destroy
  <2>3. Pumping(t)' => Pumping(t)
    BY <2>2 DEF Pumping, InWriteHandler
  <2> QED
    BY <2>1, <2>2, <2>3, PumpFrame
<1>4. ASSUME NEW t \in Threads, WriteCompletion(t) PROVE PumpOK'
  <2>1. /\ op["write"] # "none" /\ op'["write"] = "none" /\ marked' = marked
        /\ OthersSame(t) /\ pc'[t] = "handler"
    BY <1>0, <1>4, CompleteMove DEF WriteCompletion, queue, DataOK, Ops
  <2>2. marked # <<>> /\ \A u \in Threads : ~Pumping(u)
    BY <2>1 DEF PumpOK, SinglePump
  <2>3. \A u \in Threads : Pumping(u)' => u = t
    BY <2>1, <2>2 DEF OthersSame, Pumping, InWriteHandler
  <2> QED
    BY <2>1, <2>2, <2>3 DEF PumpOK, SinglePump, OthersSame, Pumping, InWriteHandler
<1>5. ASSUME NEW t \in Threads, UserCall(t) PROVE PumpOK'
  <2>1. marked' = marked /\ op' = op
    BY <1>5 DEF UserCall, queue
  <2>2. PICK l \in {"write_list", "close_false", "close_true"} :
          Go(t, l) \/ (Begin(t, "call", l) /\ after' = after)
    BY <1>5 DEF UserCall
  <2>3. CASE Go(t, l)
    BY <1>0, <2>1, <2>3, PumpGo
  <2>4. CASE Begin(t, "call", l) /\ after' = after
    <3>1. OthersSame(t) /\ task'[t] # "write" /\ pc'[t] # "start"
      BY <1>0, <2>4, BeginMove
    <3>2. Pumping(t)' => Pumping(t)
      BY <3>1 DEF Pumping, InWriteHandler
    <3> QED
      BY <2>1, <3>1, <3>2, PumpFrame
  <2> QED
    BY <2>2, <2>3, <2>4
<1>6. ASSUME NEW t \in Threads, HandlerReturn(t) PROVE PumpOK'
  <2>1. OthersSame(t) /\ pc'[t] # "start" /\ marked' = marked /\ op' = op
    BY <1>0, <1>6, HandlerReturnMove DEF HandlerReturn, queue, ThreadOK, Afters
  <2>2. Pumping(t)' => Pumping(t)
    BY <1>0, <1>6, <2>1, HandlerReturnMove DEF Pumping, InWriteHandler
  <2> QED
    BY <2>1, <2>2, PumpFrame
<1>7. CASE Drop \/ Finished \/ UNCHANGED vars
  BY <1>7 DEF Drop, Finished, vars, queue, thread, PumpOK, SinglePump, Pumping, InWriteHandler
<1>8. ASSUME NEW t \in Threads, PrefixCompletion(t) PROVE PumpOK'
  <2>1. marked' = marked /\ op'["write"] = op["write"]
    BY <1>8, <1>a DEF PrefixCompletion, queue, Ops
  <2>2. CASE UNCHANGED thread
    BY <2>1, <2>2 DEF thread, PumpOK, SinglePump, Pumping, InWriteHandler
  <2>3. CASE CompleteInto(t, "read", "close_false")
    <3>1. OthersSame(t) /\ task'[t] # "write" /\ pc'[t] # "start"
      BY <1>0, <2>3, CompleteMove
    <3>2. Pumping(t)' => Pumping(t)
      BY <3>1 DEF Pumping, InWriteHandler
    <3> QED
      BY <2>1, <3>1, <3>2, PumpFrame
  <2> QED
    BY <1>8, <2>2, <2>3 DEF PrefixCompletion
<1> QED
  BY <1>1, <1>2, <1>3, <1>4, <1>5, <1>6, <1>7, <1>8 DEF Next

LEMMA PumpInvariant == Spec => [](TypeOK /\ ControlOK /\ PumpOK)
<1>1. Init => TypeOK /\ ControlOK /\ PumpOK
  <2> SUFFICES ASSUME Init PROVE ControlOK /\ PumpOK
    BY InitType
  <2>1. \A t \in Threads : pc[t] = "idle" /\ task[t] = "none" /\ after[t] = "none"
    BY DEF Init
  <2>2. op["write"] = "none" /\ marked = <<>>
    BY DEF Init, Ops
  <2> QED
    BY <2>1, <2>2 DEF ControlOK, Control, PumpOK, SinglePump, Pumping, InWriteHandler
<1>2. TypeOK /\ ControlOK /\ PumpOK /\ [Next]_vars => (TypeOK /\ ControlOK /\ PumpOK)'
  BY TypeInductive, ControlInductive, PumpInductive
<1> QED
  BY <1>1, <1>2, PTL DEF Spec

(* At most one async_write is outstanding, and while it is, or while its     *)
(* handler runs, no other thread touches the marked list.                    *)
THEOREM OnePump == Spec => []SinglePump
<1>1. PumpOK => SinglePump
  BY DEF PumpOK
<1> QED
  BY <1>1, PumpInvariant, PTL

(* The list an outstanding async_write reads from does not change under it.  *)
THEOREM StableBuffers == Spec => MarkedStable
<1>1. TypeOK /\ ControlOK /\ PumpOK /\ [Next]_vars
        => [op["write"] \in {"pending", "ok"} => marked' = marked]_vars
  <2> SUFFICES ASSUME TypeOK, ControlOK, PumpOK, [Next]_vars, op["write"] \in {"pending", "ok"}
               PROVE  marked' = marked
    OBVIOUS
  <2>1. DataOK /\ marked # <<>> /\ \A t \in Threads : ~Pumping(t)
    BY DEF TypeOK, PumpOK, SinglePump
  <2>2. CASE Network
    BY <2>1, <2>2, NetworkMove
  <2>3. ASSUME NEW t \in Threads, Code(t) PROVE marked' = marked
    <3>1. ~ClearMarked(t)
      BY <2>1 DEF ClearMarked, At, ControlOK, Control, Pumping, InWriteHandler
    <3> QED
      BY <2>1, <2>3, <3>1
         DEF Code, SetConnected, EnterConnected, Settle, Read, Arm, WriteList, Manage, Write,
             Mark, Drained, StartWrite, CloseNow, ShutdownBoth, OnClose, CloseGracefully,
             ShutdownReceive, queue
  <2>4. ASSUME NEW t \in Threads,
               \/ ConnectCompletion(t) \/ ReadCompletion(t) \/ PrefixCompletion(t)
               \/ WriteCompletion(t) \/ UserCall(t) \/ HandlerReturn(t) \/ Destroy(t)
        PROVE  marked' = marked
    BY <2>4 DEF ConnectCompletion, ReadCompletion, PrefixCompletion, WriteCompletion, UserCall,
                HandlerReturn, Destroy, queue
  <2>5. CASE Drop \/ Finished \/ UNCHANGED vars
    BY <2>5 DEF Drop, Finished, vars, queue
  <2> QED
    BY <2>2, <2>3, <2>4, <2>5 DEF Next
<1> QED
  BY <1>1, PumpInvariant, PTL DEF Spec, MarkedStable
=============================================================================
