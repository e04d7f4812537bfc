------------------------- MODULE SessionCloseProofs -------------------------
(***************************************************************************)
(* Theorems about the end of a Session, its read side, the wake-ups of its *)
(* write pump, the order of what it sends and what close(false) has        *)
(* delivered, for any set of threads and any bounds.                       *)
(***************************************************************************)
EXTENDS SessionProofs, SequenceTheorems

----------------------------------------------------------------------------
(* Somebody closes a closing session.                                        *)

Attends == {"shut_recv", "write", "mark", "drained", "close_true"}

(* A step that keeps status and the marked list, of a thread that attends    *)
(* to nothing or goes on attending.                                          *)
LEMMA AttendedFrame ==
  ASSUME ClosingAttended, NEW t \in Threads, OthersSame(t),
         status' = "closing" => status = "closing", marked' = marked,
         pc[t] \in Attends => pc'[t] \in Attends
  PROVE  ClosingAttended'
BY DEF ClosingAttended, OthersSame, Attends

LEMMA AttendedInductive ==
  TypeOK /\ PumpOK /\ ClosingAttended /\ [Next]_vars => ClosingAttended'
<1> SUFFICES ASSUME TypeOK, PumpOK, ClosingAttended, [Next]_vars PROVE ClosingAttended'
  OBVIOUS
<1>0. ThreadOK /\ DataOK
  BY DEF TypeOK
<1>1. CASE Network
  BY <1>0, <1>1, NetworkMove DEF thread, ClosingAttended
<1>2. ASSUME NEW t \in Threads, Code(t) PROVE ClosingAttended'
  <2> USE <1>0 DEF At, Attends, queue
  <2>1. CASE SetConnected(t)
    BY <2>1 DEF SetConnected, ClosingAttended
  <2>2. CASE EnterConnected(t)
    BY <2>2, CallbackMove, EndMove, AttendedFrame DEF EnterConnected
  <2>3. CASE Settle(t)
    BY <2>3, EndMove, AttendedFrame DEF Settle
  <2>4. CASE Read(t)
    BY <2>4, GoMove, ReturnMove, AttendedFrame DEF Read
  <2>5. CASE Arm(t)
    BY <2>5, CallbackMove, ReturnMove, AttendedFrame DEF Arm
  <2>6. CASE WriteList(t)
    BY <2>6, GoMove, ReturnMove, AttendedFrame DEF WriteList
  <2>7. CASE Manage(t)
    BY <2>7, GoMove, AttendedFrame DEF Manage
  <2>8. CASE Write(t)
    <3>1. CASE status = "closed"
      BY <2>8, <3>1 DEF Write, ClosingAttended
    <3>2. CASE status # "closed"
      BY <2>8, <3>2, GoMove, AttendedFrame DEF Write
    <3> QED
      BY <3>1, <3>2
  <2>9. CASE Mark(t)
    <3>1. CASE marked # <<>>
      BY <2>9, <3>1 DEF Mark, ClosingAttended
    <3>2. CASE marked = <<>> /\ managed = <<>>
      BY <2>9, <3>2, GoMove, AttendedFrame DEF Mark
    <3>3. CASE marked = <<>> /\ managed # <<>>
      BY <2>9, <3>3 DEF Mark, ClosingAttended
    <3> QED
      BY <3>1, <3>2, <3>3
  <2>10. CASE Drained(t)
    <3>1. CASE status = "closing"
      BY <2>10, <3>1, GoMove, AttendedFrame DEF Drained
    <3>2. CASE status # "closing"
      BY <2>10, <3>2 DEF Drained, ClosingAttended
    <3> QED
      BY <3>1, <3>2
  <2>11. CASE StartWrite(t)
    BY <2>11, ReturnMove, AttendedFrame DEF StartWrite
  <2>12. CASE ClearMarked(t)
    BY <2>12, GoMove DEF ClearMarked, ClosingAttended
  <2>13. CASE CloseNow(t)
    BY <2>13 DEF CloseNow, ClosingAttended
  <2>14. CASE ShutdownBoth(t) \/ OnClose(t)
    BY <2>14, GoMove, ReturnMove, AttendedFrame DEF ShutdownBoth, OnClose
  <2>15. CASE CloseGracefully(t)
    <3>1. CASE status \in {"closing", "closed"}
      BY <2>15, <3>1, ReturnMove, AttendedFrame DEF CloseGracefully
    <3>2. CASE status \notin {"closing", "closed"}
      BY <2>15, <3>2, GoMove DEF CloseGracefully, ClosingAttended
    <3> QED
      BY <3>1, <3>2
  <2>16. CASE ShutdownReceive(t)
    BY <2>16, GoMove, AttendedFrame DEF ShutdownReceive
  <2> QED
    BY <1>2, <2>1, <2>2, <2>3, <2>4, <2>5, <2>6, <2>7, <2>8, <2>9, <2>10,
       <2>11, <2>12, <2>13, <2>14, <2>15, <2>16 DEF Code
<1>3. ASSUME NEW t \in Threads, ConnectCompletion(t) \/ Destroy(t) PROVE ClosingAttended'
  BY <1>0, <1>3, BeginMove, CompleteMove, AttendedFrame
     DEF ConnectCompletion, Destroy, queue, Attends
<1>4. ASSUME NEW t \in Threads, ReadCompletion(t) \/ WriteCompletion(t) PROVE ClosingAttended'
  BY <1>0, <1>4, CompleteMove, AttendedFrame DEF ReadCompletion, WriteCompletion, queue, Attends
<1>5. ASSUME NEW t \in Threads, PrefixCompletion(t) PROVE ClosingAttended'
  <2>1. CASE UNCHANGED thread
    BY <1>5, <2>1 DEF PrefixCompletion, thread, queue, ClosingAttended
  <2> QED
    BY <1>0, <1>5, <2>1, CompleteMove, AttendedFrame DEF PrefixCompletion, queue, Attends
<1>6. ASSUME NEW t \in Threads, UserCall(t) PROVE ClosingAttended'
  BY <1>0, <1>6, GoMove, BeginMove, AttendedFrame DEF UserCall, At, queue, Attends
<1>7. ASSUME NEW t \in Threads, HandlerReturn(t) PROVE ClosingAttended'
  BY <1>0, <1>7, HandlerReturnMove, AttendedFrame DEF HandlerReturn, queue, Attends
<1>8. CASE Drop \/ Finished \/ UNCHANGED vars
  BY <1>8 DEF Drop, Finished, vars, thread, queue, ClosingAttended
<1> QED
  BY <1>1, <1>2, <1>3, <1>4, <1>5, <1>6, <1>7, <1>8 DEF Next

(* A session in state closing has a batch on its way, whose completion will  *)
(* look at the queue again, or a thread that is about to look at the queue   *)
(* or to close: close(false) is never left to nobody.                        *)
THEOREM SomebodyCloses == Spec => []ClosingAttended
<1>1. Init => ClosingAttended
  BY DEF Init, ClosingAttended
<1> QED
  BY <1>1, PumpInvariant, AttendedInductive, PTL DEF Spec

----------------------------------------------------------------------------
(* What a thread is in the middle of.                                        *)

Closes == {"close_true", "shut_both", "on_close"}

Course(t) ==
  /\ task[t] = "none" <=> pc[t] = "idle"
  /\ task[t] = "destroy" => after[t] = "none" /\ pc[t] \in Closes
  /\ task[t] = "write" => after[t] \in {"none", "clear", "close_true"}
  /\ task[t] = "call" => after[t] = "none"

CourseOK == \A t \in Threads : Course(t)

LEMMA CourseStep ==
  ASSUME CourseOK, NEW t \in Threads, OthersSame(t), Course(t)'
  PROVE  CourseOK'
BY DEF CourseOK, Course, OthersSame

LEMMA CourseReturn ==
  ASSUME ThreadOK, CourseOK, NEW t \in Threads, Return(t), pc[t] # "idle"
  PROVE  CourseOK'
<1>1. Course(t)'
  BY ReturnMove DEF CourseOK, Course
<1> QED
  BY <1>1, ReturnMove, CourseStep

LEMMA CourseGo ==
  ASSUME ThreadOK, CourseOK, NEW t \in Threads, NEW l, Go(t, l), pc[t] # "idle", l # "idle",
         task[t] = "destroy" => l \in Closes
  PROVE  CourseOK'
<1>1. Course(t)'
  BY GoMove DEF CourseOK, Course
<1> QED
  BY <1>1, GoMove, CourseStep

LEMMA CourseEnd ==
  ASSUME ThreadOK, CourseOK, NEW t \in Threads, End(t)
  PROVE  CourseOK'
<1>1. Course(t)'
  BY EndMove DEF CourseOK, Course
<1> QED
  BY <1>1, EndMove, CourseStep

LEMMA CourseCallback ==
  ASSUME ThreadOK, CourseOK, NEW t \in Threads, NEW k, Callback(t, k), task' = task,
         task[t] \in {"connect", "read"}
  PROVE  CourseOK'
<1>1. Course(t)'
  BY CallbackMove DEF CourseOK, Course
<1> QED
  BY <1>1, CallbackMove, CourseStep

LEMMA CourseInductive ==
  TypeOK /\ ControlOK /\ CourseOK /\ [Next]_vars => CourseOK'
<1> SUFFICES ASSUME TypeOK, ControlOK, CourseOK, [Next]_vars PROVE CourseOK'
  OBVIOUS
<1>0. ThreadOK /\ DataOK
  BY DEF TypeOK
<1>1. CASE Network
  BY <1>0, <1>1, NetworkMove DEF thread, CourseOK, Course
<1>2. ASSUME NEW t \in Threads, Code(t) PROVE CourseOK'
  <2> USE <1>0 DEF At
  <2>c. Control(t) /\ Course(t)
    BY DEF ControlOK, CourseOK
  <2>1. CASE SetConnected(t)
    BY <2>1, <2>c, CourseGo DEF SetConnected, Control
  <2>2. CASE EnterConnected(t)
    BY <2>2, <2>c, CourseCallback, CourseEnd DEF EnterConnected, Control
  <2>3. CASE Settle(t)
    BY <2>3, CourseEnd DEF Settle
  <2>4. CASE Read(t)
    BY <2>4, <2>c, CourseGo, CourseReturn DEF Read, Control
  <2>5. CASE Arm(t)
    BY <2>5, <2>c, CourseCallback, CourseReturn DEF Arm, Control
  <2>6. CASE WriteList(t) \/ Manage(t) \/ Write(t) \/ Mark(t) \/ Drained(t) \/ StartWrite(t)
    BY <2>6, <2>c, CourseGo, CourseReturn
       DEF WriteList, Manage, Write, Mark, Drained, StartWrite, Course, Closes
  <2>7. CASE ClearMarked(t)
    BY <2>7, <2>c, CourseGo DEF ClearMarked, Control
  <2>8. CASE CloseNow(t) \/ ShutdownBoth(t) \/ OnClose(t)
    BY <2>8, CourseGo, CourseReturn DEF CloseNow, ShutdownBoth, OnClose, Closes
  <2>9. CASE CloseGracefully(t) \/ ShutdownReceive(t)
    BY <2>9, <2>c, CourseGo, CourseReturn DEF CloseGracefully, ShutdownReceive, Course, Closes
  <2> QED
    BY <1>2, <2>1, <2>2, <2>3, <2>4, <2>5, <2>6, <2>7, <2>8, <2>9 DEF Code
<1>3. ASSUME NEW t \in Threads,
             \/ ConnectCompletion(t) \/ ReadCompletion(t) \/ PrefixCompletion(t)
             \/ WriteCompletion(t) \/ Destroy(t)
      PROVE  CourseOK'
  <2>1. ASSUME NEW k, NEW l, CompleteInto(t, k, l),
               <<k, l>> \in {<<"connect", "close_true">>, <<"read", "read">>, <<"read", "close_false">>,
                            <<"write", "clear">>, <<"write", "close_true">>}
        PROVE  CourseOK'
    <3>1. Course(t)'
      BY <1>0, <2>1, CompleteMove DEF Course
    <3> QED
      BY <1>0, <2>1, <3>1, CompleteMove, CourseStep
  <2>2. ASSUME NEW k, NEW l, Begin(t, k, l), after' = after,
               <<k, l>> \in {<<"connect", "connected">>, <<"destroy", "close_true">>}
        PROVE  CourseOK'
    <3>1. Course(t)'
      BY <1>0, <2>2, BeginMove DEF ControlOK, Control, Course, Closes
    <3> QED
      BY <1>0, <2>2, <3>1, BeginMove, CourseStep
  <2>3. CASE UNCHANGED thread
    BY <2>3 DEF thread, CourseOK, Course
  <2> QED
    BY <1>3, <2>1, <2>2, <2>3
       DEF ConnectCompletion, ReadCompletion, PrefixCompletion, WriteCompletion, Destroy
<1>4. ASSUME NEW t \in Threads, UserCall(t) PROVE CourseOK'
  <2>1. PICK l \in {"write_list", "close_false", "close_true"} :
          \/ At(t, "handler") /\ Go(t, l)
          \/ Begin(t, "call", l) /\ after' = after
    BY <1>4 DEF UserCall
  <2>2. CASE At(t, "handler") /\ Go(t, l)
    BY <1>0, <2>2, CourseGo DEF At, CourseOK, Course, Closes
  <2>3. CASE Begin(t, "call", l) /\ after' = after
    <3>1. Course(t)'
      BY <1>0, <2>3, BeginMove DEF ControlOK, Control, Course
    <3> QED
      BY <1>0, <2>3, <3>1, BeginMove, CourseStep
  <2> QED
    BY <2>1, <2>2, <2>3
<1>5. ASSUME NEW t \in Threads, HandlerReturn(t) PROVE CourseOK'
  <2>1. Course(t)'
    BY <1>0, <1>5, HandlerReturnMove DEF CourseOK, Course, Closes, ThreadOK, Afters
  <2> QED
    BY <1>0, <1>5, <2>1, HandlerReturnMove, CourseStep
<1>6. CASE Drop \/ Finished \/ UNCHANGED vars
  BY <1>6 DEF Drop, Finished, vars, thread, CourseOK, Course
<1> QED
  BY <1>1, <1>2, <1>3, <1>4, <1>5, <1>6 DEF Next

----------------------------------------------------------------------------
(* The read side.  The chain that starts with the completion of connect is   *)
(* alone until it arms the first read.                                       *)

Quiet == op["read"] = "none" /\ \A t \in Threads : ~Reading(t)

Connecting(t) == task[t] = "connect"
Unentered(t)  == pc[t] \in {"connected", "entry"}

ReadOK ==
  /\ SingleReader
  /\ \A t, u \in Threads : Connecting(t) /\ Connecting(u) => t = u
  /\ (\E t \in Threads : Connecting(t)) => op["connect"] # "none"
  /\ (\E t \in Threads : Unentered(t)) => Quiet
  /\ op["connect"] # "none" /\ (\A t \in Threads : ~Connecting(t)) => Quiet

(* A step that neither completes an operation nor starts a read, and that    *)
(* keeps its thread out of the chain.                                        *)
LEMMA ReadFrame ==
  ASSUME ReadOK, NEW t \in Threads, OthersSame(t),
         op'["read"] = op["read"], op'["connect"] = op["connect"],
         Reading(t)' => Reading(t), Connecting(t)' <=> Connecting(t), ~Unentered(t)'
  PROVE  ReadOK'
BY DEF ReadOK, SingleReader, Quiet, Reading, Connecting, Unentered, OthersSame

(* Return and Go of a thread outside the chain.                              *)
LEMMA ReadReturn ==
  ASSUME ThreadOK, ReadOK, NEW t \in Threads, Return(t),
         pc[t] \notin {"idle", "read", "arm"},
         op'["read"] = op["read"], op'["connect"] = op["connect"]
  PROVE  ReadOK'
<1>1. (Reading(t)' => Reading(t)) /\ ~Unentered(t)' /\ (Connecting(t)' <=> Connecting(t))
  BY ReturnMove DEF Reading, Unentered, Connecting
<1> QED
  BY <1>1, ReturnMove, ReadFrame

LEMMA ReadGo ==
  ASSUME ThreadOK, ReadOK, NEW t \in Threads, NEW l, Go(t, l),
         l \notin {"read", "arm", "connected", "entry"}, op' = op
  PROVE  ReadOK'
<1>1. (Reading(t)' => Reading(t)) /\ ~Unentered(t)' /\ (Connecting(t)' <=> Connecting(t))
  BY GoMove DEF Reading, Unentered, Connecting
<1> QED
  BY <1>1, GoMove, ReadFrame

LEMMA ReadInductive ==
  TypeOK /\ ControlOK /\ CourseOK /\ ReadOK /\ [Next]_vars => ReadOK'
<1> SUFFICES ASSUME TypeOK, ControlOK, CourseOK, ReadOK, [Next]_vars PROVE ReadOK'
  OBVIOUS
<1> USE DEF Ops
<1>0. ThreadOK /\ DataOK
  BY DEF TypeOK
<1>1. CASE Network
  BY <1>0, <1>1, NetworkMove
     DEF thread, ReadOK, SingleReader, Quiet, Reading, Connecting, Unentered
<1>2. ASSUME NEW t \in Threads, Code(t) PROVE ReadOK'
  <2> USE <1>0 DEF At
  <2>c. Control(t) /\ Course(t)
    BY DEF ControlOK, CourseOK
  <2>1. CASE SetConnected(t)
    <3>1. Connecting(t) /\ Unentered(t) /\ Quiet /\ op' = op
      BY <2>1, <2>c DEF SetConnected, Control, Connecting, Unentered, ReadOK
    <3>2. Connecting(t)' /\ ~Reading(t)' /\ OthersSame(t)
      BY <2>1, <2>c, GoMove DEF SetConnected, Control, Connecting, Reading
    <3> QED
      BY <3>1, <3>2
         DEF ReadOK, SingleReader, Quiet, Reading, Connecting, Unentered, OthersSame
  <2>2. CASE EnterConnected(t)
    <3>1. Connecting(t) /\ Unentered(t) /\ Quiet /\ after[t] = "none"
      BY <2>2, <2>c DEF EnterConnected, Control, Connecting, Unentered, ReadOK
    <3>2. \A u \in Threads \ {t} : ~Unentered(u) /\ ~Connecting(u)
      BY <3>1 DEF ReadOK, ControlOK, Control, Connecting, Unentered
    <3>3. CASE Callback(t, "read") /\ task' = task /\ op' = op
      <4>1. Connecting(t)' /\ ~Unentered(t)' /\ OthersSame(t)
        BY <3>1, <3>3, CallbackMove DEF Connecting, Unentered
      <4> QED
        BY <3>1, <3>2, <3>3, <4>1
           DEF ReadOK, SingleReader, Quiet, Reading, Connecting, Unentered, OthersSame
    <3>4. CASE End(t) /\ op' = [op EXCEPT !["connect"] = "none"]
      <4>1. ~Connecting(t)' /\ ~Unentered(t)' /\ ~Reading(t)' /\ OthersSame(t)
        BY <3>4, EndMove DEF Connecting, Unentered, Reading
      <4>2. op'["read"] = "none" /\ op'["connect"] = "none"
        BY <3>1, <3>4 DEF DataOK, Quiet
      <4> QED
        BY <3>1, <3>2, <4>1, <4>2
           DEF ReadOK, SingleReader, Quiet, Reading, Connecting, Unentered, OthersSame
    <3> QED
      BY <2>2, <3>3, <3>4 DEF EnterConnected
  <2>3. CASE Settle(t)
    <3>1. op'["connect"] = "none" /\ op'["read"] = op["read"]
      BY <2>3 DEF Settle, DataOK
    <3>2. ~Connecting(t)' /\ ~Unentered(t)' /\ ~Reading(t)' /\ OthersSame(t)
      BY <2>3, EndMove DEF Settle, Connecting, Unentered, Reading
    <3>3. Connecting(t) /\ \A u \in Threads \ {t} : ~Connecting(u) /\ ~Unentered(u)
      BY <2>3, <2>c DEF Settle, Control, ReadOK, ControlOK, Connecting, Unentered
    <3> QED
      BY <3>1, <3>2, <3>3
         DEF ReadOK, SingleReader, Quiet, Reading, Connecting, Unentered, OthersSame
  <2>4. CASE Read(t) \/ Arm(t)
    <3>1. Reading(t) /\ after[t] = "none"
      BY <2>4, <2>c DEF Read, Arm, Control, Reading
    <3>2. /\ op["read"] = "none" /\ ~Quiet
          /\ \A u \in Threads : Reading(u) => u = t
      BY <3>1 DEF ReadOK, SingleReader, Quiet
    <3>3. /\ \A u \in Threads : ~Unentered(u)
          /\ op["connect"] = "none" \/ \E u \in Threads : Connecting(u)
      BY <3>2 DEF ReadOK
    <3>4. /\ OthersSame(t) /\ (Connecting(t)' <=> Connecting(t)) /\ ~Unentered(t)'
          /\ op'["connect"] = op["connect"]
      BY <2>4, <3>1, GoMove, ReturnMove, CallbackMove DEF Read, Arm, DataOK, Connecting, Unentered
    <3>5. op'["read"] # "none" => ~Reading(t)'
      BY <2>4, <3>1, <3>2, ReturnMove DEF Read, Arm, DataOK, Reading
    <3> QED
      BY <3>2, <3>3, <3>4, <3>5
         DEF ReadOK, SingleReader, Quiet, Reading, Connecting, Unentered, OthersSame
  <2>5. CASE WriteList(t) \/ Manage(t) \/ Write(t) \/ Mark(t) \/ Drained(t) \/ ClearMarked(t)
    BY <2>5, ReadGo, ReadReturn DEF WriteList, Manage, Write, Mark, Drained, ClearMarked
  <2>6. CASE StartWrite(t)
    <3>1. op'["read"] = op["read"] /\ op'["connect"] = op["connect"]
      BY <2>6 DEF StartWrite, DataOK
    <3> QED
      BY <2>6, <3>1, ReadReturn DEF StartWrite
  <2>7. CASE CloseNow(t) \/ ShutdownBoth(t) \/ OnClose(t) \/ CloseGracefully(t) \/ ShutdownReceive(t)
    BY <2>7, ReadGo, ReadReturn
       DEF CloseNow, ShutdownBoth, OnClose, CloseGracefully, ShutdownReceive
  <2> QED
    BY <1>2, <2>1, <2>2, <2>3, <2>4, <2>5, <2>6, <2>7 DEF Code
<1>3. ASSUME NEW t \in Threads, ConnectCompletion(t) PROVE ReadOK'
  <2>1. /\ \A u \in Threads : ~Connecting(u)
        /\ op["connect"] # "none" /\ Quiet /\ op' = op
    BY <1>3 DEF ConnectCompletion, Connecting, ReadOK
  <2>2. OthersSame(t) /\ Connecting(t)' /\ ~Reading(t)'
    BY <1>0, <1>3, BeginMove, CompleteMove
       DEF ConnectCompletion, ControlOK, Control, Connecting, Reading
  <2> QED
    BY <2>1, <2>2 DEF ReadOK, SingleReader, Quiet, Reading, Connecting, Unentered, OthersSame
<1>4. ASSUME NEW t \in Threads, ReadCompletion(t) \/ PrefixCompletion(t) PROVE ReadOK'
  <2>1. /\ op["read"] # "none" /\ op'["connect"] = op["connect"]
        /\ pc[t] = "idle" /\ task[t] = "none"
    BY <1>0, <1>4
       DEF ReadCompletion, PrefixCompletion, CompleteInto, At, DataOK, CourseOK, Course
  <2>2. /\ \A u \in Threads : ~Reading(u) /\ ~Unentered(u)
        /\ op["connect"] = "none" \/ \E u \in Threads : Connecting(u)
    BY <2>1 DEF ReadOK, SingleReader, Quiet
  <2>3. CASE UNCHANGED thread
    BY <2>1, <2>2, <2>3
       DEF thread, ReadOK, SingleReader, Quiet, Reading, Connecting, Unentered
  <2>4. CASE \E l \in Afters : CompleteInto(t, "read", l) /\ op' = [op EXCEPT !["read"] = "none"]
    <3>1. OthersSame(t) /\ ~Connecting(t)' /\ ~Unentered(t)' /\ op'["read"] = "none"
      BY <1>0, <2>4, CompleteMove DEF DataOK, Connecting, Unentered
    <3> QED
      BY <2>1, <2>2, <3>1
         DEF ReadOK, SingleReader, Quiet, Reading, Connecting, Unentered, OthersSame
  <2> QED
    BY <1>4, <2>3, <2>4 DEF ReadCompletion, PrefixCompletion, Afters
<1>5. ASSUME NEW t \in Threads, WriteCompletion(t) \/ Destroy(t) PROVE ReadOK'
  <2>1. op'["read"] = op["read"] /\ op'["connect"] = op["connect"]
    BY <1>0, <1>5 DEF WriteCompletion, Destroy, DataOK
  <2>2. /\ OthersSame(t) /\ pc[t] = "idle"
        /\ ~Reading(t)' /\ ~Connecting(t)' /\ ~Unentered(t)'
    BY <1>0, <1>5, BeginMove, CompleteMove
       DEF WriteCompletion, Destroy, Reading, Connecting, Unentered
  <2>3. ~Connecting(t)
    BY <2>2 DEF CourseOK, Course, Connecting
  <2> QED
    BY <2>1, <2>2, <2>3, ReadFrame
<1>6. ASSUME NEW t \in Threads, UserCall(t) PROVE ReadOK'
  <2>1. PICK l \in {"write_list", "close_false", "close_true"} :
          Go(t, l) \/ (Begin(t, "call", l) /\ after' = after)
    BY <1>6 DEF UserCall
  <2>2. op' = op
    BY <1>6 DEF UserCall
  <2>3. CASE Begin(t, "call", l) /\ after' = after
    <3>1. /\ OthersSame(t) /\ pc[t] = "idle"
          /\ ~Reading(t)' /\ ~Connecting(t)' /\ ~Unentered(t)'
      BY <1>0, <2>3, BeginMove DEF Reading, Connecting, Unentered
    <3>2. ~Connecting(t)
      BY <3>1 DEF CourseOK, Course, Connecting
    <3> QED
      BY <2>2, <3>1, <3>2, ReadFrame
  <2> QED
    BY <1>0, <2>1, <2>2, <2>3, ReadGo
<1>7. ASSUME NEW t \in Threads, HandlerReturn(t) PROVE ReadOK'
  <2>1. /\ OthersSame(t) /\ op' = op
        /\ (Connecting(t)' <=> Connecting(t)) /\ ~Unentered(t)' /\ (Reading(t)' => Reading(t))
    BY <1>0, <1>7, HandlerReturnMove
       DEF HandlerReturn, ThreadOK, Afters, Connecting, Unentered, Reading
  <2> QED
    BY <2>1, ReadFrame
<1>8. CASE Drop \/ Finished \/ UNCHANGED vars
  BY <1>8 DEF Drop, Finished, vars, thread,
              ReadOK, SingleReader, Quiet, Reading, Connecting, Unentered
<1> QED
  BY <1>1, <1>2, <1>3, <1>4, <1>5, <1>6, <1>7, <1>8 DEF Next

LEMMA ReadInvariant == Spec => [](TypeOK /\ ControlOK /\ PumpOK /\ CourseOK /\ ReadOK)
<1>1. Init => CourseOK /\ ReadOK
  <2> SUFFICES ASSUME Init PROVE CourseOK /\ ReadOK
    OBVIOUS
  <2>1. \A t \in Threads : pc[t] = "idle" /\ task[t] = "none" /\ after[t] = "none"
    BY DEF Init
  <2>2. op["read"] = "none"
    BY DEF Init, Ops
  <2> QED
    BY <2>1, <2>2 DEF CourseOK, Course, ReadOK, SingleReader, Quiet, Reading, Connecting, Unentered
<1> QED
  BY <1>1, PumpInvariant, CourseInductive, ReadInductive, PTL DEF Spec

(* handler::connect and the calls of handler::read never overlap, and no     *)
(* asynchronous read is outstanding while one of them runs: the buffer has   *)
(* one user, whatever the application calls and however many threads run     *)
(* the io_context.                                                           *)
THEOREM OneReader == Spec => []SingleReader
<1>1. ReadOK => SingleReader
  BY DEF ReadOK
<1> QED
  BY <1>1, ReadInvariant, PTL

----------------------------------------------------------------------------
(* The beginning and the end of the life of a session that nobody finds      *)
(* before a handler callback has received it: until then only the completion *)
(* of connect and the destructor run, and once the destructor runs nothing   *)
(* else does.                                                                *)

EarlyOK ==
  /\ ~entered =>
       /\ \A t \in Threads : /\ task[t] \in {"none", "connect", "destroy"} /\ after[t] = "none"
                             /\ pc[t] \in {"idle", "connected", "entry"} \cup Closes
       /\ op["read"] = "none" /\ op["write"] = "none"
       /\ owner # "destroyed" => status \in {"connecting", "connected"}
  /\ op["connect"] # "none" /\ (\A t \in Threads : ~Connecting(t)) =>
       ~entered /\ status = "connecting"
  /\ \A t \in Threads :
       /\ pc[t] = "connected" => ~entered /\ status = "connecting"
       /\ pc[t] = "entry" => ~entered
       /\ pc[t] \in Closes => entered \/ task[t] = "destroy"
       /\ task[t] = "destroy" => owner = "destroyed"
  /\ owner = "destroyed" =>
       /\ \A o \in Ops : op[o] = "none"
       /\ \A t \in Threads : task[t] \in {"none", "destroy"}

LEMMA CallbackUser ==
  ASSUME NEW t, NEW k, Callback(t, k)
  PROVE  entered' /\ owner' = owner
BY DEF Callback

LEMMA CompleteUser ==
  ASSUME NEW t, NEW k, NEW l, CompleteInto(t, k, l)
  PROVE  entered' /\ owner' = owner
BY CallbackUser DEF CompleteInto

(* The steps of a thread after which a callback has received the session.    *)
LEMMA EnteredFrame ==
  ASSUME EarlyOK, NEW t \in Threads, OthersSame(t),
         task[t] \notin {"none", "destroy"}, task'[t] # "destroy", entered', owner' = owner,
         \/ op'["connect"] = "none"
         \/ op'["connect"] = op["connect"] /\ (Connecting(t)' <=> Connecting(t)),
         ~Unentered(t)', \A u \in Threads \ {t} : ~Unentered(u)
  PROVE  EarlyOK'
BY DEF EarlyOK, Connecting, Unentered, OthersSame

(* A thread past the first statements of a task that is not the destructor.  *)
LEMMA EnteredAt ==
  ASSUME CourseOK, EarlyOK, NEW t \in Threads,
         pc[t] \notin {"idle", "connected", "entry"} \cup Closes
  PROVE  /\ entered /\ owner # "destroyed" /\ task[t] \notin {"none", "destroy"}
         /\ \A u \in Threads : ~Unentered(u)
BY DEF CourseOK, Course, EarlyOK, Closes, Unentered

LEMMA EarlyGo ==
  ASSUME ThreadOK, CourseOK, EarlyOK, NEW t \in Threads,
         pc[t] \notin {"idle", "connected", "entry"} \cup Closes,
         \/ Return(t)
         \/ \E l \in Labels \ {"connected", "entry"} : Go(t, l),
         entered' = entered, owner' = owner, op'["connect"] = op["connect"]
  PROVE  EarlyOK'
<1>1. /\ entered /\ task[t] \notin {"none", "destroy"}
      /\ \A u \in Threads : ~Unentered(u)
  BY EnteredAt
<1>2. /\ OthersSame(t) /\ task'[t] # "destroy" /\ ~Unentered(t)'
      /\ (Connecting(t)' <=> Connecting(t))
  BY <1>1, GoMove, ReturnMove DEF Connecting, Unentered
<1> QED
  BY <1>1, <1>2, EnteredFrame

LEMMA EarlyInductive ==
  ASSUME ~EarlyAccess, TypeOK, ControlOK, CourseOK, ReadOK, EarlyOK, [Next]_vars
  PROVE  EarlyOK'
<1> USE DEF Ops
<1>0. ThreadOK /\ DataOK
  BY DEF TypeOK
<1>1. CASE Network
  <2>1. \A o \in Ops : op'[o] = "none" <=> op[o] = "none"
    BY <1>0, <1>1, NetworkMove
  <2> QED
    BY <1>0, <1>1, <2>1, NetworkMove DEF thread, user, EarlyOK, Connecting, Unentered
<1>2. ASSUME NEW t \in Threads, Code(t) PROVE EarlyOK'
  <2> USE <1>0 DEF At, Closes
  <2>c. Control(t) /\ Course(t)
    BY DEF ControlOK, CourseOK
  <2>1. CASE SetConnected(t)
    <3>1. /\ ~entered /\ op' = op /\ UNCHANGED user /\ status' = "connected"
          /\ \A u \in Threads \ {t} : pc[u] # "connected" /\ ~Connecting(u)
      BY <2>1, <2>c DEF SetConnected, EarlyOK, ControlOK, Control, ReadOK, Connecting
    <3>2. OthersSame(t) /\ pc'[t] = "entry" /\ task'[t] = "connect" /\ after'[t] = "none"
      BY <2>1, <2>c, GoMove DEF SetConnected, Control
    <3> QED
      BY <2>c, <2>1, <3>1, <3>2 DEF SetConnected, Control, user, EarlyOK, Connecting, OthersSame
  <2>2. CASE EnterConnected(t)
    <3>1. /\ ~entered /\ task[t] = "connect" /\ after[t] = "none" /\ Connecting(t)
          /\ \A u \in Threads \ {t} : ~Unentered(u) /\ ~Connecting(u)
      BY <2>2, <2>c
         DEF EnterConnected, EarlyOK, ControlOK, Control, ReadOK, Connecting, Unentered
    <3>2. CASE Callback(t, "read") /\ task' = task /\ op' = op
      <4>1. OthersSame(t) /\ pc'[t] = "handler" /\ task'[t] = "connect" /\ entered' /\ owner' = owner
        BY <3>1, <3>2, CallbackMove, CallbackUser
      <4> QED
        BY <3>1, <3>2, <4>1, EnteredFrame DEF Connecting, Unentered
    <3>3. CASE End(t) /\ op' = [op EXCEPT !["connect"] = "none"] /\ UNCHANGED user /\ UNCHANGED status
      <4>1. OthersSame(t) /\ pc'[t] = "idle" /\ task'[t] = "none" /\ after'[t] = "none"
        BY <3>1, <3>3, EndMove
      <4>2. op'["connect"] = "none" /\ op'["read"] = op["read"] /\ op'["write"] = op["write"]
        BY <3>3 DEF DataOK
      <4> QED
        BY <3>1, <3>3, <4>1, <4>2 DEF user, EarlyOK, Connecting, OthersSame
    <3> QED
      BY <2>2, <3>2, <3>3 DEF EnterConnected
  <2>3. CASE Settle(t)
    <3>1. /\ entered /\ task[t] \notin {"none", "destroy"}
          /\ \A u \in Threads : ~Unentered(u)
      BY <2>3, EnteredAt DEF Settle
    <3>2. OthersSame(t) /\ task'[t] = "none" /\ pc'[t] = "idle" /\ op'["connect"] = "none"
          /\ UNCHANGED user
      BY <2>3, EndMove DEF Settle, DataOK
    <3> QED
      BY <3>1, <3>2, EnteredFrame DEF user, Unentered
  <2>4. CASE Read(t)
    BY <2>4, EarlyGo DEF Read, user, Labels
  <2>5. CASE Arm(t)
    <3>1. /\ task[t] \notin {"none", "destroy"} /\ entered
          /\ \A u \in Threads : ~Unentered(u)
      BY <2>5, EnteredAt DEF Arm
    <3>2. op'["connect"] = op["connect"]
      BY <2>5 DEF Arm, DataOK
    <3>3. CASE Return(t) /\ UNCHANGED user
      BY <2>5, <3>2, <3>3, EarlyGo DEF Arm, user
    <3>4. ASSUME NEW k, Callback(t, k), task' = task PROVE EarlyOK'
      <4>1. OthersSame(t) /\ pc'[t] = "handler" /\ task'[t] = task[t] /\ entered' /\ owner' = owner
        BY <3>4, CallbackMove, CallbackUser
      <4> QED
        BY <3>1, <3>2, <4>1, EnteredFrame DEF Connecting, Unentered
    <3> QED
      BY <2>5, <3>3, <3>4 DEF Arm
  <2>6. CASE WriteList(t) \/ Manage(t) \/ Write(t) \/ Mark(t) \/ Drained(t) \/ ClearMarked(t)
    BY <2>6, EarlyGo DEF WriteList, Manage, Write, Mark, Drained, ClearMarked, user, Labels
  <2>7. CASE StartWrite(t)
    <3>1. op'["connect"] = op["connect"]
      BY <2>7 DEF StartWrite, DataOK
    <3> QED
      BY <2>7, <3>1, EarlyGo DEF StartWrite, user
  <2>8. CASE CloseGracefully(t) \/ ShutdownReceive(t)
    BY <2>8, EarlyGo DEF CloseGracefully, ShutdownReceive, user, Labels
  <2>9. CASE CloseNow(t) \/ ShutdownBoth(t) \/ OnClose(t)
    <3>1. /\ op' = op /\ UNCHANGED user /\ pc[t] \in Closes
          /\ \/ Return(t) /\ UNCHANGED status
             \/ (\E l \in Closes : Go(t, l))
      BY <2>9 DEF CloseNow, ShutdownBoth, OnClose
    <3>2. /\ OthersSame(t) /\ after'[t] = after[t]
          /\ \/ task'[t] = task[t] /\ task'[t] # "none" /\ pc'[t] \in Closes
             \/ task'[t] = task[t] /\ task'[t] \notin {"none", "destroy"} /\ pc'[t] \in {"handler", "settle"}
             \/ task'[t] = "none" /\ pc'[t] = "idle" /\ task[t] # "connect" /\ UNCHANGED status
      BY <2>c, <3>1, GoMove, ReturnMove DEF Course
    <3>3. CASE task[t] = "destroy"
      <4>1. owner = "destroyed" /\ \A u \in Threads : task[u] # "connect" /\ ~Unentered(u)
        BY <3>3 DEF EarlyOK, ControlOK, Control, Unentered
      <4>2. /\ task'[t] \in {"none", "destroy"} /\ after'[t] = "none"
            /\ pc'[t] \in {"idle"} \cup Closes /\ (pc'[t] \in Closes => task'[t] = "destroy")
        BY <2>c, <3>1, <3>2, <3>3 DEF Course
      <4> QED
        BY <3>1, <3>2, <4>1, <4>2 DEF user, EarlyOK, Connecting, Unentered, OthersSame
    <3>4. CASE task[t] # "destroy"
      <4>1. entered /\ \A u \in Threads : ~Unentered(u)
        BY <3>1, <3>4 DEF EarlyOK, Unentered
      <4> QED
        BY <2>c, <3>1, <3>2, <3>4, <4>1, EnteredFrame DEF user, Connecting, Unentered, Course
    <3> QED
      BY <3>3, <3>4
  <2> QED
    BY <1>2, <2>1, <2>2, <2>3, <2>4, <2>5, <2>6, <2>7, <2>8, <2>9 DEF Code
<1>3. ASSUME NEW t \in Threads, ConnectCompletion(t) PROVE EarlyOK'
  <2>1. /\ \A u \in Threads : ~Connecting(u)
        /\ op["connect"] # "none" /\ op' = op /\ owner' = owner /\ status' = status
    BY <1>3 DEF ConnectCompletion, CompleteInto, Callback, user, Connecting
  <2>2. /\ ~entered /\ status = "connecting" /\ owner # "destroyed"
        /\ \A u \in Threads : ~Unentered(u)
    BY <2>1 DEF EarlyOK, ControlOK, Control, Connecting, Unentered
  <2>3. /\ OthersSame(t) /\ task'[t] = "connect"
        /\ \/ pc'[t] = "connected" /\ after'[t] = "none" /\ entered' = entered
           \/ pc'[t] = "handler" /\ entered'
    BY <1>0, <1>3, BeginMove, CompleteMove, CompleteUser
       DEF ConnectCompletion, user, ControlOK, Control
  <2> QED
    BY <2>1, <2>2, <2>3 DEF EarlyOK, Connecting, Unentered, OthersSame, Closes
<1>4. ASSUME NEW t \in Threads, ReadCompletion(t) \/ PrefixCompletion(t) \/ WriteCompletion(t)
      PROVE  EarlyOK'
  <2>1. /\ op["read"] # "none" \/ op["write"] # "none"
        /\ op'["connect"] = op["connect"] /\ owner' = owner
    BY <1>0, <1>4 DEF ReadCompletion, PrefixCompletion, WriteCompletion, CompleteInto, Callback,
                      user, DataOK
  <2>2. /\ entered /\ owner # "destroyed"
        /\ \A u \in Threads : ~Unentered(u)
    BY <2>1 DEF EarlyOK, Unentered
  <2>3. CASE UNCHANGED <<thread, user>>
    BY <1>4, <2>1, <2>2, <2>3 DEF thread, user, EarlyOK, Connecting, Unentered
  <2>4. CASE \E k \in {"read", "write"}, l \in Afters : CompleteInto(t, k, l)
    <3>1. /\ OthersSame(t) /\ task'[t] \in {"read", "write"} /\ pc'[t] = "handler" /\ entered'
          /\ task[t] = "none"
      BY <1>0, <2>4, CompleteMove, CompleteUser DEF CourseOK, Course
    <3> QED
      BY <2>1, <2>2, <3>1 DEF EarlyOK, Connecting, Unentered, OthersSame, Closes
  <2> QED
    BY <1>4, <2>3, <2>4 DEF ReadCompletion, PrefixCompletion, WriteCompletion, Afters
<1>5. ASSUME NEW t \in Threads, UserCall(t) PROVE EarlyOK'
  <2>1. PICK l \in {"write_list", "close_false", "close_true"} :
          \/ At(t, "handler") /\ Go(t, l)
          \/ owner = "held" /\ entered /\ Begin(t, "call", l) /\ after' = after
    BY <1>5 DEF UserCall
  <2>2. op' = op /\ owner' = owner /\ entered' = entered
    BY <1>5 DEF UserCall
  <2>3. CASE At(t, "handler") /\ Go(t, l)
    BY <1>0, <2>2, <2>3, EarlyGo DEF At, Labels, Closes
  <2>4. CASE owner = "held" /\ entered /\ Begin(t, "call", l) /\ after' = after
    <3>1. OthersSame(t) /\ task'[t] = "call" /\ pc'[t] = l /\ task[t] = "none"
      BY <1>0, <2>4, BeginMove DEF CourseOK, Course
    <3> QED
      BY <2>2, <2>4, <3>1 DEF EarlyOK, Connecting, OthersSame, Closes
  <2> QED
    BY <2>1, <2>3, <2>4
<1>6. ASSUME NEW t \in Threads, HandlerReturn(t) PROVE EarlyOK'
  <2>1. /\ OthersSame(t) /\ pc[t] = "handler" /\ op' = op /\ UNCHANGED user
        /\ task'[t] = task[t] /\ ~Unentered(t)'
    BY <1>0, <1>6, HandlerReturnMove DEF HandlerReturn, ThreadOK, Afters, Unentered
  <2>2. /\ entered /\ task[t] \notin {"none", "destroy"}
        /\ \A u \in Threads : ~Unentered(u)
    BY <2>1, EnteredAt DEF Closes
  <2> QED
    BY <2>1, <2>2, EnteredFrame DEF user, Connecting
<1>7. ASSUME NEW t \in Threads, Destroy(t) PROVE EarlyOK'
  <2>1. /\ owner' = "destroyed" /\ op' = op /\ entered' = entered
        /\ \A o \in Ops : op[o] = "none"
        /\ \A u \in Threads : task[u] = "none"
    BY <1>7 DEF Destroy
  <2>2. OthersSame(t) /\ task'[t] = "destroy" /\ pc'[t] = "close_true" /\ after'[t] = "none"
    BY <1>0, <1>7, BeginMove DEF Destroy, ControlOK, Control
  <2>3. \A u \in Threads : pc[u] = "idle" /\ after[u] = "none"
    BY <2>1 DEF CourseOK, Course, ControlOK, Control
  <2> QED
    BY <2>1, <2>2, <2>3 DEF EarlyOK, OthersSame, Closes
<1>8. CASE Drop \/ Finished \/ UNCHANGED vars
  BY <1>8 DEF Drop, Finished, vars, thread, user, EarlyOK, Connecting
<1> QED
  BY <1>1, <1>2, <1>3, <1>4, <1>5, <1>6, <1>7, <1>8 DEF Next

LEMMA EarlyInvariant ==
  ASSUME ~EarlyAccess
  PROVE  Spec => [](TypeOK /\ ControlOK /\ PumpOK /\ CourseOK /\ ReadOK /\ EarlyOK)
<1>1. Init => EarlyOK
  <2> SUFFICES ASSUME Init PROVE EarlyOK
    OBVIOUS
  <2>1. \A t \in Threads : pc[t] = "idle" /\ task[t] = "none" /\ after[t] = "none"
    BY DEF Init
  <2>2. op["read"] = "none" /\ op["write"] = "none"
    BY DEF Init, Ops
  <2>3. status = "connecting" /\ owner = "held" /\ ~entered
    BY DEF Init
  <2> QED
    BY <2>1, <2>2, <2>3 DEF EarlyOK, Closes
<1>2. TypeOK /\ ControlOK /\ CourseOK /\ ReadOK /\ EarlyOK /\ [Next]_vars => EarlyOK'
  BY EarlyInductive
<1> QED
  BY <1>1, <1>2, ReadInvariant, PTL DEF Spec

----------------------------------------------------------------------------
(* closed is final, and handler::close is called once.                       *)

LEMMA ClosedStays ==
  ASSUME TypeOK, EarlyOK, [Next]_vars, status = "closed"
  PROVE  status' = "closed"
<1>1. DataOK
  BY DEF TypeOK
<1>2. CASE Network
  BY <1>1, <1>2, NetworkMove
<1>3. ASSUME NEW t \in Threads, Code(t) PROVE status' = "closed"
  <2>1. ~SetConnected(t)
    BY DEF SetConnected, At, EarlyOK
  <2> QED
    BY <1>3, <2>1
       DEF Code, EnterConnected, Settle, Read, Arm, WriteList, Manage, Write, Mark, Drained,
           StartWrite, ClearMarked, CloseNow, ShutdownBoth, OnClose, CloseGracefully,
           ShutdownReceive
<1>4. ASSUME NEW t \in Threads,
             \/ ConnectCompletion(t) \/ ReadCompletion(t) \/ PrefixCompletion(t)
             \/ WriteCompletion(t) \/ UserCall(t) \/ HandlerReturn(t) \/ Destroy(t)
      PROVE  status' = "closed"
  BY <1>4 DEF ConnectCompletion, ReadCompletion, PrefixCompletion, WriteCompletion, UserCall,
              HandlerReturn, Destroy
<1>5. CASE Drop \/ Finished \/ UNCHANGED vars
  BY <1>5 DEF Drop, Finished, vars
<1> QED
  BY <1>2, <1>3, <1>4, <1>5 DEF Next

(* A session that user code finds only when a handler callback has received  *)
(* it never leaves state closed.  The hypothesis is needed: with EarlyAccess *)
(* session::connect() overwrites the state that a close() has set.           *)
THEOREM ClosedForever == ASSUME ~EarlyAccess PROVE Spec => ClosedIsFinal
<1>1. TypeOK /\ EarlyOK /\ [Next]_vars => [status = "closed" => status' = "closed"]_vars
  BY ClosedStays
<1> QED
  BY <1>1, EarlyInvariant, PTL DEF Spec, ClosedIsFinal

(* A step that keeps the state closed or not closed and calls no callback.   *)
LEMMA CloseFrame ==
  ASSUME CloseOnce, NEW t \in Threads, OthersSame(t), closeCbs' = closeCbs,
         status' = "closed" <=> status = "closed", Closing(t)' <=> Closing(t)
  PROVE  CloseOnce'
BY DEF CloseOnce, Closing, OthersSame

LEMMA CloseInductive ==
  ASSUME TypeOK, EarlyOK, CloseOnce, [Next]_vars
  PROVE  CloseOnce'
<1>0. ThreadOK /\ DataOK
  BY DEF TypeOK
<1>1. CASE Network
  BY <1>0, <1>1, NetworkMove DEF thread, hist, CloseOnce, Closing
<1>2. ASSUME NEW t \in Threads, Code(t) PROVE CloseOnce'
  <2> USE <1>0 DEF At, Closing, hist
  <2>1. CASE SetConnected(t)
    <3>1. status = "connecting"
      BY <2>1 DEF SetConnected, EarlyOK
    <3> QED
      BY <2>1, <3>1, GoMove, CloseFrame DEF SetConnected
  <2>2. CASE EnterConnected(t) \/ Settle(t)
    BY <2>2, CallbackMove, EndMove, CloseFrame DEF EnterConnected, Settle
  <2>3. CASE Read(t) \/ Arm(t)
    BY <2>3, GoMove, ReturnMove, CallbackMove, CloseFrame DEF Read, Arm
  <2>4. CASE WriteList(t) \/ Manage(t) \/ Write(t) \/ Mark(t) \/ Drained(t)
    BY <2>4, GoMove, ReturnMove, CloseFrame DEF WriteList, Manage, Overtakes, Write, Mark, Drained
  <2>5. CASE StartWrite(t) \/ ClearMarked(t)
    BY <2>5, GoMove, ReturnMove, CloseFrame DEF StartWrite, ClearMarked
  <2>6. CASE CloseNow(t)
    <3>1. CASE status = "closed"
      BY <2>6, <3>1, ReturnMove, CloseFrame DEF CloseNow
    <3>2. CASE status # "closed"
      <4>1. closeCbs = 0 /\ \A u \in Threads : ~Closing(u)
        BY <3>2 DEF CloseOnce
      <4>2. status' = "closed" /\ closeCbs' = closeCbs /\ OthersSame(t) /\ Closing(t)'
        BY <2>6, <3>2, GoMove DEF CloseNow
      <4> QED
        BY <4>1, <4>2 DEF CloseOnce, OthersSame
    <3> QED
      BY <3>1, <3>2
  <2>7. CASE ShutdownBoth(t)
    BY <2>7, GoMove, CloseFrame DEF ShutdownBoth
  <2>8. CASE OnClose(t)
    <3>1. Closing(t) /\ status' = status /\ closeCbs' = closeCbs + 1
      BY <2>8 DEF OnClose
    <3>2. /\ status = "closed" /\ closeCbs = 0
          /\ \A u \in Threads \ {t} : ~Closing(u)
      BY <3>1 DEF CloseOnce
    <3>3. OthersSame(t) /\ ~Closing(t)'
      BY <2>8, ReturnMove DEF OnClose
    <3> QED
      BY <3>1, <3>2, <3>3 DEF CloseOnce, OthersSame
  <2>9. CASE CloseGracefully(t) \/ ShutdownReceive(t)
    BY <2>9, GoMove, ReturnMove, CloseFrame DEF CloseGracefully, ShutdownReceive
  <2> QED
    BY <1>2, <2>1, <2>2, <2>3, <2>4, <2>5, <2>6, <2>7, <2>8, <2>9 DEF Code
<1>3. ASSUME NEW t \in Threads,
             \/ ConnectCompletion(t) \/ ReadCompletion(t) \/ PrefixCompletion(t)
             \/ WriteCompletion(t) \/ Destroy(t)
      PROVE  CloseOnce'
  <2>1. CASE UNCHANGED thread
    BY <1>3, <2>1 DEF ConnectCompletion, ReadCompletion, PrefixCompletion, WriteCompletion, Destroy,
                      thread, hist, CloseOnce, Closing
  <2>2. CASE OthersSame(t) /\ ~Closing(t) /\ ~Closing(t)'
    BY <1>3, <2>2, CloseFrame
       DEF ConnectCompletion, ReadCompletion, PrefixCompletion, WriteCompletion, Destroy, hist
  <2> QED
    BY <1>0, <1>3, <2>1, <2>2, BeginMove, CompleteMove
       DEF ConnectCompletion, ReadCompletion, PrefixCompletion, WriteCompletion, Destroy, Closing
<1>4. ASSUME NEW t \in Threads, UserCall(t) PROVE CloseOnce'
  <2>1. OthersSame(t) /\ ~Closing(t) /\ ~Closing(t)'
    BY <1>0, <1>4, GoMove, BeginMove DEF UserCall, At, Closing
  <2> QED
    BY <1>4, <2>1, CloseFrame DEF UserCall, hist
<1>5. ASSUME NEW t \in Threads, HandlerReturn(t) PROVE CloseOnce'
  <2>1. OthersSame(t) /\ ~Closing(t) /\ ~Closing(t)'
    BY <1>0, <1>5, HandlerReturnMove DEF ThreadOK, Afters, Closing
  <2> QED
    BY <1>5, <2>1, CloseFrame DEF HandlerReturn, hist
<1>6. CASE Drop \/ Finished \/ UNCHANGED vars
  BY <1>6 DEF Drop, Finished, vars, thread, hist, CloseOnce, Closing
<1> QED
  BY <1>1, <1>2, <1>3, <1>4, <1>5, <1>6 DEF Next

(* handler::close is called exactly once, by the one thread whose close()    *)
(* brought the session to closed, however many threads call close() and      *)
(* however the destructor and the completion handlers race with them.        *)
THEOREM ClosedOnce == ASSUME ~EarlyAccess PROVE Spec => []CloseOnce
<1>1. Init => CloseOnce
  BY DEF Init, CloseOnce, Closing
<1>2. TypeOK /\ EarlyOK /\ CloseOnce /\ [Next]_vars => CloseOnce'
  BY CloseInductive
<1> QED
  BY <1>1, <1>2, EarlyInvariant, PTL DEF Spec

----------------------------------------------------------------------------
(* Wake-ups of the write pump.                                               *)

(* The two ways a thread is responsible for the queue.                       *)
Carries(t) == Pumping(t) \/ Failing(t)
Looks(t)   == pc[t] \in {"write", "mark"}

LEMMA WakeupFrame ==
  ASSUME NoLostWakeup, NEW t \in Threads, OthersSame(t),
         managed' = managed, marked' = marked,
         status = "closed" => status' = "closed",
         op["write"] # "none" => op'["write"] # "none",
         Carries(t) => Carries(t)', Looks(t) => Looks(t)'
  PROVE  NoLostWakeup'
BY DEF NoLostWakeup, Pumped, Carries, Pumping, InWriteHandler, Failing, Looks, OthersSame

LEMMA CarriesReturn ==
  ASSUME ThreadOK, CourseOK, NEW t \in Threads, Return(t),
         pc[t] \notin {"start", "clear", "close_true"}
  PROVE  Carries(t) => Carries(t)'
BY ReturnMove DEF CourseOK, Course, Carries, Pumping, InWriteHandler, Failing

LEMMA CarriesGo ==
  ASSUME ThreadOK, NEW t \in Threads, NEW l, Go(t, l),
         pc[t] \notin {"start", "clear", "close_true"}
  PROVE  Carries(t) => Carries(t)'
BY GoMove DEF Carries, Pumping, InWriteHandler, Failing

LEMMA WakeupInductive ==
  ASSUME TypeOK, ControlOK, CourseOK, EarlyOK, NoLostWakeup, [Next]_vars
  PROVE  NoLostWakeup'
<1> USE DEF Ops
<1>0. ThreadOK /\ DataOK
  BY DEF TypeOK
<1>s. status = "closed" => status' = "closed"
  BY ClosedStays
<1>1. CASE Network
  <2>1. op'["write"] = "none" <=> op["write"] = "none"
    BY <1>0, <1>1, NetworkMove
  <2> QED
    BY <1>0, <1>1, <2>1, NetworkMove
       DEF thread, NoLostWakeup, Pumped, Pumping, InWriteHandler, Failing
<1>2. ASSUME NEW t \in Threads, Code(t) PROVE NoLostWakeup'
  <2> USE <1>0, <1>s DEF At, queue
  <2>c. Control(t) /\ Course(t)
    BY DEF ControlOK, CourseOK
  <2>1. CASE SetConnected(t) \/ Read(t)
    BY <2>1, GoMove, ReturnMove, CarriesGo, CarriesReturn, WakeupFrame
       DEF SetConnected, Read, Looks
  <2>2. CASE EnterConnected(t) \/ Settle(t) \/ Arm(t)
    <3>1. OthersSame(t) /\ ~Carries(t) /\ ~Looks(t)
      BY <2>2, <2>c, CallbackMove, EndMove, ReturnMove
         DEF EnterConnected, Settle, Arm, Control, Carries, Pumping, InWriteHandler, Failing, Looks
    <3>2. managed' = managed /\ marked' = marked /\ op'["write"] = op["write"]
      BY <2>2 DEF EnterConnected, Settle, Arm, DataOK
    <3> QED
      BY <3>1, <3>2, WakeupFrame
  <2>3. CASE WriteList(t) \/ Drained(t) \/ CloseGracefully(t) \/ ShutdownReceive(t)
    BY <2>3, GoMove, ReturnMove, CarriesGo, CarriesReturn, WakeupFrame
       DEF WriteList, Drained, CloseGracefully, ShutdownReceive, Looks
  <2>4. CASE ShutdownBoth(t) \/ OnClose(t)
    BY <2>4, GoMove, ReturnMove, CarriesGo, CarriesReturn, WakeupFrame
       DEF ShutdownBoth, OnClose, Looks
  <2>5. CASE Manage(t)
    <3>1. OthersSame(t) /\ Looks(t)' /\ (Carries(t) => Carries(t)') /\ marked' = marked /\ op' = op
      BY <2>5, GoMove, CarriesGo DEF Manage, Looks
    <3> QED
      BY <2>5, <3>1
         DEF Manage, NoLostWakeup, Pumped, Carries, Pumping, InWriteHandler, Failing, Looks, OthersSame
  <2>6. CASE Write(t)
    <3>1. CASE status = "closed"
      BY <2>6, <3>1 DEF Write, NoLostWakeup
    <3>2. CASE status # "closed"
      BY <2>6, <3>2, GoMove, CarriesGo, WakeupFrame DEF Write, Looks
    <3> QED
      BY <3>1, <3>2
  <2>7. CASE Mark(t)
    <3>1. CASE marked # <<>>
      <4>1. OthersSame(t) /\ (Carries(t) => Carries(t)') /\ UNCHANGED <<managed, marked, op, status>>
        BY <2>7, <3>1, ReturnMove, CarriesReturn DEF Mark
      <4> QED
        BY <3>1, <4>1
           DEF NoLostWakeup, Pumped, Carries, Pumping, InWriteHandler, Failing, OthersSame
    <3>2. CASE marked = <<>> /\ managed = <<>>
      BY <2>7, <3>2 DEF Mark, NoLostWakeup
    <3>3. CASE marked = <<>> /\ managed # <<>>
      <4>1. pc'[t] = "start" /\ managed' = <<>>
        BY <2>7, <3>3, GoMove DEF Mark
      <4> QED
        BY <4>1 DEF NoLostWakeup, Pumped, Pumping
    <3> QED
      BY <3>1, <3>2, <3>3
  <2>8. CASE StartWrite(t)
    <3>1. OthersSame(t) /\ op'["write"] # "none" /\ ~Looks(t) /\ UNCHANGED <<managed, marked, status>>
      BY <2>8, ReturnMove DEF StartWrite, DataOK, Looks
    <3> QED
      BY <3>1 DEF NoLostWakeup, Pumped, Looks, OthersSame
  <2>9. CASE ClearMarked(t)
    <3>1. Looks(t)' /\ marked' = <<>>
      BY <2>9, GoMove DEF ClearMarked, Looks
    <3> QED
      BY <3>1 DEF NoLostWakeup, Looks
  <2>10. CASE CloseNow(t)
    <3>1. status' = "closed"
      BY <2>10 DEF CloseNow
    <3> QED
      BY <3>1 DEF NoLostWakeup
  <2> QED
    BY <1>2, <2>1, <2>2, <2>3, <2>4, <2>5, <2>6, <2>7, <2>8, <2>9, <2>10 DEF Code
<1>3. ASSUME NEW t \in Threads, ConnectCompletion(t) \/ ReadCompletion(t) \/ Destroy(t)
      PROVE  NoLostWakeup'
  <2>1. OthersSame(t) /\ pc[t] = "idle" /\ task[t] = "none" /\ managed' = managed /\ marked' = marked
    BY <1>0, <1>3, BeginMove, CompleteMove
       DEF ConnectCompletion, ReadCompletion, Destroy, queue, CourseOK, Course
  <2>2. op'["write"] = op["write"]
    BY <1>0, <1>3 DEF ConnectCompletion, ReadCompletion, Destroy, DataOK
  <2> QED
    BY <1>s, <2>1, <2>2, WakeupFrame DEF Carries, Pumping, InWriteHandler, Failing, Looks
<1>4. ASSUME NEW t \in Threads, PrefixCompletion(t) PROVE NoLostWakeup'
  <2>1. op'["write"] = op["write"] /\ UNCHANGED <<managed, marked, status>>
    BY <1>0, <1>4 DEF PrefixCompletion, DataOK, queue
  <2>2. CASE UNCHANGED thread
    BY <2>1, <2>2 DEF thread, NoLostWakeup, Pumped, Pumping, InWriteHandler, Failing
  <2>3. CASE CompleteInto(t, "read", "close_false")
    <3>1. OthersSame(t) /\ pc[t] = "idle" /\ task[t] = "none"
      BY <1>0, <2>3, CompleteMove DEF CourseOK, Course
    <3> QED
      BY <2>1, <3>1, WakeupFrame DEF Carries, Pumping, InWriteHandler, Failing, Looks
  <2> QED
    BY <1>4, <2>2, <2>3 DEF PrefixCompletion
<1>5. ASSUME NEW t \in Threads, WriteCompletion(t) PROVE NoLostWakeup'
  <2>1. /\ OthersSame(t) /\ pc[t] = "idle" /\ UNCHANGED <<managed, marked, status>>
        /\ Pumping(t)'
    BY <1>0, <1>5, CompleteMove DEF WriteCompletion, queue, Pumping, InWriteHandler
  <2> QED
    BY <2>1 DEF NoLostWakeup, Pumped, OthersSame
<1>6. ASSUME NEW t \in Threads, UserCall(t) PROVE NoLostWakeup'
  <2>1. UNCHANGED <<managed, marked, status, op>>
    BY <1>6 DEF UserCall, queue
  <2>2. PICK l \in {"write_list", "close_false", "close_true"} :
          \/ At(t, "handler") /\ Go(t, l)
          \/ Begin(t, "call", l) /\ after' = after
    BY <1>6 DEF UserCall
  <2>3. CASE At(t, "handler") /\ Go(t, l)
    BY <1>0, <2>1, <2>3, GoMove, CarriesGo, WakeupFrame DEF At, Looks
  <2>4. CASE Begin(t, "call", l) /\ after' = after
    <3>1. OthersSame(t) /\ pc[t] = "idle" /\ task[t] = "none"
      BY <1>0, <2>4, BeginMove DEF CourseOK, Course
    <3> QED
      BY <2>1, <3>1, WakeupFrame DEF Carries, Pumping, InWriteHandler, Failing, Looks
  <2> QED
    BY <2>2, <2>3, <2>4
<1>7. ASSUME NEW t \in Threads, HandlerReturn(t) PROVE NoLostWakeup'
  <2>1. OthersSame(t) /\ pc[t] = "handler" /\ UNCHANGED <<managed, marked, status, op>>
    BY <1>0, <1>7, HandlerReturnMove DEF HandlerReturn, queue
  <2>2. Carries(t) => Carries(t)'
    BY <1>0, <1>7, HandlerReturnMove
       DEF CourseOK, Course, Carries, Pumping, InWriteHandler, Failing
  <2> QED
    BY <2>1, <2>2, WakeupFrame DEF Looks
<1>8. CASE Drop \/ Finished \/ UNCHANGED vars
  BY <1>8 DEF Drop, Finished, vars, thread, queue,
              NoLostWakeup, Pumped, Pumping, InWriteHandler, Failing
<1> QED
  BY <1>1, <1>2, <1>3, <1>4, <1>5, <1>6, <1>7, <1>8 DEF Next

(* Every buffer that waits is followed up: the write in progress, its        *)
(* handler, or a thread on its way to mark() is responsible for it, so that  *)
(* a writer and the completion handler never each take the other to be.      *)
THEOREM WakeupsKept == ASSUME ~EarlyAccess PROVE Spec => []NoLostWakeup
<1>1. Init => NoLostWakeup
  BY DEF Init, NoLostWakeup
<1>2. /\ TypeOK /\ ControlOK /\ CourseOK /\ EarlyOK /\ NoLostWakeup /\ [Next]_vars
      => NoLostWakeup'
  BY WakeupInductive
<1> QED
  BY <1>1, <1>2, EarlyInvariant, PTL DEF Spec

----------------------------------------------------------------------------
(* The sequences 1, 2, ..., n.                                               *)

LEMMA UpToType ==
  ASSUME NEW n \in Nat
  PROVE  /\ UpTo(n) \in Seq(Nat) /\ Len(UpTo(n)) = n
         /\ \A i \in 1..n : UpTo(n)[i] = i
BY DEF UpTo

LEMMA UpToPrefix ==
  ASSUME NEW s \in Seq(Nat), NEW r \in Seq(Nat), NEW n \in Nat, s \o r = UpTo(n)
  PROVE  /\ Len(s) + Len(r) = n
         /\ s = UpTo(Len(s))
<1>1. Len(s) \in Nat /\ Len(r) \in Nat /\ Len(s \o r) = Len(s) + Len(r)
  BY LenProperties, ConcatProperties
<1>2. Len(s) + Len(r) = n
  BY <1>1, UpToType
<1>3. \A i \in 1..Len(s) : s[i] = i
  <2> SUFFICES ASSUME NEW i \in 1..Len(s) PROVE s[i] = i
    OBVIOUS
  <2>1. i \in 1..(Len(s) + Len(r)) /\ i <= Len(s)
    BY <1>1
  <2>2. (s \o r)[i] = s[i]
    BY <2>1, ConcatProperties
  <2> QED
    BY <1>2, <2>1, <2>2, UpToType
<1> QED
  BY <1>1, <1>2, <1>3, UpToType, SeqEqual

LEMMA UpToNext ==
  ASSUME NEW n \in Nat, NEW s \in Seq(Nat), s = UpTo(n)
  PROVE  Append(s, n + 1) = UpTo(n + 1)
<1>1. n + 1 \in Nat /\ Len(s) = n /\ \A i \in 1..n : s[i] = i
  BY UpToType
<1>2. /\ Append(s, n + 1) \in Seq(Nat) /\ Len(Append(s, n + 1)) = n + 1
      /\ Append(s, n + 1)[n + 1] = n + 1
      /\ \A i \in 1..n : Append(s, n + 1)[i] = i
  BY <1>1, AppendProperties
<1>3. \A i \in 1..(n + 1) : Append(s, n + 1)[i] = UpTo(n + 1)[i]
  BY <1>1, <1>2, UpToType
<1> QED
  BY <1>1, <1>2, <1>3, UpToType, SeqEqual

Regroups(a, p, r) == (a \o p) \o r = a \o (p \o r)

LEMMA ThreeParts ==
  ASSUME NEW a \in Seq(Nat), NEW p \in Seq(Nat), NEW r \in Seq(Nat)
  PROVE  Regroups(a, p, r)
BY SMTT(20) DEF Regroups

(* Appending behind three sequences is appending to the last.                *)
LEMMA AppendLast ==
  ASSUME NEW a \in Seq(Nat), NEW m \in Seq(Nat), NEW g \in Seq(Nat), NEW x \in Nat
  PROVE  a \o (m \o Append(g, x)) = Append(a \o (m \o g), x)
<1>1. <<x>> \in Seq(Nat) /\ m \o g \in Seq(Nat) /\ a \o (m \o g) \in Seq(Nat)
  BY ConcatProperties
<1>2. Append(g, x) = g \o <<x>>
  BY AppendIsConcat
<1>3. Regroups(m, g, <<x>>)
  BY <1>1, ThreeParts
<1>4. Regroups(a, m \o g, <<x>>)
  BY <1>1, ThreeParts
<1>5. Append(a \o (m \o g), x) = (a \o (m \o g)) \o <<x>>
  BY <1>1, AppendIsConcat
<1> QED
  BY <1>2, <1>3, <1>4, <1>5, Zenon DEF Regroups

(* A sequence behind a is its first k elements and a rest.                   *)
LEMMA Taken ==
  ASSUME NEW m \in Seq(Nat), NEW k \in 0..Len(m)
  PROVE  \E q \in Seq(Nat) :
           /\ SubSeq(m, 1, k) \in Seq(Nat) /\ Len(SubSeq(m, 1, k)) = k
           /\ SubSeq(m, 1, k) \o q = m
<1>1. Len(m) \in Nat /\ k \in Nat /\ \A i \in 1..Len(m) : m[i] \in Nat
  BY LenProperties, ElementOfSeq
<1>2. /\ SubSeq(m, 1, k) \in Seq(Nat) /\ Len(SubSeq(m, 1, k)) = k
      /\ SubSeq(m, k + 1, Len(m)) \in Seq(Nat)
  BY <1>1, SubSeqProperties
<1>3. 1 \in 1..(Len(m) + 1) /\ k \in (1 - 1)..Len(m) /\ Len(m) \in k..Len(m)
  BY <1>1
<1>4. SubSeq(m, 1, k) \o SubSeq(m, k + 1, Len(m)) = SubSeq(m, 1, Len(m))
  BY <1>3, ConcatAdjacentSubSeq
<1> QED
  BY <1>2, <1>4, SubSeqFull

(* x is a, p and a rest.                                                     *)
Begins(a, p, x) ==
  \E r \in Seq(Nat) : /\ p \o r \in Seq(Nat) /\ a \o p \in Seq(Nat)
                      /\ x = a \o (p \o r) /\ x = (a \o p) \o r

LEMMA FirstPart ==
  ASSUME NEW a \in Seq(Nat), NEW p \in Seq(Nat), NEW q \in Seq(Nat), NEW g \in Seq(Nat)
  PROVE  Begins(a, p, a \o ((p \o q) \o g))
<1>1. q \o g \in Seq(Nat) /\ p \o (q \o g) \in Seq(Nat) /\ a \o p \in Seq(Nat)
  BY ConcatProperties
<1>2. Regroups(p, q, g)
  BY ThreeParts
<1>3. PICK r \in Seq(Nat) : r = q \o g
  BY <1>1
<1>4. Regroups(a, p, r)
  BY ThreeParts
<1>5. a \o ((p \o q) \o g) = a \o (p \o r) /\ a \o (p \o r) = (a \o p) \o r
  BY <1>2, <1>3, <1>4, Zenon DEF Regroups
<1>6. p \o r \in Seq(Nat)
  BY <1>1, <1>3
<1> QED
  BY <1>1, <1>5, <1>6, Zenon DEF Begins

Counts(s) == s = UpTo(Len(s))

(* If 1, 2, ..., n is a, p and a rest, a counts, and p continues it.         *)
LEMMA UpToPart ==
  ASSUME NEW a \in Seq(Nat), NEW p \in Seq(Nat), NEW n \in Nat, Begins(a, p, UpTo(n))
  PROVE  Counts(a) /\ Counts(a \o p)
<1>1. PICK r \in Seq(Nat) : /\ p \o r \in Seq(Nat) /\ a \o p \in Seq(Nat)
                            /\ UpTo(n) = a \o (p \o r) /\ UpTo(n) = (a \o p) \o r
  BY DEF Begins
<1>2. a = UpTo(Len(a))
  BY <1>1, UpToPrefix
<1>3. a \o p = UpTo(Len(a \o p))
  BY <1>1, UpToPrefix
<1> QED
  BY <1>2, <1>3 DEF Counts

----------------------------------------------------------------------------
(* Buffers reach TCP in order.                                               *)

Clearing(t) == pc[t] = "clear" \/ after[t] = "clear"

(* WriteOrder leaves open how much of the marked list TCP has taken: nothing *)
(* before the operation has a result, everything once it has succeeded.      *)
WireOK ==
  /\ WriteOrder
  /\ op["write"] = "pending" \/ (\E t \in Threads : pc[t] = "start") =>
       Len(wire) = Len(acked)
  /\ op["write"] = "ok" \/ (\E t \in Threads : Clearing(t)) =>
       Len(wire) = Len(acked) + Len(marked)

(* A step that leaves the lists alone and does not reach the statements that *)
(* the last two parts are about.                                             *)
LEMMA WireFrame ==
  ASSUME WireOK, NEW t \in Threads, OthersSame(t), UNCHANGED queue,
         op'["write"] \in {op["write"], "none"},
         pc'[t] # "start", Clearing(t)' => Clearing(t) \/ op["write"] = "ok"
  PROVE  WireOK'
<1>1. UNCHANGED <<managed, marked, accepted, acked, wire>>
  BY DEF queue
<1>2. WriteOrder'
  BY <1>1 DEF WireOK, WriteOrder, UpTo
<1>3. op'["write"] = "pending" \/ (\E u \in Threads : pc'[u] = "start") =>
        op["write"] = "pending" \/ (\E u \in Threads : pc[u] = "start")
  BY DEF OthersSame
<1>4. op'["write"] = "ok" \/ (\E u \in Threads : Clearing(u)') =>
        op["write"] = "ok" \/ (\E u \in Threads : Clearing(u))
  BY DEF OthersSame, Clearing
<1> QED
  BY <1>1, <1>2, <1>3, <1>4 DEF WireOK

LEMMA WireGo ==
  ASSUME ThreadOK, WireOK, NEW t \in Threads, UNCHANGED queue,
         op'["write"] = op["write"],
         \/ Return(t)
         \/ \E l \in Labels \ {"start", "clear"} : Go(t, l)
  PROVE  WireOK'
<1>1. OthersSame(t) /\ after'[t] = after[t] /\ pc'[t] \notin {"start", "clear"}
  BY GoMove, ReturnMove
<1> QED
  BY <1>1, WireFrame DEF Clearing

LEMMA ManageWire ==
  ASSUME TypeOK, WireOK, NEW t \in Threads, Manage(t)
  PROVE  WireOK'
<1>1. /\ accepted \in Nat /\ managed \in Seq(Nat) /\ marked \in Seq(Nat)
      /\ acked \in Seq(Nat) /\ ThreadOK /\ accepted + 1 \in Nat
  BY DEF TypeOK, DataOK
<1>2. /\ acked' \o (marked' \o managed') = acked \o (marked \o Append(managed, accepted + 1))
      /\ accepted' = accepted + 1 /\ UNCHANGED <<op, marked, acked, wire>>
  BY DEF Manage
<1>3. acked \o (marked \o Append(managed, accepted + 1))
        = Append(acked \o (marked \o managed), accepted + 1)
  BY <1>1, AppendLast, ZenonT(30)
<1>4. acked \o (marked \o managed) \in Seq(Nat)
  BY <1>1, ConcatProperties
<1>5. Append(acked \o (marked \o managed), accepted + 1) = UpTo(accepted + 1)
  BY <1>1, <1>4, UpToNext DEF WireOK, WriteOrder
<1>6. WriteOrder'
  BY <1>2, <1>3, <1>5 DEF WireOK, WriteOrder, UpTo
<1>7. OthersSame(t) /\ pc'[t] = "write" /\ after'[t] = after[t]
  BY <1>1, GoMove DEF Manage
<1> QED
  BY <1>2, <1>6, <1>7 DEF WireOK, Clearing, OthersSame

LEMMA MarkWire ==
  ASSUME TypeOK, ControlOK, PumpOK, WireOK, NEW t \in Threads, Mark(t)
  PROVE  WireOK'
<1>0. ThreadOK /\ DataOK
  BY DEF TypeOK
<1>1. CASE managed' = managed /\ marked' = marked
  <2>1. UNCHANGED queue /\ op' = op
    BY <1>1 DEF Mark, queue
  <2>2. Return(t) \/ Go(t, "drained")
    BY <1>1 DEF Mark
  <2> QED
    BY <1>0, <2>1, <2>2, WireGo DEF Labels
<1>2. CASE marked = <<>> /\ managed # <<>> /\ Go(t, "start") /\ marked' = managed /\ managed' = <<>>
  <2>1. /\ managed \in Seq(Nat) /\ UNCHANGED <<accepted, acked, wire, op>>
        /\ Len(wire) \in Nat /\ Len(acked) \in Nat /\ Len(managed) \in Nat
    BY <1>0, <1>2 DEF Mark, DataOK
  <2>2. managed \o <<>> = managed /\ <<>> \o managed = managed
    BY <2>1, ConcatEmptySeq
  <2>3. Len(wire) = Len(acked)
    BY <1>2, <2>1 DEF WireOK, WriteOrder
  <2>4. WriteOrder'
    BY <1>2, <2>1, <2>2, <2>3 DEF WireOK, WriteOrder, UpTo
  <2>5. op["write"] = "none" /\ \A u \in Threads : ~Pumping(u)
    BY <1>2 DEF PumpOK, SinglePump
  <2>6. \A u \in Threads : ~Clearing(u)'
    BY <1>0, <1>2, <2>5, GoMove
       DEF Clearing, Pumping, InWriteHandler, ControlOK, Control, OthersSame
  <2> QED
    BY <2>1, <2>3, <2>4, <2>5, <2>6 DEF WireOK
<1> QED
  BY <1>1, <1>2 DEF Mark

LEMMA ClearWire ==
  ASSUME TypeOK, ControlOK, PumpOK, WireOK, NEW t \in Threads, ClearMarked(t)
  PROVE  WireOK'
<1>1. /\ ThreadOK /\ managed \in Seq(Nat) /\ marked \in Seq(Nat) /\ acked \in Seq(Nat)
      /\ wire \in Seq(Nat) /\ pc[t] = "clear"
  BY DEF TypeOK, DataOK, ClearMarked, At
<1>2. acked' = acked \o marked /\ marked' = <<>> /\ UNCHANGED <<op, managed, accepted, wire>>
  BY DEF ClearMarked
<1>3. <<>> \o managed = managed /\ (acked \o marked) \o managed = acked \o (marked \o managed)
  <2>1. Regroups(acked, marked, managed)
    BY <1>1, ThreeParts
  <2> QED
    BY <1>1, <2>1, ConcatEmptySeq DEF Regroups
<1>4. Len(wire) = Len(acked \o marked) /\ Len(wire) \in Nat
  <2>1. Len(wire) = Len(acked) + Len(marked)
    BY <1>1 DEF WireOK, Clearing
  <2> QED
    BY <1>1, <2>1, ConcatProperties
<1>5. WriteOrder'
  <2>1. acked' \o (marked' \o managed') = UpTo(accepted')
    <3>1. acked \o (marked \o managed) = UpTo(accepted)
      BY DEF WireOK, WriteOrder
    <3> QED
      BY <1>2, <1>3, <3>1 DEF UpTo
  <2>2. wire' = UpTo(Len(wire'))
    BY <1>2 DEF WireOK, WriteOrder, UpTo
  <2>3. Len(marked') = 0 /\ Len(acked') = Len(wire') /\ Len(wire') \in Nat
    BY <1>2, <1>4
  <2> QED
    BY <2>1, <2>2, <2>3 DEF WriteOrder
<1>6. Pumping(t) /\ op["write"] = "none" /\ \A u \in Threads \ {t} : ~Pumping(u)
  BY <1>1 DEF PumpOK, SinglePump, Pumping, InWriteHandler, ControlOK, Control
<1>7. \A u \in Threads \ {t} : ~Clearing(u) /\ pc[u] # "start"
  BY <1>6 DEF Clearing, Pumping, InWriteHandler, ControlOK, Control
<1>8. OthersSame(t) /\ pc'[t] = "write" /\ after'[t] = "none"
  BY <1>1, GoMove DEF ClearMarked, ControlOK, Control
<1>9. \A u \in Threads : ~Clearing(u)' /\ pc'[u] # "start"
  BY <1>7, <1>8 DEF Clearing, OthersSame
<1> QED
  BY <1>2, <1>5, <1>6, <1>9 DEF WireOK

(* TCP takes the first k buffers of the marked list.                         *)
LEMMA TakeWire ==
  ASSUME TypeOK, WriteOrder, Len(wire) = Len(acked), NEW k \in 0..Len(marked),
         UNCHANGED <<managed, marked, accepted, acked>>,
         wire' = wire \o SubSeq(marked, 1, k)
  PROVE  WriteOrder' /\ Len(wire') = Len(acked) + k
<1>1. /\ managed \in Seq(Nat) /\ marked \in Seq(Nat) /\ acked \in Seq(Nat)
      /\ wire \in Seq(Nat) /\ accepted \in Nat
      /\ Len(acked) \in Nat /\ Len(marked) \in Nat
  BY DEF TypeOK, DataOK
<1>2. PICK p \in Seq(Nat), q \in Seq(Nat) :
        p = SubSeq(marked, 1, k) /\ Len(p) = k /\ p \o q = marked
  <2>1. PICK q \in Seq(Nat) :
          /\ SubSeq(marked, 1, k) \in Seq(Nat) /\ Len(SubSeq(marked, 1, k)) = k
          /\ SubSeq(marked, 1, k) \o q = marked
    BY <1>1, Taken, Zenon
  <2> QED
    BY <2>1, Zenon
<1>3. acked \o ((p \o q) \o managed) = UpTo(accepted)
  BY <1>2 DEF WriteOrder
<1>4. Begins(acked, p, UpTo(accepted))
  <2>1. Begins(acked, p, acked \o ((p \o q) \o managed))
    BY <1>1, <1>2, FirstPart, Zenon
  <2> QED
    BY <1>3, <2>1, Zenon
<1>5. Counts(acked) /\ Counts(acked \o p)
  BY <1>1, <1>2, <1>4, UpToPart
<1>6. acked \o p \in Seq(Nat) /\ Len(acked \o p) = Len(acked) + Len(p)
  <2>1. \A a, b \in Seq(Nat) : a \o b \in Seq(Nat) /\ Len(a \o b) = Len(a) + Len(b)
    BY ConcatProperties, Zenon
  <2> QED
    BY <1>1, <1>2, <2>1, Zenon
<1>7. wire = acked
  BY <1>5 DEF WriteOrder, Counts
<1>8. wire' = acked \o p /\ Len(wire') = Len(acked) + k
  BY <1>2, <1>6, <1>7
<1>9. wire' = UpTo(Len(wire'))
  BY <1>5, <1>8 DEF Counts
<1>10. acked' \o (marked' \o managed') = UpTo(accepted')
  BY DEF WriteOrder
<1>11. Len(acked') <= Len(wire') /\ Len(wire') <= Len(acked') + Len(marked')
  BY <1>1, <1>8
<1> QED
  BY <1>8, <1>9, <1>10, <1>11 DEF WriteOrder

LEMMA NetworkWire ==
  ASSUME TypeOK, ControlOK, PumpOK, WireOK, Network
  PROVE  WireOK'
<1>0. DataOK
  BY DEF TypeOK
<1>1. /\ Len(marked) \in Nat /\ marked \in Seq(Nat)
      /\ UNCHANGED <<thread, managed, marked, accepted, acked>>
  BY <1>0, NetworkMove DEF DataOK
<1>2. CASE ConnectDone \/ ReadData \/ ReadEnd
  <2>1. op'["write"] = op["write"] /\ wire' = wire
    BY <1>0, <1>2 DEF ConnectDone, ReadData, ReadEnd, Finish, DataOK, Ops
  <2> QED
    BY <1>1, <2>1 DEF WireOK, WriteOrder, UpTo, Clearing, thread
<1>3. CASE WriteOk \/ WriteErr
  <2>1. /\ op["write"] = "pending"
        /\ op'["write"] = "ok" \/ op'["write"] = "err"
    BY <1>0, <1>3 DEF WriteOk, WriteErr, Finish, DataOK, Ops
  <2>2. Len(wire) = Len(acked) /\ WriteOrder
    BY <2>1 DEF WireOK
  <2>3. \A t \in Threads : ~Clearing(t) /\ pc[t] # "start"
    BY <2>1 DEF PumpOK, SinglePump, Pumping, InWriteHandler, Clearing, ControlOK, Control
  <2>4. marked # <<>> /\ Len(marked) # 0
    BY <1>1, <2>1, EmptySeq DEF PumpOK, SinglePump
  <2>5. CASE WriteOk
    <3>1. SubSeq(marked, 1, Len(marked)) = marked
      BY <1>1, SubSeqFull
    <3>2. wire' = wire \o SubSeq(marked, 1, Len(marked)) /\ op'["write"] = "ok"
      BY <1>0, <2>5, <3>1 DEF WriteOk, Finish, DataOK, Ops
    <3>3. WriteOrder' /\ Len(wire') = Len(acked) + Len(marked)
      BY <1>1, <2>2, <3>2, Len(marked) \in 0..Len(marked), TakeWire
    <3> QED
      BY <1>1, <2>3, <3>2, <3>3 DEF WireOK, Clearing, thread
  <2>6. CASE WriteErr
    <3>1. PICK k \in 0..(Len(marked) - 1) : wire' = wire \o SubSeq(marked, 1, k)
      BY <2>6 DEF WriteErr
    <3>2. op'["write"] = "err" /\ k \in 0..Len(marked)
      BY <1>0, <1>1, <2>6 DEF WriteErr, Finish, DataOK, Ops
    <3>3. WriteOrder'
      BY <1>1, <2>2, <3>1, <3>2, TakeWire
    <3> QED
      BY <1>1, <2>3, <3>2, <3>3 DEF WireOK, Clearing, thread
  <2> QED
    BY <1>3, <2>5, <2>6
<1> QED
  BY <1>2, <1>3 DEF Network

LEMMA WireInductive ==
  TypeOK /\ ControlOK /\ PumpOK /\ WireOK /\ [Next]_vars => WireOK'
<1> SUFFICES ASSUME TypeOK, ControlOK, PumpOK, WireOK, [Next]_vars PROVE WireOK'
  OBVIOUS
<1>0. ThreadOK /\ DataOK
  BY DEF TypeOK
<1>1. ASSUME NEW t \in Threads, Code(t) PROVE WireOK'
  <2> USE <1>0 DEF At, Labels
  <2>1. CASE SetConnected(t)
    BY <2>1, WireGo DEF SetConnected
  <2>2. CASE EnterConnected(t)
    <3>1. op'["write"] = op["write"] /\ UNCHANGED queue
      BY <2>2 DEF EnterConnected, DataOK, Ops
    <3> QED
      BY <2>2, <3>1, CallbackMove, EndMove, WireFrame DEF EnterConnected, Clearing
  <2>3. CASE Settle(t)
    <3>1. op'["write"] = op["write"] /\ UNCHANGED queue
      BY <2>3 DEF Settle, DataOK, Ops
    <3> QED
      BY <2>3, <3>1, EndMove, WireFrame DEF Settle, Clearing
  <2>4. CASE Read(t)
    BY <2>4, WireGo DEF Read
  <2>5. CASE Arm(t)
    <3>1. op'["write"] = op["write"] /\ UNCHANGED queue
      BY <2>5 DEF Arm, DataOK, Ops
    <3>2. CASE Return(t)
      BY <3>1, <3>2, WireGo
    <3>3. ASSUME NEW k \in {"read", "close_false"}, Callback(t, k), task' = task PROVE WireOK'
      BY <3>1, <3>3, CallbackMove, WireFrame DEF Clearing
    <3> QED
      BY <2>5, <3>2, <3>3 DEF Arm
  <2>6. CASE WriteList(t) \/ Write(t) \/ Drained(t)
    BY <2>6, WireGo DEF WriteList, Write, Drained
  <2>7. CASE StartWrite(t)
    <3>1. /\ OthersSame(t) /\ after'[t] = after[t] /\ pc'[t] \notin {"start", "clear"}
          /\ op'["write"] = "pending" /\ UNCHANGED queue
      BY <2>7, ReturnMove DEF StartWrite, DataOK, Ops
    <3>2. Len(wire) = Len(acked)
      BY <2>7 DEF StartWrite, WireOK
    <3>3. \A u \in Threads : Clearing(u)' => Clearing(u)
      BY <3>1 DEF Clearing, OthersSame
    <3> QED
      BY <3>1, <3>2, <3>3 DEF WireOK, WriteOrder, UpTo, queue
  <2>8. CASE CloseNow(t) \/ ShutdownBoth(t) \/ OnClose(t)
    BY <2>8, WireGo DEF CloseNow, ShutdownBoth, OnClose
  <2>9. CASE CloseGracefully(t) \/ ShutdownReceive(t)
    BY <2>9, WireGo DEF CloseGracefully, ShutdownReceive
  <2> QED
    BY <1>1, <2>1, <2>2, <2>3, <2>4, <2>5, <2>6, <2>7, <2>8, <2>9,
       ManageWire, MarkWire, ClearWire DEF Code
<1>2. ASSUME NEW t \in Threads, ConnectCompletion(t) \/ Destroy(t) PROVE WireOK'
  BY <1>0, <1>2, BeginMove, CompleteMove, WireFrame DEF ConnectCompletion, Destroy, Clearing
<1>3. ASSUME NEW t \in Threads, ReadCompletion(t) PROVE WireOK'
  <2>1. op'["write"] = op["write"] /\ UNCHANGED queue
    BY <1>0, <1>3 DEF ReadCompletion, DataOK, Ops
  <2> QED
    BY <1>0, <1>3, <2>1, CompleteMove, WireFrame DEF ReadCompletion, Clearing
<1>4. ASSUME NEW t \in Threads, PrefixCompletion(t) PROVE WireOK'
  <2>1. op'["write"] = op["write"] /\ UNCHANGED queue
    BY <1>0, <1>4 DEF PrefixCompletion, DataOK, Ops
  <2>2. CASE UNCHANGED thread
    BY <2>1, <2>2 DEF thread, queue, WireOK, WriteOrder, UpTo, Clearing
  <2> QED
    BY <1>0, <1>4, <2>1, <2>2, CompleteMove, WireFrame DEF PrefixCompletion, Clearing
<1>5. ASSUME NEW t \in Threads, WriteCompletion(t) PROVE WireOK'
  <2>1. /\ op["write"] \in {"ok", "err"} /\ op'["write"] = "none" /\ UNCHANGED queue
        /\ \/ op["write"] = "ok" /\ CompleteInto(t, "write", "clear")
           \/ CompleteInto(t, "write", "close_true")
    BY <1>0, <1>5 DEF WriteCompletion, DataOK, Ops
  <2> QED
    BY <1>0, <2>1, CompleteMove, WireFrame DEF Clearing
<1>6. ASSUME NEW t \in Threads, UserCall(t) PROVE WireOK'
  <2>1. PICK l \in {"write_list", "close_false", "close_true"} :
          \/ Go(t, l)
          \/ Begin(t, "call", l) /\ after' = after
    BY <1>6 DEF UserCall
  <2> QED
    BY <1>0, <1>6, <2>1, WireGo, BeginMove, WireFrame DEF UserCall, Labels, Clearing
<1>7. ASSUME NEW t \in Threads, HandlerReturn(t) PROVE WireOK'
  BY <1>0, <1>7, HandlerReturnMove, WireFrame DEF HandlerReturn, ThreadOK, Afters, Clearing
<1>8. CASE Drop \/ Finished \/ UNCHANGED vars
  BY <1>8 DEF Drop, Finished, vars, thread, queue, WireOK, WriteOrder, UpTo, Clearing
<1> QED
  BY <1>1, <1>2, <1>3, <1>4, <1>5, <1>6, <1>7, <1>8, NetworkWire DEF Next

LEMMA WireInvariant == Spec => [](TypeOK /\ ControlOK /\ PumpOK /\ WireOK)
<1>1. Init => WireOK
  <2> SUFFICES ASSUME Init PROVE WireOK
    OBVIOUS
  <2>1. /\ managed = <<>> /\ marked = <<>> /\ acked = <<>> /\ wire = <<>> /\ accepted = 0
        /\ op["write"] = "none" /\ \A t \in Threads : pc[t] = "idle" /\ after[t] = "none"
    BY DEF Init, Ops
  <2>2. <<>> \o (<<>> \o <<>>) = <<>> /\ UpTo(0) = <<>> /\ Len(<<>>) = 0
    BY DEF UpTo
  <2> QED
    BY <2>1, <2>2 DEF WireOK, WriteOrder, Clearing
<1> QED
  BY <1>1, PumpInvariant, WireInductive, PTL DEF Spec

(* What TCP has taken, what is on its way and what waits is, in this order,  *)
(* what write() accepted: no buffer is lost, repeated or overtaken, whichever*)
(* threads write, complete and clear.                                        *)
THEOREM OrderKept == Spec => []WriteOrder
<1>1. WireOK => WriteOrder
  BY DEF WireOK
<1> QED
  BY <1>1, WireInvariant, PTL

----------------------------------------------------------------------------
(* What close(false) has delivered.                                          *)

Ending == status \in {"closing", "closed"}

(* A thread that saw both lists empty still finds them so, unless a buffer   *)
(* was queued meanwhile; close(false) takes effect before the queue is found *)
(* drained, and not again after it.                                          *)
FlushOK ==
  /\ promised <= accepted
  /\ \A t \in Threads : pc[t] = "drained" /\ ~raced => marked = <<>> /\ managed = <<>>
  /\ drained => Ending
  /\ GracefulFlush

LEMMA FlushFrame ==
  ASSUME FlushOK, NEW t \in Threads, OthersSame(t), UNCHANGED <<queue, promised, drained, raced>>,
         Ending => Ending', pc'[t] # "drained"
  PROVE  FlushOK'
BY DEF FlushOK, GracefulFlush, OthersSame, queue, Ending

LEMMA FlushGo ==
  ASSUME ThreadOK, FlushOK, NEW t \in Threads, UNCHANGED <<queue, promised, drained, raced>>,
         Ending => Ending',
         \/ Return(t)
         \/ \E l \in Labels \ {"drained"} : Go(t, l)
  PROVE  FlushOK'
BY GoMove, ReturnMove, FlushFrame

LEMMA DrainedFlush ==
  ASSUME TypeOK, WriteOrder, FlushOK, NEW t \in Threads, Drained(t)
  PROVE  FlushOK'
<1>0. /\ ThreadOK /\ acked \in Seq(Nat) /\ accepted \in Nat /\ promised \in Nat
      /\ UNCHANGED <<status, queue, promised, raced>>
  BY DEF TypeOK, DataOK, Drained
<1>1. CASE status # "closing"
  BY <1>0, <1>1, FlushGo DEF Drained, Ending
<1>2. CASE status = "closing"
  <2>1. OthersSame(t) /\ pc'[t] = "close_true" /\ drained' = TRUE
    BY <1>0, <1>2, GoMove DEF Drained
  <2>2. ASSUME ~raced PROVE Len(acked) >= promised
    <3>1. marked = <<>> /\ managed = <<>>
      BY <2>2 DEF Drained, At, FlushOK
    <3>2. acked \o <<>> = acked /\ <<>> \o <<>> = <<>>
      BY <1>0, ConcatEmptySeq
    <3>3. acked = UpTo(accepted)
      BY <3>1, <3>2 DEF WriteOrder
    <3> QED
      BY <1>0, <3>3, UpToType DEF FlushOK
  <2> QED
    BY <1>0, <1>2, <2>1, <2>2 DEF FlushOK, GracefulFlush, OthersSame, queue, Ending
<1> QED
  BY <1>1, <1>2

LEMMA FlushInductive ==
  TypeOK /\ ControlOK /\ EarlyOK /\ WriteOrder /\ FlushOK /\ [Next]_vars => FlushOK'
<1> SUFFICES ASSUME TypeOK, ControlOK, EarlyOK, WriteOrder, FlushOK, [Next]_vars PROVE FlushOK'
  OBVIOUS
<1>0. /\ ThreadOK /\ DataOK /\ promised \in Nat /\ accepted \in Nat
      /\ marked \in Seq(Nat) /\ acked \in Seq(Nat)
  BY DEF TypeOK, DataOK
<1>1. CASE Network
  BY <1>0, <1>1, NetworkMove DEF FlushOK, GracefulFlush, thread, hist, Ending
<1>2. ASSUME NEW t \in Threads, Code(t) PROVE FlushOK'
  <2> USE <1>0 DEF At, Labels, hist, Ending
  <2>1. CASE SetConnected(t)
    <3>1. ~drained
      BY <2>1 DEF SetConnected, EarlyOK, FlushOK
    <3> QED
      BY <2>1, <3>1, GoMove DEF SetConnected, FlushOK, GracefulFlush, OthersSame, queue
  <2>2. CASE EnterConnected(t)
    BY <2>2, CallbackMove, EndMove, FlushFrame DEF EnterConnected
  <2>3. CASE Settle(t)
    BY <2>3, EndMove, FlushFrame DEF Settle
  <2>4. CASE Read(t)
    BY <2>4, FlushGo DEF Read
  <2>5. CASE Arm(t)
    BY <2>5, CallbackMove, ReturnMove, FlushFrame DEF Arm
  <2>6. CASE WriteList(t) \/ Write(t)
    BY <2>6, FlushGo DEF WriteList, Write
  <2>7. CASE Manage(t)
    <3>1. /\ OthersSame(t) /\ pc'[t] = "write"
          /\ UNCHANGED <<status, promised, drained, acked>> /\ accepted' = accepted + 1
      BY <2>7, GoMove DEF Manage, Overtakes
    <3>2. ~raced' => ~raced /\ \A u \in Threads \ {t} : pc[u] # "drained"
      BY <2>7 DEF Manage, Overtakes
    <3>3. \A u \in Threads : ~raced' => pc'[u] # "drained"
      BY <3>1, <3>2 DEF OthersSame
    <3>4. promised' <= accepted'
      BY <3>1 DEF FlushOK
    <3>5. GracefulFlush'
      BY <3>1, <3>2 DEF FlushOK, GracefulFlush
    <3> QED
      BY <3>1, <3>3, <3>4, <3>5 DEF FlushOK
  <2>8. CASE Mark(t)
    <3>1. CASE marked # <<>>
      BY <2>8, <3>1, FlushGo DEF Mark, queue
    <3>2. CASE marked = <<>> /\ managed = <<>>
      BY <2>8, <3>2, GoMove DEF Mark, FlushOK, GracefulFlush, OthersSame
    <3>3. CASE marked = <<>> /\ managed # <<>>
      BY <2>8, <3>3, GoMove DEF Mark, FlushOK, GracefulFlush, OthersSame
    <3> QED
      BY <3>1, <3>2, <3>3
  <2>9. CASE StartWrite(t)
    BY <2>9, FlushGo DEF StartWrite
  <2>10. CASE ClearMarked(t)
    <3>1. /\ OthersSame(t) /\ pc'[t] = "write" /\ marked' = <<>>
          /\ UNCHANGED <<status, promised, drained, raced, managed, accepted>>
      BY <2>10, GoMove DEF ClearMarked
    <3>2. Len(acked') >= Len(acked) /\ Len(acked') \in Nat /\ Len(acked) \in Nat
      <4>1. acked \in Seq(Nat) /\ marked \in Seq(Nat) /\ acked' = acked \o marked
        BY <1>0, <2>10 DEF TypeOK, DataOK, ClearMarked
      <4>2. Len(acked \o marked) = Len(acked) + Len(marked)
        BY <4>1, ConcatProperties
      <4> QED
        BY <4>1, <4>2
    <3> QED
      BY <3>1, <3>2 DEF FlushOK, GracefulFlush, OthersSame
  <2>11. CASE CloseNow(t) \/ ShutdownBoth(t) \/ OnClose(t)
    BY <2>11, FlushGo DEF CloseNow, ShutdownBoth, OnClose
  <2>12. CASE CloseGracefully(t)
    <3>1. CASE Ending
      BY <2>12, <3>1, FlushGo DEF CloseGracefully
    <3>2. CASE ~Ending
      <4>1. /\ OthersSame(t) /\ pc'[t] = "shut_recv" /\ promised' = accepted
            /\ UNCHANGED <<managed, marked, acked, accepted, drained, raced>>
        BY <2>12, <3>2, GoMove DEF CloseGracefully, queue
      <4> QED
        BY <3>2, <4>1 DEF FlushOK, GracefulFlush, OthersSame
    <3> QED
      BY <3>1, <3>2
  <2>13. CASE ShutdownReceive(t)
    BY <2>13, FlushGo DEF ShutdownReceive
  <2> QED
    BY <1>2, <2>1, <2>2, <2>3, <2>4, <2>5, <2>6, <2>7, <2>8, <2>9, <2>10, <2>11, <2>12, <2>13,
       DrainedFlush DEF Code
<1>3. ASSUME NEW t \in Threads,
             \/ ConnectCompletion(t) \/ ReadCompletion(t) \/ WriteCompletion(t) \/ Destroy(t)
      PROVE  FlushOK'
  <2>1. UNCHANGED <<queue, status, hist>> /\ pc[t] = "idle" /\ pc'[t] # "drained" /\ OthersSame(t)
    <3>1. CASE ConnectCompletion(t) \/ ReadCompletion(t)
      BY <1>0, <3>1, BeginMove, CompleteMove DEF ConnectCompletion, ReadCompletion, hist
    <3>2. CASE WriteCompletion(t) \/ Destroy(t)
      BY <1>0, <3>2, BeginMove, CompleteMove DEF WriteCompletion, Destroy, hist
    <3> QED
      BY <1>3, <3>1, <3>2
  <2> QED
    BY <1>0, <2>1, FlushFrame DEF hist, Ending
<1>4. ASSUME NEW t \in Threads, PrefixCompletion(t) PROVE FlushOK'
  <2>1. CASE UNCHANGED thread
    BY <1>4, <2>1
       DEF PrefixCompletion, thread, queue, hist, FlushOK, GracefulFlush, Ending
  <2> QED
    BY <1>0, <1>4, <2>1, CompleteMove, FlushFrame DEF PrefixCompletion, hist, Ending
<1>5. ASSUME NEW t \in Threads, UserCall(t) PROVE FlushOK'
  BY <1>0, <1>5, FlushGo, BeginMove, FlushFrame DEF UserCall, Labels, hist, Ending
<1>6. ASSUME NEW t \in Threads, HandlerReturn(t) PROVE FlushOK'
  BY <1>0, <1>6, HandlerReturnMove, FlushFrame DEF HandlerReturn, ThreadOK, Afters, hist, Ending
<1>7. CASE Drop \/ Finished \/ UNCHANGED vars
  BY <1>7 DEF Drop, Finished, vars, thread, queue, hist, FlushOK, GracefulFlush, Ending
<1> QED
  BY <1>1, <1>2, <1>3, <1>4, <1>5, <1>6, <1>7 DEF Next

(* When close(false) finds the queue drained, every buffer accepted before   *)
(* the call has been acknowledged, but for the buffers that raced with the   *)
(* look at status_.                                                          *)
THEOREM FlushedOnClose == ASSUME ~EarlyAccess PROVE Spec => []GracefulFlush
<1>1. Init => FlushOK
  BY DEF Init, FlushOK, GracefulFlush
<1>2. WireOK => WriteOrder
  BY DEF WireOK
<1>3. FlushOK => GracefulFlush
  BY DEF FlushOK
<1> QED
  BY <1>1, <1>2, <1>3, EarlyInvariant, WireInvariant, FlushInductive, PTL DEF Spec

----------------------------------------------------------------------------
(* The write side is a queue of batches.                                     *)

LEMMA AppendPrefix ==
  ASSUME NEW q \in Seq(Nat), NEW n \in Nat
  PROVE  Queue!IsStrictPrefix(q, Append(q, n))
<1>1. /\ Append(q, n) \in Seq(Nat) /\ Len(Append(q, n)) = Len(q) + 1 /\ Len(q) \in Nat
      /\ \A i \in 1..Len(q) : Append(q, n)[i] = q[i]
  BY AppendProperties, LenProperties
<1>2. /\ SubSeq(Append(q, n), 1, Len(q)) \in Seq(Nat)
      /\ Len(SubSeq(Append(q, n), 1, Len(q))) = Len(q)
      /\ \A i \in 1..Len(q) : SubSeq(Append(q, n), 1, Len(q))[i] = q[i]
  BY <1>1, SubSeqProperties
<1>3. SubSeq(Append(q, n), 1, Len(q)) = q
  BY <1>2, SeqEqual
<1>4. SubSeq(q, 1, Len(q)) = q
  BY SubSeqFull
<1>5. q # Append(q, n) /\ Len(q) <= Len(Append(q, n))
  BY <1>1
<1>6. SubSeq(q, 1, Len(q)) = SubSeq(Append(q, n), 1, Len(q))
  BY <1>3, <1>4, Zenon
<1> QED
  BY <1>5, <1>6, Zenon DEF Queue!IsStrictPrefix, Queue!IsPrefix

LEMMA QueueStutter ==
  ASSUME UNCHANGED <<managed, marked, acked, wire>>
  PROVE  UNCHANGED Queue!vars
BY DEF Queue!vars

(* TCP takes k buffers of the batch that has been handed to async_write.     *)
LEMMA QueueSend ==
  ASSUME DataOK, Len(wire) = Len(acked), NEW k \in 1..Len(marked),
         UNCHANGED <<managed, marked, acked>>, wire' = wire \o SubSeq(marked, 1, k)
  PROVE  Queue!Send
<1>1. /\ marked \in Seq(Nat) /\ wire \in Seq(Nat)
      /\ Len(marked) \in Nat /\ Len(acked) \in Nat /\ Len(wire) \in Nat
      /\ k \in 0..Len(marked) /\ 0 < k /\ k <= Len(marked)
  BY DEF DataOK
<1>2. SubSeq(marked, 1, k) \in Seq(Nat) /\ Len(SubSeq(marked, 1, k)) = k
  <2>1. \E q \in Seq(Nat) :
          /\ SubSeq(marked, 1, k) \in Seq(Nat) /\ Len(SubSeq(marked, 1, k)) = k
          /\ SubSeq(marked, 1, k) \o q = marked
    BY <1>1, Taken, Zenon
  <2> QED
    BY <2>1, Zenon
<1>3. Len(wire \o SubSeq(marked, 1, k)) = Len(wire) + Len(SubSeq(marked, 1, k))
  <2>1. \A a, b \in Seq(Nat) : Len(a \o b) = Len(a) + Len(b)
    BY ConcatProperties, Zenon
  <2> QED
    BY <1>1, <1>2, <2>1, Zenon
<1>4. Len(wire') = Len(acked) + k /\ Len(acked') = Len(acked)
  BY <1>2, <1>3
<1>5. /\ Len(wire) - Len(acked) = 0 /\ Len(wire') - Len(acked') = k
      /\ (Len(wire) - Len(acked)) + 1 = 1
  BY <1>1, <1>4
<1>6. /\ Len(wire) - Len(acked) < Len(wire') - Len(acked')
      /\ Len(wire') - Len(acked') <= Len(marked)
  BY <1>1, <1>5
<1>7. wire' = wire \o SubSeq(marked, (Len(wire) - Len(acked)) + 1, Len(wire') - Len(acked'))
  BY <1>5, Zenon
<1> QED
  BY <1>6, <1>7 DEF Queue!Send

LEMMA QueueNetwork ==
  ASSUME TypeOK, PumpOK, WireOK, Network
  PROVE  [Queue!Next]_(Queue!vars)
<1>0. DataOK
  BY DEF TypeOK
<1>1. UNCHANGED <<managed, marked, acked>>
  BY <1>0, NetworkMove
<1>2. CASE ConnectDone \/ ReadData \/ ReadEnd
  <2>1. wire' = wire
    BY <1>2 DEF ConnectDone, ReadData, ReadEnd
  <2> QED
    BY <1>1, <2>1, QueueStutter
<1>3. ASSUME op["write"] = "pending", NEW k \in 0..Len(marked),
             wire' = wire \o SubSeq(marked, 1, k)
      PROVE  [Queue!Next]_(Queue!vars)
  <2>1. Len(wire) = Len(acked) /\ wire \in Seq(Nat) /\ marked \in Seq(Nat) /\ Len(marked) \in Nat
    BY <1>0, <1>3 DEF WireOK, DataOK
  <2>2. CASE k = 0
    <3>1. SubSeq(marked, 1, 0) = <<>> /\ wire \o <<>> = wire
      BY <2>1, SubSeqEmpty, ConcatEmptySeq
    <3> QED
      BY <1>1, <1>3, <2>2, <3>1, QueueStutter
  <2>3. CASE k \in 1..Len(marked)
    BY <1>0, <1>1, <1>3, <2>1, <2>3, QueueSend DEF Queue!Next
  <2> QED
    BY <2>1, <2>2, <2>3
<1>4. CASE WriteOk
  <2>1. marked \in Seq(Nat) /\ Len(marked) \in 0..Len(marked)
    BY <1>0 DEF DataOK
  <2>2. wire' = wire \o SubSeq(marked, 1, Len(marked)) /\ op["write"] = "pending"
    BY <1>4, <2>1, SubSeqFull DEF WriteOk, Finish
  <2> QED
    BY <1>3, <2>1, <2>2
<1>5. CASE WriteErr
  <2>1. Len(marked) \in Nat
    BY <1>0 DEF DataOK
  <2>2. PICK k \in 0..(Len(marked) - 1) : wire' = wire \o SubSeq(marked, 1, k)
    BY <1>5 DEF WriteErr
  <2>3. k \in 0..Len(marked) /\ op["write"] = "pending"
    BY <1>5, <2>1 DEF WriteErr, Finish
  <2> QED
    BY <1>3, <2>2, <2>3
<1> QED
  BY <1>2, <1>4, <1>5 DEF Network

(* Manage accepts, Mark takes, ClearMarked is done with the batch, and no    *)
(* other statement changes the lists.                                        *)
LEMMA QueueCode ==
  ASSUME TypeOK, ControlOK, PumpOK, WireOK, NEW t \in Threads, Code(t)
  PROVE  [Queue!Next]_(Queue!vars)
<1>0. DataOK
  BY DEF TypeOK
<1>1. CASE Manage(t)
  <2>1. /\ managed' = Append(managed, accepted + 1) /\ UNCHANGED <<marked, acked, wire>>
        /\ managed \in Seq(Nat) /\ accepted + 1 \in Nat
    BY <1>0, <1>1 DEF Manage, DataOK
  <2>2. Queue!IsStrictPrefix(managed, managed')
    BY <2>1, AppendPrefix
  <2>3. Queue!Accept
    BY <2>1, <2>2 DEF Queue!Accept
  <2> QED
    BY <2>3 DEF Queue!Next
<1>2. CASE Mark(t)
  <2>1. CASE UNCHANGED <<managed, marked>>
    BY <1>2, <2>1, QueueStutter DEF Mark
  <2>2. CASE marked = <<>> /\ managed # <<>> /\ marked' = managed /\ managed' = <<>>
    <3>1. UNCHANGED <<acked, wire>>
      BY <1>2 DEF Mark
    <3>2. Queue!Take
      BY <2>2, <3>1 DEF Queue!Take
    <3> QED
      BY <3>2 DEF Queue!Next
  <2> QED
    BY <1>2, <2>1, <2>2 DEF Mark
<1>3. CASE ClearMarked(t)
  <2>1. /\ pc[t] = "clear" /\ acked' = acked \o marked /\ marked' = <<>>
        /\ UNCHANGED <<managed, wire>>
    BY <1>3 DEF ClearMarked, At
  <2>2. /\ wire \in Seq(Nat) /\ acked \in Seq(Nat) /\ marked \in Seq(Nat)
        /\ Len(wire) \in Nat /\ Len(acked) \in Nat /\ Len(marked) \in Nat
    BY <1>0 DEF DataOK
  <2>3. marked # <<>>
    BY <2>1 DEF PumpOK, SinglePump, Pumping, InWriteHandler, ControlOK, Control
  <2>4. Len(wire) = Len(acked) + Len(marked) /\ Len(acked') = Len(acked) + Len(marked)
    BY <2>1, <2>2, ConcatProperties DEF WireOK, Clearing
  <2>5. Len(wire) - Len(acked) = Len(marked) /\ Len(wire') - Len(acked') = 0
    BY <2>1, <2>2, <2>4
  <2>6. Queue!Done
    BY <2>1, <2>3, <2>5 DEF Queue!Done
  <2> QED
    BY <2>6 DEF Queue!Next
<1>4. CASE ~Manage(t) /\ ~Mark(t) /\ ~ClearMarked(t)
  <2>1. UNCHANGED <<managed, marked, acked, wire>>
    BY <1>4 DEF Code, SetConnected, EnterConnected, Settle, Read, Arm, WriteList, Write, Drained,
                StartWrite, CloseNow, ShutdownBoth, OnClose, CloseGracefully, ShutdownReceive,
                queue
  <2> QED
    BY <2>1, QueueStutter
<1> QED
  BY <1>1, <1>2, <1>3, <1>4

(* Whatever threads write, complete and close, the session's write side is   *)
(* the queue of OutQueue: the next batch is taken when the last one has been *)
(* acknowledged, it is sent once and front to back, and acknowledged whole.  *)
(* NodesAreOutQueue of WriteQueueProofs has the same of write_queue_ itself. *)
THEOREM SessionIsOutQueue == Spec => ImplementsOutQueue
<1>1. Init => Queue!Init
  <2> SUFFICES ASSUME Init PROVE Queue!Init
    OBVIOUS
  <2>1. managed = <<>> /\ marked = <<>> /\ wire = <<>> /\ Len(wire) - Len(acked) = 0
    BY DEF Init
  <2> QED
    BY <2>1 DEF Queue!Init
<1>2. TypeOK /\ ControlOK /\ PumpOK /\ WireOK /\ [Next]_vars => [Queue!Next]_(Queue!vars)
  <2> SUFFICES ASSUME TypeOK, ControlOK, PumpOK, WireOK, [Next]_vars
               PROVE  [Queue!Next]_(Queue!vars)
    OBVIOUS
  <2>1. ASSUME NEW t \in Threads,
               \/ ConnectCompletion(t) \/ ReadCompletion(t) \/ PrefixCompletion(t)
               \/ WriteCompletion(t) \/ UserCall(t) \/ HandlerReturn(t) \/ Destroy(t)
        PROVE  UNCHANGED <<managed, marked, acked, wire>>
    BY <2>1 DEF ConnectCompletion, ReadCompletion, PrefixCompletion, WriteCompletion, UserCall,
                HandlerReturn, Destroy, queue
  <2>2. CASE Drop \/ Finished \/ UNCHANGED vars
    BY <2>2, QueueStutter DEF Drop, Finished, vars, queue
  <2> QED
    BY <2>1, <2>2, QueueStutter, QueueNetwork, QueueCode DEF Next
<1> QED
  BY <1>1, <1>2, WireInvariant, PTL DEF Spec, ImplementsOutQueue, Queue!Spec
=============================================================================
