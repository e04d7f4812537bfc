-------------------------- MODULE ServiceCallProofs --------------------------
(***************************************************************************)
(* Theorems about what the service does with its sessions, on top of       *)
(* ServiceProofs: a session has a handler when one is called, the function *)
(* given to connect() is called once, and foreach() misses no session.     *)
(***************************************************************************)
EXTENDS ServiceProofs

(* A session has a handler, or the thread that gives it one is at work.      *)
Building(t) == step[t] \in {"fill", "assign"}
HandlerOK ==
  /\ \A i \in sessions \cap weak : handler[i] = "none" =>
       \E t \in Threads : Building(t) /\ pc[t] = "idle" /\ self[t] = i
  /\ \A i \in Ids : op[i] # "none" => i \in sessions /\ handler[i] # "none"
  /\ \A t \in Threads : Uses(t) /\ ~Building(t) =>
       handler[self[t]] # "none" /\ (step[t] # "start" => who[t] # "none")

(* The function given to connect() is there until it is called, and its      *)
(* handler with it; when the operation is over somebody is about to call it. *)
MembersOK(i) ==
  /\ i > lastId => origin[i] = "none" /\ handler[i] = "none"
  /\ called[i] = IF origin[i] = "callback" /\ ~conn[i] THEN 1 ELSE 0
  /\ conn[i] => origin[i] = "callback" /\ handler[i] \in {"none", "callback"}
Waiting(i)   == conn[i] /\ op[i] \in {"done", "failing"}
Calling(t, i) ==
  self[t] = i /\ who[t] = "callback" /\ step[t] = IF op[i] = "done" THEN "connect" ELSE "error"
CallOK ==
  \A i \in Ids : MembersOK(i) /\ (Waiting(i) => \E t \in Threads : Calling(t, i))

(* Every session of the foreach() of a thread is behind it or ahead of it.   *)
Here(t) == pc[t] \in {"scan", "visit"}
Seen(t) == {visited[t][j] : j \in DOMAIN visited[t]}
AscendingOK(t) ==
  \A j \in DOMAIN visited[t] :
    /\ \A k \in DOMAIN visited[t] : k < j => visited[t][k] < visited[t][j]
    /\ visited[t][j] <= iter[t]
    /\ Here(t) => visited[t][j] < iter[t]
AheadOK(t) ==
  \A i \in from[t] : i \in Seen(t) \/ i > iter[t] \/ (Here(t) /\ i = iter[t])
FromOK == \A t \in Threads : \A i \in from[t] : refs[i] # {}
ScanOK == FromOK /\ \A t \in Threads : AscendingOK(t) /\ AheadOK(t)

----------------------------------------------------------------------------
(* Handlers.                                                                 *)

LEMMA HandlerInductive ==
  Shape /\ RegistryOK /\ HandlerOK /\ [ServiceNext]_svars => HandlerOK'
<1> SUFFICES ASSUME Shape, RegistryOK, HandlerOK, [ServiceNext]_svars PROVE HandlerOK'
  OBVIOUS
<1>pc. pc \in [Threads -> Labels] /\ step \in [Threads -> Steps] /\ who \in [Threads -> Handlers]
  BY DEF Shape, TypeOK, Members
<1>self. self \in [Threads -> 0..MaxId]
  BY DEF Shape, TypeOK
<1>ids. sessions \subseteq Ids /\ weak \subseteq Ids
  BY DEF Shape, TypeOK
<1>handler. handler \in [Ids -> Handlers]
  BY DEF Shape, Members
<1>op. op \in [Ids -> {"none", "pending", "ok", "err", "failing", "thrown", "done"}]
  BY DEF Shape, Members
<1>max. MaxId \in Nat /\ lastId \in Nat /\ lastId <= MaxId
  BY ManagerAssumption DEF Shape, TypeOK
<1>t. \A t \in Threads : ThreadOK(t)
  BY DEF RegistryOK
<1>s. \A i \in Ids : SessionOK(i)
  BY DEF RegistryOK
<1> USE DEF acceptor, thread, session, set, vars, Go, At, Then, On, Unlocked
(* Steps that change neither handlers nor operations.                        *)
<1>a. ASSUME UNCHANGED <<handler, op, who, step>>, sessions \subseteq sessions',
             \A u \in Threads : Uses(u) =>
               self'[u] = self[u] /\ (pc[u] = "idle" => pc'[u] = "idle"),
             \A i \in (sessions \cap weak)' :
               \/ i \in sessions \cap weak
               \/ \E u \in Threads : step[u] = "fill" /\ pc'[u] = "idle" /\ self'[u] = i
      PROVE  HandlerOK'
  <2>1. \A u \in Threads : (Uses(u)' <=> Uses(u)) /\ (Building(u)' <=> Building(u))
    BY <1>a DEF Uses, Building
  <2>2. \A u \in Threads : Building(u) => Uses(u)
    BY DEF Uses, Building
  <2>3. \A i \in (sessions \cap weak)' : handler'[i] = "none" =>
          \E u \in Threads : Building(u)' /\ pc'[u] = "idle" /\ self'[u] = i
    BY <1>a, <2>1, <2>2 DEF HandlerOK, Building
  <2>4. \A i \in Ids : op'[i] # "none" => i \in sessions' /\ handler'[i] # "none"
    BY <1>a DEF HandlerOK
  <2>5. \A u \in Threads : Uses(u)' /\ ~Building(u)' =>
          handler'[self'[u]] # "none" /\ (step'[u] # "start" => who'[u] # "none")
    BY <1>a, <2>1 DEF HandlerOK
  <2> QED
    BY <2>3, <2>4, <2>5 DEF HandlerOK
<1>1. CASE UNCHANGED svars \/ Incoming
  BY <1>1 DEF svars, Incoming, HandlerOK, Uses, Building
<1>2. CASE Answer
  BY <1>2, <1>op DEF Answer, HandlerOK, Uses, Building
<1>3. ASSUME NEW t \in Threads, NEW r \in {"idle", "rearm", "create"}, ~Uses(t),
             UNCHANGED <<vars, handler, op, who>>, step' = [step EXCEPT ![t] = r]
      PROVE  HandlerOK'
  <2>1. \A u \in Threads : (Uses(u)' <=> Uses(u)) /\ (Building(u)' <=> Building(u))
    BY <1>3, <1>pc DEF Uses, Building
  <2>2. \A u \in Threads : Uses(u) => step'[u] = step[u]
    BY <1>3, <1>pc
  <2> QED
    BY <1>3, <2>1, <2>2 DEF HandlerOK
<1>4. ASSUME NEW t \in Threads, Bind(t) \/ Unbind(t) \/ AcceptCompletion(t) \/ Rearm(t)
      PROVE  HandlerOK'
  <2>1. /\ UNCHANGED <<vars, handler, op, who>> /\ ~Uses(t)
        /\ step' = step \/ \E r \in {"rearm", "create"} : step' = [step EXCEPT ![t] = r]
    BY <1>4 DEF Bind, Unbind, AcceptCompletion, Rearm, Uses
  <2> QED
    BY <1>a, <1>3, <2>1
<1>5. ASSUME NEW t \in Threads, NEW o \in {"service", "callback", "accept"}, CreateFor(t, o),
             ~Uses(t)
      PROVE  HandlerOK'
  <2>1. /\ pc' = [pc EXCEPT ![t] = "insert"] /\ step' = [step EXCEPT ![t] = "fill"]
        /\ self' = [self EXCEPT ![t] = lastId + 1]
        /\ UNCHANGED <<sessions, weak, op, handler, who>>
    BY <1>5 DEF CreateFor, Create
  <2>2. \A u \in Threads : u # t =>
          pc'[u] = pc[u] /\ self'[u] = self[u] /\ (Uses(u)' <=> Uses(u)) /\ (Building(u)' <=> Building(u))
    BY <1>pc, <1>self, <2>1 DEF Uses, Building
  <2>3. Building(t)' /\ ~Building(t)
    BY <1>pc, <1>5, <2>1 DEF Uses, Building
  <2>4. \A u \in Threads : u # t => step'[u] = step[u]
    BY <1>pc, <2>1
  <2>5. \A i \in (sessions \cap weak)' : handler'[i] = "none" =>
          \E u \in Threads : Building(u)' /\ pc'[u] = "idle" /\ self'[u] = i
    BY <2>1, <2>2, <2>3 DEF HandlerOK
  <2> QED
    BY <2>1, <2>2, <2>3, <2>4, <2>5 DEF HandlerOK
<1>6. ASSUME NEW t \in Threads, Fill(t) PROVE HandlerOK'
  <2>1. step' = [step EXCEPT ![t] = "assign"] /\ step[t] = "fill" /\ UNCHANGED <<vars, handler, op, who>>
    BY <1>6 DEF Fill
  <2>2. \A u \in Threads : (Uses(u)' <=> Uses(u)) /\ (Building(u)' <=> Building(u))
    BY <1>pc, <2>1 DEF Uses, Building
  <2>3. \A u \in Threads : Uses(u) /\ ~Building(u) => step'[u] = step[u]
    BY <1>pc, <2>1 DEF Building
  <2> QED
    BY <2>1, <2>2, <2>3 DEF HandlerOK
<1>7. ASSUME NEW t \in Threads, AssignHandler(t) PROVE HandlerOK'
  <2>1. /\ step' = [step EXCEPT ![t] = "start"] /\ step[t] = "assign" /\ pc[t] = "idle"
        /\ UNCHANGED <<vars, op, who>>
        /\ \E h \in {"callback", "user"} : handler' = [handler EXCEPT ![self[t]] = h]
    BY <1>7 DEF AssignHandler, Wrap
  <2>2. self[t] \in Ids
    BY <1>t, <2>1 DEF ThreadOK, Holds, Uses
  <2>3. \A i \in Ids : handler'[i] # handler[i] => i = self[t]
    BY <1>handler, <2>1, <2>2
  <2>4. handler'[self[t]] # "none"
    BY <1>handler, <2>1, <2>2
  <2>5. \A u \in Threads : u # t =>
          (Uses(u)' <=> Uses(u)) /\ (Building(u)' <=> Building(u)) /\ step'[u] = step[u]
    BY <1>pc, <2>1 DEF Uses, Building
  <2>6. \A i \in (sessions \cap weak)' : handler'[i] = "none" =>
          \E u \in Threads : Building(u)' /\ pc'[u] = "idle" /\ self'[u] = i
    BY <1>ids, <2>1, <2>3, <2>4, <2>5 DEF HandlerOK
  <2>7. \A i \in Ids : op'[i] # "none" => i \in sessions' /\ handler'[i] # "none"
    BY <2>1, <2>3, <2>4 DEF HandlerOK
  <2>8. \A u \in Threads : Uses(u) => self[u] \in Ids
    BY <1>t, <1>max DEF ThreadOK, Ids
  <2>9. step'[t] = "start"
    BY <1>pc, <2>1
  <2>10. ASSUME NEW u \in Threads, Uses(u)', ~Building(u)'
         PROVE  handler'[self'[u]] # "none" /\ (step'[u] # "start" => who'[u] # "none")
    BY <2>1, <2>3, <2>4, <2>5, <2>8, <2>9, <2>10 DEF HandlerOK
  <2> QED
    BY <2>6, <2>7, <2>10 DEF HandlerOK
<1>8. ASSUME NEW t \in Threads, StartConnect(t) PROVE HandlerOK'
  <2>1. /\ step' = [step EXCEPT ![t] = "idle"] /\ step[t] = "start" /\ pc[t] = "idle"
        /\ pc' = [pc EXCEPT ![t] = "release"] /\ op' = [op EXCEPT ![self[t]] = "pending"]
        /\ UNCHANGED <<sessions, weak, self, handler, who>>
    BY <1>8 DEF StartConnect
  <2>2. self[t] \in Ids /\ self[t] \in sessions
    BY <1>t, <1>s, <2>1 DEF ThreadOK, SessionOK, Holds, Uses
  <2>3. handler[self[t]] # "none"
    BY <2>1 DEF HandlerOK, Uses, Building
  <2>4. \A u \in Threads : u # t =>
          (Uses(u)' <=> Uses(u)) /\ (Building(u)' <=> Building(u)) /\ step'[u] = step[u] /\ pc'[u] = pc[u]
    BY <1>pc, <2>1 DEF Uses, Building
  <2>5. ~Building(t) /\ ~Uses(t)'
    BY <1>pc, <2>1 DEF Uses, Building
  <2>6. \A i \in Ids : op'[i] # "none" => i \in sessions' /\ handler'[i] # "none"
    BY <1>op, <2>1, <2>2, <2>3 DEF HandlerOK
  <2> QED
    BY <2>1, <2>4, <2>5, <2>6 DEF HandlerOK
<1>9. ASSUME NEW t \in Threads, StartAccepted(t) PROVE HandlerOK'
  <2>1. /\ step[t] = "start" /\ UNCHANGED <<sessions, weak, self, handler, op>>
        /\ \/ /\ step' = [step EXCEPT ![t] = "connect"] /\ UNCHANGED pc
              /\ who' = [who EXCEPT ![t] = handler[self[t]]]
           \/ /\ step' = [step EXCEPT ![t] = "idle"] /\ pc' = [pc EXCEPT ![t] = "release"]
              /\ UNCHANGED who
    BY <1>9 DEF StartAccepted, Enter
  <2>2. handler[self[t]] # "none"
    BY <2>1 DEF HandlerOK, Uses, Building
  <2>3. \A u \in Threads : u # t =>
          /\ (Uses(u)' <=> Uses(u)) /\ (Building(u)' <=> Building(u))
          /\ step'[u] = step[u] /\ pc'[u] = pc[u] /\ who'[u] = who[u]
    BY <1>pc, <2>1 DEF Uses, Building
  <2>4. ~Building(t) /\ ~Building(t)' /\ (Uses(t)' => who'[t] # "none")
    BY <1>pc, <2>1, <2>2 DEF Uses, Building
  <2> QED
    BY <2>1, <2>2, <2>3, <2>4 DEF HandlerOK
<1>10. ASSUME NEW t \in Threads, ConnectCompletion(t) PROVE HandlerOK'
  <2>1. PICK i \in Ids :
          /\ op[i] \in {"ok", "err"} /\ step[t] = "idle"
          /\ UNCHANGED <<sessions, weak, handler>> /\ self' = [self EXCEPT ![t] = i]
          /\ \E r \in {"done", "failing", "thrown"} : op' = [op EXCEPT ![i] = r]
          /\ \/ /\ pc' = pc /\ who' = [who EXCEPT ![t] = handler[i]]
                /\ \E r \in {"connect", "error"} : step' = [step EXCEPT ![t] = r]
             \/ pc' = [pc EXCEPT ![t] = "release"] /\ UNCHANGED <<step, who>>
    BY <1>10 DEF ConnectCompletion, Enter
  <2>2. i \in sessions /\ handler[i] # "none"
    BY <2>1 DEF HandlerOK
  <2>3. \A u \in Threads : u # t =>
          /\ (Uses(u)' <=> Uses(u)) /\ (Building(u)' <=> Building(u))
          /\ step'[u] = step[u] /\ pc'[u] = pc[u] /\ who'[u] = who[u] /\ self'[u] = self[u]
    BY <1>pc, <1>self, <2>1 DEF Uses, Building
  <2>4. ~Building(t) /\ ~Building(t)' /\ self'[t] = i /\ (Uses(t)' => who'[t] # "none")
    BY <1>pc, <1>self, <2>1, <2>2 DEF Uses, Building
  <2>5. \A j \in Ids : op'[j] # "none" => j \in sessions' /\ handler'[j] # "none"
    BY <1>op, <2>1, <2>2 DEF HandlerOK
  <2> QED
    BY <2>1, <2>2, <2>3, <2>4, <2>5 DEF HandlerOK
<1>11. ASSUME NEW t \in Threads, Handling(t) PROVE HandlerOK'
  <2>1. Handled(t) /\ Called(t)
    BY <1>11, HandlingDoes
  <2>2. /\ Uses(t) /\ ~Building(t) /\ step[t] # "start" /\ pc[t] = "idle"
        /\ UNCHANGED <<sessions, weak, self>>
    BY <2>1 DEF Handled, Uses, Building
  <2>3. self[t] \in Ids /\ handler[self[t]] # "none" /\ who[t] # "none"
    BY <1>t, <2>2 DEF HandlerOK, ThreadOK, Holds
  <2>4. \A i \in Ids : handler'[i] # handler[i] => i = self[t]
    BY <1>handler, <2>1, <2>3 DEF Called
  <2>5. handler'[self[t]] # "none"
    BY <1>handler, <2>1, <2>3 DEF Called
  <2>6. \A u \in Threads : u # t =>
          /\ (Uses(u)' <=> Uses(u)) /\ (Building(u)' <=> Building(u))
          /\ step'[u] = step[u] /\ pc'[u] = pc[u] /\ who'[u] = who[u]
    BY <1>pc, <2>1 DEF Handled, Uses, Building
  <2>7. ~Building(t)' /\ (Uses(t)' => who'[t] # "none")
    BY <1>pc, <2>1, <2>3, <2>5 DEF Handled, Uses, Building
  <2>8. \A i \in Ids : op'[i] # "none" => op[i] # "none"
    BY <1>op, <2>1, <2>3 DEF Handled
  <2>9. \A u \in Threads : Uses(u) => self[u] \in Ids
    BY <1>t, <1>max DEF ThreadOK, Ids
  <2>10. \A i \in (sessions \cap weak)' : handler'[i] = "none" =>
           \E u \in Threads : Building(u)' /\ pc'[u] = "idle" /\ self'[u] = i
    BY <1>ids, <2>2, <2>4, <2>5, <2>6 DEF HandlerOK
  <2>11. \A i \in Ids : op'[i] # "none" => i \in sessions' /\ handler'[i] # "none"
    BY <2>2, <2>4, <2>5, <2>8 DEF HandlerOK
  <2>12. ASSUME NEW u \in Threads, Uses(u)', ~Building(u)'
         PROVE  handler'[self'[u]] # "none" /\ (step'[u] # "start" => who'[u] # "none")
    BY <2>2, <2>4, <2>5, <2>6, <2>7, <2>9, <2>12 DEF HandlerOK
  <2> QED
    BY <2>10, <2>11, <2>12 DEF HandlerOK
<1>12. ASSUME NEW t \in Threads, Registry(t) PROVE HandlerOK'
  <2>0. UNCHANGED <<handler, op, who, step>>
    BY <1>12 DEF Registry
  <2>1. CASE Insert(t)
    <3>1. pc[t] = "insert" /\ sessions' = sessions \cup {self[t]} /\ UNCHANGED <<weak, self>>
          /\ pc' = [pc EXCEPT ![t] = "publish"]
      BY <2>1 DEF Insert
    <3>2. self[t] \notin weak
      BY <1>t, <3>1 DEF ThreadOK, Makes
    <3> QED
      BY <1>a, <1>pc, <2>0, <3>1, <3>2
  <2>2. CASE Publish(t, t)
    <3>1. pc[t] = "publish" /\ weak' = weak \cup {self[t]} /\ UNCHANGED <<sessions, self>>
          /\ pc' = [pc EXCEPT ![t] = "idle"]
      BY <2>2 DEF Publish
    <3>2. step[t] = "fill"
      BY <1>t, <3>1 DEF ThreadOK, Makes
    <3>3. \A i \in (sessions \cap weak)' :
            \/ i \in sessions \cap weak
            \/ \E u \in Threads : step[u] = "fill" /\ pc'[u] = "idle" /\ self'[u] = i
      BY <1>pc, <3>1, <3>2
    <3> QED
      BY <1>a, <1>pc, <2>0, <3>1, <3>3
  <2>3. ASSUME step[t] = "idle", UNCHANGED <<sessions, weak>>,
               \E l : pc' = [pc EXCEPT ![t] = l],
               self' = self \/ \E i : self' = [self EXCEPT ![t] = i]
        PROVE  HandlerOK'
    <3>1. \A u \in Threads : Uses(u) => pc'[u] = pc[u] /\ self'[u] = self[u]
      BY <1>pc, <1>self, <2>3 DEF Uses
    <3> QED
      BY <1>a, <2>0, <2>3, <3>1
  <2>4. CASE Release(t) \/ ReleaseScan(t) \/ ScanLock(t) \/ Scan(t) \/ Visit(t)
    <3>1. step[t] = "idle"
      BY <1>t, <2>4 DEF Release, ReleaseScan, ScanLock, Scan, Visit, ThreadOK, Makes
    <3>2. /\ UNCHANGED <<sessions, weak>> /\ \E l : pc' = [pc EXCEPT ![t] = l]
          /\ self' = self \/ \E i : self' = [self EXCEPT ![t] = i]
      BY <2>4 DEF Release, ReleaseScan, ScanLock, Scan, Visit, Unref
    <3> QED
      BY <2>3, <3>1, <3>2
  <2>5. CASE step[t] = "idle" /\ (Get(t) \/ ScanStart(t) \/ Drop(t))
    <3>1. CASE UNCHANGED <<refs, self, pc, sessions, weak>>
      BY <1>a, <2>0, <3>1
    <3>2. CASE ~UNCHANGED <<refs, self, pc, sessions, weak>>
      <4>1. /\ UNCHANGED <<sessions, weak>> /\ \E l : pc' = [pc EXCEPT ![t] = l]
            /\ self' = self \/ \E i : self' = [self EXCEPT ![t] = i]
        BY <2>5, <3>2 DEF Get, ScanStart, Drop, Unref
      <4> QED
        BY <2>3, <2>5, <4>1
    <3> QED
      BY <3>1, <3>2
  <2> QED
    BY <1>12, <2>1, <2>2, <2>4, <2>5 DEF Registry
<1>13. ASSUME NEW t \in Threads, Destroyed(t) PROVE HandlerOK'
  <2>1. /\ Erasing(t) /\ sessions' = sessions \ {self[t]} /\ self' = [self EXCEPT ![t] = 0]
        /\ \E l : pc' = [pc EXCEPT ![t] = l]
        /\ handler' = [handler EXCEPT ![self[t]] = "none"]
        /\ op' = [op EXCEPT ![self[t]] = "none"]
        /\ UNCHANGED <<weak, step, who>>
    BY <1>13 DEF Destroyed, Erase, Erasing
  <2>2. /\ step[t] = "idle" /\ self[t] \in Ids /\ self[t] \in sessions \cap weak
        /\ refs[self[t]] = {}
    BY <1>ids, <1>t, <2>1 DEF ThreadOK, Erasing, Makes
  <2>3. \A u \in Threads : u # t => pc'[u] = pc[u] /\ self'[u] = self[u]
    BY <1>pc, <1>self, <2>1
  <2>4. \A u \in Threads : (Uses(u)' <=> Uses(u)) /\ (Building(u)' <=> Building(u))
    BY <2>1 DEF Uses, Building
  <2>5. ~Uses(t) /\ ~Building(t)
    BY <2>2 DEF Uses, Building
  <2>6. \A i \in Ids : i # self[t] => handler'[i] = handler[i] /\ op'[i] = op[i]
    BY <1>handler, <1>op, <2>1
  <2>7. op'[self[t]] = "none"
    BY <1>op, <2>1, <2>2
  <2>8. \A u \in Threads : Uses(u) => self[u] \in Ids /\ self[u] # self[t]
    <3> SUFFICES ASSUME NEW u \in Threads, Uses(u) PROVE self[u] \in Ids /\ self[u] # self[t]
      OBVIOUS
    <3>1. self[u] \in Ids
      BY <1>t, <1>max DEF ThreadOK, Ids
    <3>2. CASE pc[u] = "idle"
      BY <1>t, <2>2, <3>1, <3>2 DEF ThreadOK, Holds
    <3>3. CASE pc[u] # "idle"
      BY <1>t, <2>2, <3>1, <3>3 DEF ThreadOK, Uses, Makes
    <3> QED
      BY <3>2, <3>3
  <2>9. \A i \in (sessions \cap weak)' : handler'[i] = "none" =>
          \E u \in Threads : Building(u)' /\ pc'[u] = "idle" /\ self'[u] = i
    BY <1>ids, <2>1, <2>3, <2>4, <2>5, <2>6 DEF HandlerOK
  <2>10. \A i \in Ids : op'[i] # "none" => i \in sessions' /\ handler'[i] # "none"
    BY <2>1, <2>6, <2>7 DEF HandlerOK
  <2>11. \A u \in Threads : Uses(u)' /\ ~Building(u)' =>
           handler'[self'[u]] # "none" /\ (step'[u] # "start" => who'[u] # "none")
    BY <2>1, <2>3, <2>4, <2>5, <2>6, <2>8 DEF HandlerOK
  <2> QED
    BY <2>9, <2>10, <2>11 DEF HandlerOK
<1> QED
  <2>1. ASSUME NEW t \in Threads, Connect(t) \/ Accepted(t) PROVE HandlerOK'
    BY <1>5, <2>1 DEF Connect, Accepted, Uses
  <2> QED
    BY <1>1, <1>2, <1>4, <1>6, <1>7, <1>8, <1>9, <1>10, <1>11, <1>12, <1>13, <2>1
       DEF ServiceNext, Handling

LEMMA HandlerInvariant == ServiceSpec => [](Shape /\ RegistryOK /\ HandlerOK)
<1>1. ServiceInit => HandlerOK
  BY DEF ServiceInit, Init, HandlerOK, Uses
<1> QED
  BY <1>1, HandlerInductive, RegistryInvariant, PTL DEF ServiceSpec

(* Types, and that a thread in the code of a handler has one, and holds the  *)
(* session (session::connect, noexcept_handler_impl).                        *)
THEOREM ServiceTypes == ServiceSpec => []ServiceTypeOK
<1>1. Shape /\ RegistryOK /\ HandlerOK => ServiceTypeOK
  <2> SUFFICES ASSUME Shape, RegistryOK, HandlerOK PROVE ServiceTypeOK
    OBVIOUS
  <2>1. ASSUME NEW t \in Threads, step[t] \in {"connect", "except", "error", "again", "close"}
        PROVE  who[t] # "none" /\ pc[t] = "idle" /\ refs[self[t]] # {}
    <3>1. Uses(t) /\ ~Building(t) /\ step[t] # "start"
      BY <2>1 DEF Uses, Building
    <3>2. pc[t] = "idle"
      BY <2>1 DEF RegistryOK, ThreadOK
    <3> QED
      BY <3>1, <3>2 DEF HandlerOK, RegistryOK, ThreadOK, Holds
  <2> QED
    BY <2>1 DEF Shape, Members, ServiceTypeOK
<1> QED
  BY <1>1, HandlerInvariant, PTL

(* A session being destroyed, or closed after an error, has a handler whose  *)
(* close() can be called (~session, session::connect).                       *)
THEOREM CloseIsCallable == ServiceSpec => []ClosesWithHandler
<1>1. Shape /\ RegistryOK /\ HandlerOK => ClosesWithHandler
  <2> SUFFICES ASSUME Shape, RegistryOK, HandlerOK, NEW t \in Threads,
                      Erasing(t) \/ step[t] = "close"
               PROVE  handler[self[t]] # "none"
    BY DEF ClosesWithHandler
  <2>1. CASE step[t] = "close"
    BY <2>1 DEF HandlerOK, Uses, Building
  <2>2. CASE Erasing(t)
    <3>1. self[t] \in sessions \cap weak /\ refs[self[t]] = {}
      BY <2>2 DEF RegistryOK, ThreadOK
    <3>2. ASSUME NEW u \in Threads, Building(u), pc[u] = "idle" PROVE self[u] # self[t]
      <4>1. Holds(u)
        BY <3>2 DEF Building, Holds, Uses
      <4> QED
        BY <3>1, <4>1 DEF RegistryOK, ThreadOK
    <3> QED
      BY <3>1, <3>2 DEF HandlerOK
  <2> QED
    BY <2>1, <2>2
<1> QED
  BY <1>1, HandlerInvariant, PTL

----------------------------------------------------------------------------
(* The function given to connect().                                          *)

LEMMA CallInductive ==
  Shape /\ RegistryOK /\ HandlerOK /\ CallOK /\ [ServiceNext]_svars => CallOK'
<1> SUFFICES ASSUME Shape, RegistryOK, HandlerOK, CallOK, [ServiceNext]_svars PROVE CallOK'
  OBVIOUS
<1>pc. pc \in [Threads -> Labels] /\ step \in [Threads -> Steps] /\ who \in [Threads -> Handlers]
  BY DEF Shape, TypeOK, Members
<1>self. self \in [Threads -> 0..MaxId]
  BY DEF Shape, TypeOK
<1>ids. sessions \subseteq Ids /\ weak \subseteq Ids /\ \A i \in Ids : i \in Nat
  BY DEF Shape, TypeOK, Ids
<1>handler. /\ handler \in [Ids -> Handlers] /\ conn \in [Ids -> BOOLEAN]
            /\ origin \in [Ids -> {"none", "service", "callback", "accept"}]
            /\ called \in [Ids -> Nat]
  BY DEF Shape, Members
<1>op. op \in [Ids -> {"none", "pending", "ok", "err", "failing", "thrown", "done"}]
  BY DEF Shape, Members
<1>max. MaxId \in Nat /\ lastId \in Nat /\ lastId <= MaxId
  BY ManagerAssumption DEF Shape, TypeOK
<1>t. \A t \in Threads : ThreadOK(t)
  BY DEF RegistryOK
<1>p. \A t, u \in Threads : t # u => PairOK(t, u)
  BY DEF RegistryOK
<1>s. \A i \in Ids : SessionOK(i)
  BY DEF RegistryOK
<1> USE DEF acceptor, thread, session, set, vars, Go, At, Then, On, Unlocked
(* Steps that change nothing of the sessions, nor a thread that calls.       *)
<1>a. ASSUME UNCHANGED <<session, lastId>>,
             \A u \in Threads : step[u] \in {"connect", "error"} =>
               self'[u] = self[u] /\ step'[u] = step[u] /\ who'[u] = who[u]
      PROVE  CallOK'
  <2>1. \A i \in Ids : MembersOK(i)'
    BY <1>a DEF CallOK, MembersOK
  <2>2. \A i \in Ids : Waiting(i)' => \E u \in Threads : Calling(u, i)'
    BY <1>a DEF CallOK, Waiting, Calling
  <2> QED
    BY <2>1, <2>2 DEF CallOK
<1>1. CASE UNCHANGED svars \/ Incoming
  BY <1>a, <1>1 DEF svars, Incoming
<1>2. CASE Answer
  <2>1. PICK i \in Ids : op[i] = "pending" /\ \E r \in {"ok", "err"} : op' = [op EXCEPT ![i] = r]
    BY <1>2 DEF Answer
  <2>2. UNCHANGED <<vars, thread, origin, handler, conn, called>>
    BY <1>2 DEF Answer
  <2>3. \A j \in Ids : Waiting(j)' => Waiting(j) /\ op'[j] = op[j]
    BY <1>op, <2>1, <2>2 DEF Waiting
  <2> QED
    BY <2>2, <2>3 DEF CallOK, MembersOK, Calling
<1>3. ASSUME NEW t \in Threads,
             \/ Bind(t) \/ Unbind(t) \/ AcceptCompletion(t) \/ Rearm(t) \/ Fill(t) \/ StartAccepted(t)
      PROVE  CallOK'
  <2>1. /\ UNCHANGED <<session, lastId, self>> /\ step[t] \notin {"connect", "error"}
        /\ step' = step \/ \E r : step' = [step EXCEPT ![t] = r]
        /\ who' = who \/ \E h : who' = [who EXCEPT ![t] = h]
    BY <1>3 DEF Bind, Unbind, AcceptCompletion, Rearm, Fill, StartAccepted, Enter
  <2>2. \A u \in Threads : u # t => step'[u] = step[u] /\ who'[u] = who[u]
    BY <1>pc, <2>1
  <2> QED
    BY <1>a, <2>1, <2>2
<1>4. ASSUME NEW t \in Threads, NEW o \in {"service", "callback", "accept"}, CreateFor(t, o),
             step[t] \in {"idle", "create"}
      PROVE  CallOK'
  <2>1. /\ lastId' = lastId + 1 /\ lastId < MaxId /\ self' = [self EXCEPT ![t] = lastId + 1]
        /\ step' = [step EXCEPT ![t] = "fill"] /\ origin' = [origin EXCEPT ![lastId + 1] = o]
        /\ conn' = [conn EXCEPT ![lastId + 1] = (o = "callback")]
        /\ UNCHANGED <<who, handler, op, called>>
    BY <1>4, <1>self DEF CreateFor, Create
  <2>2. lastId + 1 \in Ids /\ op[lastId + 1] = "none"
    BY <1>max, <1>s, <2>1 DEF SessionOK, Ids
  <2>3. \A u \in Threads : u # t => step'[u] = step[u] /\ self'[u] = self[u]
    BY <1>pc, <1>self, <2>1
  <2>4. \A i \in Ids : i # lastId + 1 => origin'[i] = origin[i] /\ conn'[i] = conn[i]
    BY <1>handler, <2>1
  <2>5. ASSUME NEW i \in Ids PROVE MembersOK(i)'
    <3>1. CASE i = lastId + 1
      <4>1. origin[i] = "none" /\ handler[i] = "none"
        BY <1>max, <3>1 DEF CallOK, MembersOK
      <4>2. called[i] = 0
        BY <4>1 DEF CallOK, MembersOK
      <4>3. origin'[i] = o /\ conn'[i] = (o = "callback")
        BY <1>handler, <2>1, <3>1
      <4>4. called'[i] = 0 /\ handler'[i] = "none" /\ ~(i > lastId')
        BY <1>max, <2>1, <3>1, <4>1, <4>2
      <4>5. CASE o = "callback"
        BY <4>3, <4>4, <4>5 DEF MembersOK
      <4>6. CASE o # "callback"
        BY <4>3, <4>4, <4>6 DEF MembersOK
      <4> QED
        BY <4>5, <4>6
    <3>2. CASE i # lastId + 1
      <4>1. MembersOK(i) /\ i \in Nat
        BY <1>ids DEF CallOK
      <4> QED
        BY <1>max, <2>1, <2>4, <3>2, <4>1 DEF MembersOK
    <3> QED
      BY <3>1, <3>2
  <2>6. ASSUME NEW i \in Ids, Waiting(i)' PROVE \E u \in Threads : Calling(u, i)'
    <3>1. Waiting(i)
      BY <2>1, <2>2, <2>4, <2>6 DEF Waiting
    <3>2. PICK u \in Threads : Calling(u, i)
      BY <3>1 DEF CallOK
    <3>3. u # t
      BY <1>4, <3>2 DEF Calling
    <3> QED
      BY <2>1, <2>3, <3>2, <3>3 DEF Calling
  <2> QED
    BY <2>5, <2>6 DEF CallOK
<1>5. ASSUME NEW t \in Threads, AssignHandler(t) PROVE CallOK'
  <2>1. /\ step[t] = "assign" /\ pc[t] = "idle" /\ step' = [step EXCEPT ![t] = "start"]
        /\ UNCHANGED <<lastId, self, who, origin, conn, op, called>>
        /\ handler' = [handler EXCEPT ![self[t]] =
                         IF origin[self[t]] = "callback" THEN "callback" ELSE "user"]
    BY <1>5 DEF AssignHandler, Wrap
  <2>2. self[t] \in Ids /\ ~(self[t] > lastId)
    BY <1>t, <1>max, <2>1 DEF ThreadOK, Uses, Ids
  <2>3. \A i \in Ids : i # self[t] => handler'[i] = handler[i]
    BY <1>handler, <2>1
  <2>4. origin[self[t]] = "callback" => handler'[self[t]] = "callback"
    BY <1>handler, <2>1, <2>2
  <2>5. \A i \in Ids : MembersOK(i)'
    BY <2>1, <2>2, <2>3, <2>4 DEF CallOK, MembersOK
  <2>6. \A u \in Threads : u # t => step'[u] = step[u]
    BY <1>pc, <2>1
  <2>7. \A i \in Ids : Waiting(i)' => \E u \in Threads : Calling(u, i)'
    BY <2>1, <2>6 DEF CallOK, Waiting, Calling
  <2> QED
    BY <2>5, <2>7 DEF CallOK
<1>6. ASSUME NEW t \in Threads, StartConnect(t) PROVE CallOK'
  <2>1. /\ step[t] = "start" /\ step' = [step EXCEPT ![t] = "idle"]
        /\ op' = [op EXCEPT ![self[t]] = "pending"]
        /\ UNCHANGED <<lastId, self, who, origin, handler, conn, called>>
    BY <1>6 DEF StartConnect
  <2>2. \A i \in Ids : Waiting(i)' => Waiting(i) /\ op'[i] = op[i]
    BY <1>op, <2>1 DEF Waiting
  <2>3. \A u \in Threads : u # t => step'[u] = step[u]
    BY <1>pc, <2>1
  <2>4. \A i \in Ids : Waiting(i)' => \E u \in Threads : Calling(u, i)'
    BY <2>1, <2>2, <2>3 DEF CallOK, Calling
  <2> QED
    BY <2>1, <2>4 DEF CallOK, MembersOK
<1>7. ASSUME NEW t \in Threads, ConnectCompletion(t) PROVE CallOK'
  <2>1. PICK i \in Ids :
          /\ op[i] \in {"ok", "err"} /\ step[t] = "idle" /\ self' = [self EXCEPT ![t] = i]
          /\ UNCHANGED <<lastId, origin, handler, conn, called>>
          /\ \/ /\ op' = [op EXCEPT ![i] = "done"] /\ step' = [step EXCEPT ![t] = "connect"]
                /\ who' = [who EXCEPT ![t] = handler[i]]
             \/ /\ op' = [op EXCEPT ![i] = "failing"] /\ step' = [step EXCEPT ![t] = "error"]
                /\ who' = [who EXCEPT ![t] = handler[i]]
             \/ op' = [op EXCEPT ![i] = "thrown"] /\ UNCHANGED <<step, who>>
    BY <1>7 DEF ConnectCompletion, Enter
  <2>2. handler[i] # "none"
    BY <2>1 DEF HandlerOK
  <2>3. \A u \in Threads : u # t => step'[u] = step[u] /\ who'[u] = who[u] /\ self'[u] = self[u]
    BY <1>pc, <1>self, <2>1
  <2>4. ASSUME Waiting(i)' PROVE Calling(t, i)'
    <3>1. conn[i] /\ handler[i] = "callback"
      BY <2>1, <2>2, <2>4 DEF Waiting, CallOK, MembersOK
    <3>2. op'[i] # "thrown"
      BY <2>4 DEF Waiting
    <3> QED
      BY <1>pc, <1>self, <1>op, <2>1, <3>1, <3>2 DEF Calling
  <2>5. ASSUME NEW j \in Ids, j # i, Waiting(j)' PROVE \E u \in Threads : Calling(u, j)'
    <3>1. op'[j] = op[j] /\ Waiting(j)
      BY <1>op, <2>1, <2>5 DEF Waiting
    <3>2. PICK u \in Threads : Calling(u, j)
      BY <3>1 DEF CallOK
    <3>3. u # t
      BY <2>1, <3>2 DEF Calling
    <3> QED
      BY <2>3, <3>1, <3>2, <3>3 DEF Calling
  <2> QED
    BY <2>1, <2>4, <2>5 DEF CallOK, MembersOK
<1>8. ASSUME NEW t \in Threads, Handling(t) PROVE CallOK'
  <2>1. Handled(t) /\ Called(t)
    BY <1>8, HandlingDoes
  <2>2. Uses(t) /\ self[t] \in Ids /\ ~(self[t] > lastId) /\ UNCHANGED <<self, lastId, origin>>
    BY <1>t, <1>max, <2>1 DEF Handled, Uses, ThreadOK, Ids
  <2>3. \A u \in Threads : u # t => step'[u] = step[u] /\ who'[u] = who[u]
    BY <1>pc, <2>1 DEF Handled
  <2>4. \A j \in Ids : j # self[t] =>
          /\ handler'[j] = handler[j] /\ conn'[j] = conn[j]
          /\ called'[j] = called[j] /\ op'[j] = op[j]
    BY <1>handler, <1>op, <2>1 DEF Handled, Called
  <2>5. MembersOK(self[t])'
    <3>1. MembersOK(self[t])
      BY <2>2 DEF CallOK
    <3>2. CASE UNCHANGED <<handler, conn, called>>
      BY <2>2, <3>1, <3>2 DEF MembersOK
    <3>3. CASE ~conn[self[t]] /\ UNCHANGED <<conn, called>>
      BY <2>2, <3>1, <3>3 DEF MembersOK
    <3>4. CASE conn[self[t]] /\ conn' = [conn EXCEPT ![self[t]] = FALSE]
               /\ called' = [called EXCEPT ![self[t]] = @ + 1]
      BY <1>handler, <2>2, <3>1, <3>4 DEF MembersOK
    <3> QED
      BY <2>1, <3>2, <3>3, <3>4 DEF Called
  <2>6. \A j \in Ids : MembersOK(j)'
    BY <2>2, <2>4, <2>5 DEF CallOK, MembersOK
  <2>7. ~Waiting(self[t])'
    <3>1. CASE Waiting(self[t])
      <4>1. PICK u \in Threads : Calling(u, self[t])
        BY <2>2, <3>1 DEF CallOK
      <4>2. Uses(u) /\ self[u] = self[t]
        BY <4>1 DEF Calling, Uses
      <4>3. u = t
        BY <1>p, <2>2, <4>2 DEF PairOK
      <4>4. who[t] = "callback" /\ step[t] \in {"connect", "error"} /\ conn[self[t]]
        BY <3>1, <4>1, <4>3 DEF Calling, Waiting
      <4>5. conn' = [conn EXCEPT ![self[t]] = FALSE]
        BY <2>1, <4>4 DEF Called
      <4> QED
        BY <1>handler, <2>2, <4>5 DEF Waiting
    <3>2. CASE ~Waiting(self[t])
      <4>1. conn'[self[t]] => conn[self[t]]
        BY <1>handler, <2>1, <2>2 DEF Called
      <4>2. op'[self[t]] \in {"done", "failing"} => op[self[t]] \in {"done", "failing"}
        BY <1>op, <2>1, <2>2 DEF Handled
      <4> QED
        BY <2>2, <3>2, <4>1, <4>2 DEF Waiting
    <3> QED
      BY <3>1, <3>2
  <2>8. ASSUME NEW j \in Ids, Waiting(j)' PROVE \E u \in Threads : Calling(u, j)'
    <3>1. j # self[t]
      BY <2>2, <2>7, <2>8
    <3>2. Waiting(j)
      BY <2>4, <2>8, <3>1 DEF Waiting
    <3>3. PICK u \in Threads : Calling(u, j)
      BY <3>2 DEF CallOK
    <3> QED
      BY <2>2, <2>3, <2>4, <3>1, <3>3 DEF Calling
  <2> QED
    BY <2>6, <2>8 DEF CallOK
<1>9. ASSUME NEW t \in Threads, Registry(t) PROVE CallOK'
  <2>1. UNCHANGED <<session, thread, lastId>>
    BY <1>9 DEF Registry, Insert, Publish, Release, ReleaseScan, ScanLock, Scan, Visit, Get,
       ScanStart, Drop, Unref
  <2>2. self' = self \/ \E i : self' = [self EXCEPT ![t] = i]
    BY <1>9 DEF Registry, Insert, Publish, Release, ReleaseScan, ScanLock, Scan, Visit, Get,
       ScanStart, Drop, Unref
  <2>3. self' = self \/ step[t] = "idle"
    BY <1>9, <1>t DEF Registry, Insert, Publish, Release, ReleaseScan, ScanLock, Scan, Visit, Get,
       ScanStart, Drop, ThreadOK, Makes
  <2>4. \A u \in Threads : step[u] \in {"connect", "error"} => self'[u] = self[u]
    BY <1>self, <2>2, <2>3
  <2> QED
    BY <1>a, <2>1, <2>4
<1>10. ASSUME NEW t \in Threads, Destroyed(t) PROVE CallOK'
  <2>1. /\ Erasing(t) /\ self' = [self EXCEPT ![t] = 0]
        /\ origin' = [origin EXCEPT ![self[t]] = "none"]
        /\ handler' = [handler EXCEPT ![self[t]] = "none"]
        /\ conn' = [conn EXCEPT ![self[t]] = FALSE] /\ op' = [op EXCEPT ![self[t]] = "none"]
        /\ called' = [called EXCEPT ![self[t]] = 0]
        /\ UNCHANGED <<lastId, step, who>>
    BY <1>10 DEF Destroyed, Erase, Erasing
  <2>2. step[t] = "idle" /\ self[t] \in Ids
    BY <1>ids, <1>t, <2>1 DEF ThreadOK, Erasing, Makes
  <2>3. PICK i \in Ids : i = self[t]
    BY <2>2
  <2>4. \A j \in Ids : j # i =>
          /\ origin'[j] = origin[j] /\ handler'[j] = handler[j] /\ conn'[j] = conn[j]
          /\ called'[j] = called[j] /\ op'[j] = op[j]
    BY <1>handler, <1>op, <2>1, <2>3
  <2>5. /\ origin'[i] = "none" /\ handler'[i] = "none" /\ conn'[i] = FALSE /\ called'[i] = 0
    BY <1>handler, <2>1, <2>3
  <2>6. ASSUME NEW j \in Ids PROVE MembersOK(j)'
    <3>1. CASE j = i
      BY <2>5, <3>1 DEF MembersOK
    <3>2. CASE j # i
      <4>1. MembersOK(j)
        BY DEF CallOK
      <4>2. /\ origin'[j] = origin[j] /\ handler'[j] = handler[j] /\ conn'[j] = conn[j]
            /\ called'[j] = called[j] /\ lastId' = lastId
        BY <2>1, <2>4, <3>2
      <4> QED
        BY <4>1, <4>2 DEF MembersOK
    <3> QED
      BY <3>1, <3>2
  <2>7. ASSUME NEW j \in Ids, Waiting(j)' PROVE \E u \in Threads : Calling(u, j)'
    <3>1. j # i
      BY <2>5, <2>7 DEF Waiting
    <3>2. PICK u \in Threads : Calling(u, j)
      BY <2>4, <2>7, <3>1 DEF CallOK, Waiting
    <3>3. self'[u] = self[u]
      BY <1>self, <2>1, <2>2, <3>2 DEF Calling
    <3> QED
      BY <2>1, <2>4, <3>1, <3>2, <3>3 DEF Calling
  <2> QED
    BY <2>6, <2>7 DEF CallOK
<1> QED
  <2>1. ASSUME NEW t \in Threads, Connect(t) \/ Accepted(t) PROVE CallOK'
    BY <1>4, <2>1 DEF Connect, Accepted
  <2> QED
    BY <1>1, <1>2, <1>3, <1>5, <1>6, <1>7, <1>8, <1>9, <1>10, <2>1 DEF ServiceNext, Handling

(* The function given to connect() is called once for every connect() that   *)
(* completes, whether it succeeds or fails and whatever the function throws, *)
(* and never again (connect_handler, noexcept_handler_impl).                 *)
THEOREM CalledOnce == ServiceSpec => []ConnectCalledOnce
<1>1. ServiceInit => CallOK
  <2> SUFFICES ASSUME ServiceInit, NEW i \in Ids PROVE MembersOK(i) /\ ~Waiting(i)
    BY DEF CallOK
  <2>1. origin[i] = "none" /\ handler[i] = "none" /\ conn[i] = FALSE /\ called[i] = 0
    BY DEF ServiceInit
  <2> QED
    BY <2>1 DEF MembersOK, Waiting
<1>2. CallOK => ConnectCalledOnce
  <2> SUFFICES ASSUME CallOK, NEW i \in Ids
               PROVE  /\ called[i] <= 1
                      /\ origin[i] = "callback" /\ op[i] = "done"
                         /\ (\A t \in Threads : self[t] = i => step[t] = "idle") => called[i] = 1
    BY DEF ConnectCalledOnce
  <2>1. called[i] <= 1
    BY DEF CallOK, MembersOK
  <2>2. ASSUME origin[i] = "callback", op[i] = "done",
               \A t \in Threads : self[t] = i => step[t] = "idle"
        PROVE  called[i] = 1
    <3>1. ~Waiting(i)
      BY <2>2 DEF CallOK, Calling
    <3> QED
      BY <2>2, <3>1 DEF CallOK, MembersOK, Waiting
  <2> QED
    BY <2>1, <2>2
<1> QED
  BY <1>1, <1>2, CallInductive, HandlerInvariant, PTL DEF ServiceSpec

----------------------------------------------------------------------------
(* foreach().                                                                *)

LEMMA ScanInductive == Shape /\ RegistryOK /\ ScanOK /\ [ServiceNext]_svars => ScanOK'
<1> SUFFICES ASSUME Shape, RegistryOK, ScanOK, [ServiceNext]_svars PROVE ScanOK'
  OBVIOUS
<1>pc. pc \in [Threads -> Labels]
  BY DEF Shape, TypeOK
<1>refs. refs \in [Ids -> SUBSET (Threads \cup {Owner})] /\ Owner \notin Threads
  BY OwnerAssumption DEF Shape, TypeOK
<1>max. MaxId \in Nat /\ End = MaxId + 1 /\ Ids = 1..MaxId
  BY ManagerAssumption DEF Ids, End
<1>iter. iter \in [Threads -> 0..End] /\ sessions \subseteq Ids
  BY DEF Shape, TypeOK
<1>from. from \in [Threads -> SUBSET Ids]
  BY DEF Shape, TypeOK
<1>visited. visited \in [Threads -> Seq(Ids)]
  BY DEF Shape, TypeOK
<1>t. \A t \in Threads : ThreadOK(t)
  BY DEF RegistryOK
<1>s. \A i \in Ids : SessionOK(i)
  BY DEF RegistryOK
<1> USE DEF acceptor, thread, session, set, vars, Go, At, Then, On, Unlocked
(* A thread whose foreach() does not move.                                   *)
<1>a. ASSUME NEW u \in Threads, Here(u)' <=> Here(u), iter'[u] = iter[u],
             visited'[u] = visited[u], from'[u] \subseteq from[u]
      PROVE  (AscendingOK(u) /\ AheadOK(u))'
  <2>1. AscendingOK(u) /\ AheadOK(u)
    BY DEF ScanOK
  <2> QED
    BY <1>a, <2>1 DEF AscendingOK, AheadOK, Seen
(* A thread that is in no foreach().                                         *)
<1>b. ASSUME NEW u \in Threads, visited'[u] = <<>>, from'[u] = {}
      PROVE  (AscendingOK(u) /\ AheadOK(u))'
  BY <1>b DEF AscendingOK, AheadOK
(* Sessions that are not released.                                           *)
<1>c. ASSUME \A i \in Ids : refs[i] # {} => refs'[i] # {},
             \A u \in Threads : from'[u] \subseteq from[u]
      PROVE  FromOK'
  BY <1>c, <1>from DEF ScanOK, FromOK
(* Steps without foreach().                                                  *)
<1>d. ASSUME NEW t \in Threads, UNCHANGED <<iter, from, visited>>,
             pc' = pc \/ (~Here(t) /\ \E l \in Labels \ {"scan", "visit"} : pc' = [pc EXCEPT ![t] = l]),
             refs' = refs \/ \E i, T : T # {} /\ refs' = [refs EXCEPT ![i] = T]
      PROVE  ScanOK'
  <2>1. \A u \in Threads : Here(u)' <=> Here(u)
    BY <1>d, <1>pc DEF Here
  <2>2. \A i \in Ids : refs[i] # {} => refs'[i] # {}
    BY <1>d, <1>refs
  <2> QED
    BY <1>a, <1>c, <1>d, <2>1, <2>2 DEF ScanOK
<1>1. CASE UNCHANGED svars \/ Incoming \/ Answer
  <2>1. UNCHANGED vars
    BY <1>1 DEF svars, Incoming, Answer
  <2> QED
    BY <1>a, <1>c, <2>1 DEF ScanOK, Here
<1>2. ASSUME NEW t \in Threads,
             \/ Bind(t) \/ Unbind(t) \/ AcceptCompletion(t) \/ Rearm(t) \/ Connect(t) \/ Accepted(t)
             \/ Fill(t) \/ AssignHandler(t) \/ StartAccepted(t) \/ Destroyed(t)
      PROVE  ScanOK'
  <2>1. /\ UNCHANGED <<iter, from, visited, refs>>
        /\ pc' = pc \/ (~Here(t) /\ \E l \in Labels \ {"scan", "visit"} : pc' = [pc EXCEPT ![t] = l])
    BY <1>2 DEF Bind, Unbind, AcceptCompletion, Rearm, Connect, Accepted, CreateFor, Create, Fill,
       AssignHandler, StartAccepted, Destroyed, Erase, Here, Labels
  <2> QED
    BY <1>d, <2>1
<1>3. ASSUME NEW t \in Threads, StartConnect(t) \/ ConnectCompletion(t) \/ Handling(t)
      PROVE  ScanOK'
  <2>1. Handling(t) => Handled(t)
    BY HandlingDoes
  <2>2. /\ UNCHANGED <<iter, from, visited>> /\ ~Here(t)
        /\ pc' = pc \/ \E l \in Labels \ {"scan", "visit"} : pc' = [pc EXCEPT ![t] = l]
    BY <1>3, <2>1 DEF StartConnect, ConnectCompletion, Handled, Here, Labels
  <2>3. refs' = refs \/ \E i, T : T # {} /\ refs' = [refs EXCEPT ![i] = T]
    <3>1. CASE StartConnect(t)
      BY <3>1 DEF StartConnect
    <3>2. CASE ConnectCompletion(t)
      <4>1. PICK i \in Ids : refs' = [refs EXCEPT ![i] = (@ \ {Owner}) \cup {t}]
        BY <3>2 DEF ConnectCompletion
      <4>2. refs' = [refs EXCEPT ![i] = (refs[i] \ {Owner}) \cup {t}]
        BY <4>1
      <4>3. (refs[i] \ {Owner}) \cup {t} # {}
        OBVIOUS
      <4> QED
        BY <4>2, <4>3, Zenon
    <3>3. CASE Handled(t)
      BY <3>3 DEF Handled
    <3> QED
      BY <1>3, <2>1, <3>1, <3>2, <3>3
  <2> QED
    BY <1>d, <2>2, <2>3
<1>4. ASSUME NEW t \in Threads, NEW h, NEW i \in Ids,
             NEW l \in Labels \ {"scan", "visit"}, NEW m \in Labels \ {"scan", "visit"},
             ~Here(t), Unref(t, h, i, l, m)
      PROVE  ScanOK'
  <2>1. /\ refs' = [refs EXCEPT ![i] = @ \ {h}] /\ UNCHANGED <<iter, visited>>
        /\ \E n \in Labels \ {"scan", "visit"} : pc' = [pc EXCEPT ![t] = n]
        /\ from' = IF refs'[i] = {} THEN [u \in Threads |-> from[u] \ {i}] ELSE from
    BY <1>4 DEF Unref
  <2>2. \A u \in Threads : (Here(u)' <=> Here(u)) /\ from'[u] \subseteq from[u]
    BY <1>pc, <1>4, <2>1 DEF Here
  <2>3. FromOK'
    BY <1>refs, <1>from, <2>1 DEF ScanOK, FromOK
  <2> QED
    BY <1>a, <2>1, <2>2, <2>3 DEF ScanOK
<1>5. ASSUME NEW t \in Threads, Registry(t) PROVE ScanOK'
  <2>1. CASE Insert(t) \/ Publish(t, t) \/ Get(t)
    <3>1. /\ UNCHANGED <<iter, from, visited>> /\ ~Here(t)
          /\ pc' = pc \/ \E l \in Labels \ {"scan", "visit"} : pc' = [pc EXCEPT ![t] = l]
      BY <2>1 DEF Insert, Publish, Get, Here, Labels
    <3>2. refs' = refs \/ \E i, T : T # {} /\ refs' = [refs EXCEPT ![i] = T]
      BY <2>1 DEF Insert, Publish, Get
    <3> QED
      BY <1>d, <3>1, <3>2
  <2>2. CASE Release(t) \/ ReleaseScan(t) \/ Drop(t)
    <3>1. Release(t) \/ ReleaseScan(t) => self[t] \in Ids
      BY <1>t DEF Release, ReleaseScan, ThreadOK, Holds
    <3>2. ~Here(t)
      BY <2>2 DEF Release, ReleaseScan, Drop, Here
    <3> QED
      BY <1>4, <2>2, <3>1, <3>2 DEF Release, ReleaseScan, Drop, Labels
  <2>3. CASE ScanStart(t)
    <3>1. /\ pc[t] = "idle" /\ pc' = [pc EXCEPT ![t] = "scan_lock"] /\ UNCHANGED refs
          /\ iter' = [iter EXCEPT ![t] = 0] /\ visited' = [visited EXCEPT ![t] = <<>>]
          /\ from' = [from EXCEPT ![t] = {i \in Ids : Usable(i)}]
      BY <2>3 DEF ScanStart
    <3>2. \A u \in Threads : u # t =>
            /\ (Here(u)' <=> Here(u)) /\ iter'[u] = iter[u] /\ visited'[u] = visited[u]
            /\ from'[u] = from[u]
      BY <1>pc, <1>iter, <1>from, <1>visited, <3>1 DEF Here
    <3>3. iter'[t] = 0 /\ visited'[t] = <<>> /\ from'[t] = {i \in Ids : Usable(i)}
      BY <1>iter, <1>from, <1>visited, <3>1
    <3>4. (AscendingOK(t) /\ AheadOK(t))'
      BY <1>max, <3>3 DEF AscendingOK, AheadOK
    <3>5. FromOK'
      BY <3>1, <3>2, <3>3 DEF ScanOK, FromOK, Usable
    <3> QED
      BY <1>a, <3>2, <3>4, <3>5 DEF ScanOK
  <2>4. CASE ScanLock(t)
    <3> DEFINE m == Min({i \in sessions : i > iter[t]} \cup {End})
    <3>1. /\ (m \in 1..End /\ m > iter[t]) \/ m = End
          /\ \A i \in sessions : i > iter[t] => m <= i
      BY NextPosition
    <3>2. /\ pc[t] = "scan_lock" /\ pc' = [pc EXCEPT ![t] = "scan"]
          /\ UNCHANGED <<refs, from, visited>> /\ iter' = [iter EXCEPT ![t] = m]
      BY <2>4 DEF ScanLock
    <3> HIDE DEF m
    <3>3. \A u \in Threads : u # t => (Here(u)' <=> Here(u)) /\ iter'[u] = iter[u]
      BY <1>pc, <1>iter, <3>2 DEF Here
    <3>4. iter'[t] = m /\ Here(t)' /\ ~Here(t) /\ m \in Nat /\ iter[t] \in Nat
      BY <1>pc, <1>iter, <1>max, <3>1, <3>2 DEF Here
    <3>5. AscendingOK(t) /\ AheadOK(t) /\ \A i \in from[t] : refs[i] # {}
      BY DEF ScanOK, FromOK
    <3>6. \A j \in DOMAIN visited[t] : visited[t][j] \in Nat /\ visited[t][j] < m
      <4>1. \A j \in DOMAIN visited[t] : visited[t][j] \in Ids /\ visited[t][j] <= iter[t]
        BY <1>visited, <3>5 DEF AscendingOK
      <4> QED
        BY <1>max, <3>1, <3>4, <4>1
    <3>7. AscendingOK(t)'
      BY <3>2, <3>4, <3>5, <3>6 DEF AscendingOK
    <3>8. \A i \in from[t] : i \in sessions /\ i \in Nat
      BY <1>from, <1>max, <1>s, <3>5 DEF SessionOK
    <3>9. \A i \in from[t] : i \in Seen(t) \/ i > m \/ i = m
      BY <3>1, <3>4, <3>5, <3>8 DEF AheadOK
    <3>10. AheadOK(t)'
      BY <3>2, <3>4, <3>9 DEF AheadOK, Seen
    <3>11. FromOK'
      BY <1>c, <3>2
    <3> QED
      BY <1>a, <3>2, <3>3, <3>7, <3>10, <3>11 DEF ScanOK
  <2>5. CASE Scan(t)
    <3>1. CASE Over(t)
      <4>1. /\ pc[t] = "scan"
            /\ pc' = [pc EXCEPT ![t] = "idle"] \/ pc' = [pc EXCEPT ![t] = "visit"]
            /\ refs' = refs \/ refs' = [refs EXCEPT ![iter[t]] = @ \cup {t}]
        BY <2>5 DEF Scan
      <4>2. /\ iter' = [iter EXCEPT ![t] = 0] /\ from' = [from EXCEPT ![t] = {}]
            /\ visited' = [visited EXCEPT ![t] = <<>>]
        BY <3>1 DEF Over
      <4>3. \A u \in Threads : u # t =>
              /\ (Here(u)' <=> Here(u)) /\ iter'[u] = iter[u] /\ visited'[u] = visited[u]
              /\ from'[u] = from[u]
        BY <1>pc, <1>iter, <1>from, <1>visited, <4>1, <4>2 DEF Here
      <4>4. visited'[t] = <<>> /\ from'[t] = {}
        BY <1>from, <1>visited, <4>2
      <4>5. FromOK'
        BY <1>refs, <1>c, <4>1, <4>3, <4>4
      <4> QED
        BY <1>a, <1>b, <4>3, <4>4, <4>5 DEF ScanOK
    <3>2. CASE ~Over(t)
      <4>1. /\ pc[t] = "scan" /\ pc' = [pc EXCEPT ![t] = "visit"] /\ UNCHANGED <<iter, from, visited>>
            /\ refs' = [refs EXCEPT ![iter[t]] = @ \cup {t}]
        BY <2>5, <3>2 DEF Scan, GoesOn
      <4>2. \A u \in Threads : Here(u)' <=> Here(u)
        BY <1>pc, <4>1 DEF Here
      <4>3. FromOK'
        BY <1>refs, <1>c, <4>1
      <4> QED
        BY <1>a, <4>1, <4>2, <4>3 DEF ScanOK
    <3> QED
      BY <3>1, <3>2
  <2>6. CASE Visit(t)
    <3>1. /\ pc[t] = "visit" /\ UNCHANGED refs /\ iter[t] \in Ids
          /\ \E l \in Labels \ {"scan", "visit"} : pc' = [pc EXCEPT ![t] = l]
      BY <1>t, <2>6 DEF Visit, ThreadOK, Labels
    <3>2. CASE Over(t)
      <4>1. /\ iter' = [iter EXCEPT ![t] = 0] /\ from' = [from EXCEPT ![t] = {}]
            /\ visited' = [visited EXCEPT ![t] = <<>>]
        BY <3>2 DEF Over
      <4>2. \A u \in Threads : u # t =>
              /\ (Here(u)' <=> Here(u)) /\ iter'[u] = iter[u] /\ visited'[u] = visited[u]
              /\ from'[u] = from[u]
        BY <1>pc, <1>iter, <1>from, <1>visited, <3>1, <4>1 DEF Here
      <4>3. visited'[t] = <<>> /\ from'[t] = {}
        BY <1>from, <1>visited, <4>1
      <4>4. FromOK'
        BY <1>c, <3>1, <4>2, <4>3
      <4> QED
        BY <1>a, <1>b, <4>2, <4>3, <4>4 DEF ScanOK
    <3>3. CASE ~Over(t)
      <4>1. UNCHANGED <<iter, from>> /\ visited' = [visited EXCEPT ![t] = Append(@, iter[t])]
        BY <2>6, <3>3 DEF Visit
      <4>2. \A u \in Threads : u # t => (Here(u)' <=> Here(u)) /\ visited'[u] = visited[u]
        BY <1>pc, <1>visited, <3>1, <4>1 DEF Here
      <4>3. FromOK'
        BY <1>c, <3>1, <4>1
      <4>4. /\ iter'[t] = iter[t] /\ from'[t] = from[t] /\ Here(t) /\ ~Here(t)'
            /\ visited'[t] = Append(visited[t], iter[t]) /\ iter[t] \in Nat
        BY <1>max, <1>pc, <1>visited, <3>1, <4>1 DEF Here
      <4>5. visited[t] \in Seq(Ids)
        BY <1>visited
      <4>6. /\ Len(visited'[t]) = Len(visited[t]) + 1 /\ Len(visited[t]) \in Nat
            /\ DOMAIN visited'[t] = 1..(Len(visited[t]) + 1) /\ DOMAIN visited[t] = 1..Len(visited[t])
            /\ \A j \in DOMAIN visited[t] : visited'[t][j] = visited[t][j] /\ visited[t][j] \in Ids
            /\ visited'[t][Len(visited[t]) + 1] = iter[t]
        BY <3>1, <4>4, <4>5
      <4>7. AscendingOK(t) /\ AheadOK(t)
        BY DEF ScanOK
      <4>8. \A j \in DOMAIN visited[t] : visited[t][j] \in Nat /\ visited[t][j] < iter[t]
        BY <1>max, <4>4, <4>6, <4>7 DEF AscendingOK
      <4>9. AscendingOK(t)'
        BY <4>4, <4>6, <4>7, <4>8 DEF AscendingOK
      <4>10. AheadOK(t)'
        BY <4>4, <4>6, <4>7 DEF AheadOK, Seen
      <4> QED
        BY <1>a, <4>1, <4>2, <4>3, <4>9, <4>10 DEF ScanOK
    <3> QED
      BY <3>2, <3>3
  <2> QED
    BY <1>5, <2>1, <2>2, <2>3, <2>4, <2>5, <2>6 DEF Registry
<1> QED
  BY <1>1, <1>2, <1>3, <1>5 DEF ServiceNext, Handling

(* foreach() calls its function in ascending order of ids, at most once per  *)
(* session, and at its end it has called it with every session that was      *)
(* usable throughout, for any number of threads and sessions and whatever    *)
(* was inserted or erased while the lock was free (session_manager::foreach).*)
THEOREM ScanComplete == ServiceSpec => []CompleteScan
<1>1. ServiceInit => ScanOK
  <2> SUFFICES ASSUME ServiceInit PROVE ScanOK
    OBVIOUS
  <2>1. \A t \in Threads : visited[t] = <<>> /\ from[t] = {}
    BY DEF ServiceInit, Init
  <2> QED
    BY <2>1 DEF ScanOK, FromOK, AscendingOK, AheadOK
<1>2. Shape /\ RegistryOK /\ ScanOK => CompleteScan
  <2> SUFFICES ASSUME Shape, RegistryOK, ScanOK, NEW t \in Threads
               PROVE  /\ \A j \in DOMAIN visited[t] :
                           /\ \A i \in DOMAIN visited[t] : i < j => visited[t][i] < visited[t][j]
                           /\ At(t, "visit") => visited[t][j] < iter[t]
                      /\ At(t, "scan") /\ iter[t] = End =>
                           from[t] \subseteq {visited[t][k] : k \in DOMAIN visited[t]}
    BY DEF CompleteScan
  <2>1. AscendingOK(t) /\ AheadOK(t) /\ \A i \in from[t] : refs[i] # {}
    BY DEF ScanOK, FromOK
  <2>2. from[t] \subseteq Ids /\ sessions \subseteq Ids /\ \A i \in Ids : SessionOK(i)
    BY DEF Shape, TypeOK, RegistryOK
  <2>3. \A i \in from[t] : i \in Nat /\ i < End /\ End \in Nat
    BY <2>2, ManagerAssumption DEF Ids, End
  <2>4. ASSUME At(t, "scan"), iter[t] = End PROVE from[t] \subseteq Seen(t)
    BY <2>1, <2>3, <2>4 DEF AheadOK
  <2> QED
    BY <2>1, <2>4 DEF AscendingOK, Here, At, Seen
<1> QED
  BY <1>1, <1>2, ScanInductive, RegistryInvariant, PTL DEF ServiceSpec
=============================================================================
