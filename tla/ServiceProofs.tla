---------------------------- MODULE ServiceProofs ----------------------------
(***************************************************************************)
(* Theorems about the service and its registry of sessions, for any set of *)
(* threads and any number of sessions: who may use a session, when it is   *)
(* destroyed, and that every connect() is answered once.                   *)
(***************************************************************************)
EXTENDS Service, WellFoundedInduction, NaturalsInduction, TLAPS

(* ServiceTypeOK without its last part, which needs the invariants below.    *)
Members ==
  /\ sock \in {"closed", "open", "listening"}
  /\ accept \in {"none", "pending", "ok", "err"} /\ failed \in BOOLEAN
  /\ step \in [Threads -> Steps] /\ who \in [Threads -> Handlers]
  /\ origin \in [Ids -> {"none", "service", "callback", "accept"}]
  /\ handler \in [Ids -> Handlers] /\ conn \in [Ids -> BOOLEAN]
  /\ op \in [Ids -> {"none", "pending", "ok", "err", "failing", "thrown", "done"}]
  /\ called \in [Ids -> Nat]
Shape == TypeOK /\ Members

(* The thread that makes a session, the one that does something with it for  *)
(* the service, and a thread that holds its session_ptr.                     *)
Makes(t) == pc[t] \in {"insert", "publish"}
Uses(t)  == step[t] \in {"fill", "assign", "start", "connect", "except", "error", "again", "close"}
Holds(t) == (Uses(t) /\ pc[t] = "idle") \/ pc[t] \in {"release", "release_scan"}

(* Of one thread.                                                            *)
ThreadOK(t) ==
  /\ pc[t] # "idle" => step[t] = (IF Makes(t) THEN "fill" ELSE "idle")
  /\ Uses(t) => self[t] \in 1..lastId
  /\ Holds(t) => self[t] \in Ids /\ t \in refs[self[t]]
  /\ Makes(t) => self[t] \notin weak /\ refs[self[t]] = {}
  /\ At(t, "publish") => self[t] \in sessions
  /\ Erasing(t) => self[t] \in sessions \cap weak /\ refs[self[t]] = {}
  /\ At(t, "scan")  => iter[t] # 0
  /\ At(t, "visit") => iter[t] \in Ids /\ t \in refs[iter[t]]

(* Of two threads: no session is used by both for the service, or destroyed  *)
(* by both.                                                                  *)
PairOK(t, u) ==
  /\ Uses(t) /\ Uses(u) => self[t] # self[u]
  /\ Erasing(t) /\ Erasing(u) => self[t] # self[u]

(* Of one session.                                                           *)
SessionOK(i) ==
  /\ refs[i] # {} => i \in sessions \cap weak
  /\ i \in sessions \cup weak => i <= lastId
  /\ op[i] # "none" => i \in weak
  /\ InFlight(i) => Owner \in refs[i] /\ \A t \in Threads : Uses(t) => self[t] # i

RegistryOK ==
  /\ \A t \in Threads : ThreadOK(t)
  /\ \A t, u \in Threads : t # u => PairOK(t, u)
  /\ \A i \in Ids : SessionOK(i)

(* The acceptor: nothing is accepted before it listens.                      *)
ListenOK == sock # "listening" => accept = "none" /\ \A t \in Threads : step[t] # "rearm"

----------------------------------------------------------------------------
(* Helpers.                                                                  *)

(* A set of naturals that is not empty has a least element, which Min gives. *)
LEMMA MinIsLeast ==
  ASSUME NEW S \in SUBSET Nat, S # {}
  PROVE  Min(S) \in S /\ \A y \in S : Min(S) <= y
<1> DEFINE R == {ss \in Nat \X Nat : ss[1] < ss[2]}
<1>1. IsWellFoundedOn(R, Nat)
  BY NatLessThanWellFounded DEF OpToRel
<1>2. \E x \in S : \A y \in S : ~ (<<y, x>> \in R)
  <2> HIDE DEF R
  <2> QED
    BY <1>1, WFMin
<1>3. \A x, y \in S : ~ (<<y, x>> \in R) => x <= y
  <2> SUFFICES ASSUME NEW x \in S, NEW y \in S, ~ (<<y, x>> \in R) PROVE x <= y
    OBVIOUS
  <2>1. x \in Nat /\ y \in Nat
    OBVIOUS
  <2>2. ~ (y < x)
    BY <2>1
  <2> QED
    BY <2>1, <2>2
<1>4. \E x \in S : \A y \in S : x <= y
  <2> HIDE DEF R
  <2> QED
    BY <1>2, <1>3
<1> QED
  BY <1>4 DEF Min

(* Where foreach() goes on.                                                  *)
LEMMA NextPosition ==
  ASSUME Shape, NEW t \in Threads, NEW m, m = Min({i \in sessions : i > iter[t]} \cup {End})
  PROVE  /\ (m \in 1..End /\ m > iter[t]) \/ m = End
         /\ m # End => m \in sessions
         /\ \A i \in sessions : i > iter[t] => m <= i
<1> DEFINE S == {i \in sessions : i > iter[t]} \cup {End}
<1>1. \A i \in S : i \in Nat
  BY ManagerAssumption DEF Shape, TypeOK, Ids, End
<1>2. S \in SUBSET Nat /\ S # {}
  <2> HIDE DEF S
  <2>1. End \in S
    BY DEF S
  <2> QED
    BY <1>1, <2>1
<1>3. m \in S /\ \A y \in S : m <= y
  BY <1>2, MinIsLeast
<1> QED
  BY <1>3, ManagerAssumption DEF Shape, TypeOK, Ids, End

LEMMA ShapeInit == ServiceInit => Shape
<1> SUFFICES ASSUME ServiceInit PROVE Shape
  OBVIOUS
<1>1. TypeOK
  BY ManagerAssumption DEF ServiceInit, Init, TypeOK, Ids, End, Labels
<1>2. Members
  BY DEF ServiceInit, Members, Steps, Handlers
<1> QED
  BY <1>1, <1>2 DEF Shape

(* What the handlers' code and its containment do to the registry and the    *)
(* thread: it goes on, or gives its session_ptr to release.                  *)
Handled(t) ==
  /\ step[t] \in {"connect", "except", "error", "again", "close"} /\ pc[t] = "idle"
  /\ UNCHANGED <<guard, sessions, lastId, weak, self, iter, from, visited, scans>>
  /\ UNCHANGED <<acceptor, origin>>
  /\ \/ /\ UNCHANGED <<pc, refs>> /\ UNCHANGED <<who, op>>
        /\ \E s \in {"except", "error", "again"} : step' = [step EXCEPT ![t] = s]
     \/ /\ UNCHANGED <<pc, refs>>
        /\ op[self[t]] = "failing" /\ op' = [op EXCEPT ![self[t]] = "done"]
        /\ step' = [step EXCEPT ![t] = "close"]
        /\ who' = [who EXCEPT ![t] = handler'[self[t]]]
     \/ /\ op[self[t]] # "failing" /\ UNCHANGED op
        /\ step' = [step EXCEPT ![t] = "idle"] /\ pc' = [pc EXCEPT ![t] = "release"]
        /\ who' = [who EXCEPT ![t] = "none"]
        /\ \/ refs' = [refs EXCEPT ![self[t]] = @ \cup {t}]
           \/ refs' = [refs EXCEPT ![self[t]] = @ \cup {t, Owner}]

(* And to the session's handler.                                             *)
Called(t) ==
  LET i == self[t]
  IN \/ /\ who[t] # "callback" \/ step[t] \in {"except", "close"}
        /\ UNCHANGED <<handler, conn, called>>
     \/ /\ who[t] = "callback" /\ ~conn[i]
        /\ handler' = [handler EXCEPT ![i] = "dummy"] /\ UNCHANGED <<conn, called>>
     \/ /\ who[t] = "callback" /\ conn[i]
        /\ \E h \in {"dummy", "user"} : handler' = [handler EXCEPT ![i] = h]
        /\ conn' = [conn EXCEPT ![i] = FALSE] /\ called' = [called EXCEPT ![i] = @ + 1]

Handling(t) ==
  OnConnect(t) \/ OnExcept(t) \/ OnError(t) \/ OnErrorAgain(t) \/ OnClose(t)

LEMMA HandlingDoes ==
  ASSUME NEW t \in Threads, Handling(t)
  PROVE  Handled(t) /\ Called(t)
<1>1. ASSUME Invoke(t) PROVE Called(t)
  BY <1>1 DEF Invoke, Called, Wrap
<1>2. ASSUME step[t] \in {"except", "close"}, UNCHANGED <<handler, conn, called>> PROVE Called(t)
  BY <1>2 DEF Called
<1>3. Called(t)
  BY <1>1, <1>2 DEF Handling, OnConnect, OnExcept, OnError, OnErrorAgain, OnClose, Handles, On
<1>4. \E s \in {"connect", "except", "error", "again", "close"} :
        Handles(t, s) /\ (Done(t) \/ \E r \in {"except", "error", "again"} : Fails(t, r))
  BY DEF Handling, OnConnect, OnExcept, OnError, OnErrorAgain, OnClose
<1>5. Handled(t)
  BY <1>4 DEF Handled, Handles, Done, Fails, Then, Stay, Leave, Go, On, At
<1> QED
  BY <1>3, <1>5

LEMMA MoreRefs ==
  ASSUME TypeOK, NEW i \in Ids, NEW T \in SUBSET (Threads \cup {Owner})
  PROVE  [refs EXCEPT ![i] = @ \cup T] \in [Ids -> SUBSET (Threads \cup {Owner})]
BY DEF TypeOK

LEMMA OverType ==
  ASSUME TypeOK, NEW t \in Threads, Over(t)
  PROVE  /\ iter' \in [Threads -> 0..End] /\ from' \in [Threads -> SUBSET Ids]
         /\ visited' \in [Threads -> Seq(Ids)]
<1>1. iter' \in [Threads -> 0..End]
  BY ManagerAssumption DEF Over, TypeOK, End
<1>2. from' \in [Threads -> SUBSET Ids]
  BY DEF Over, TypeOK
<1>3. visited' \in [Threads -> Seq(Ids)]
  BY DEF Over, TypeOK
<1> QED
  BY <1>1, <1>2, <1>3

LEMMA ShapeInductive == Shape /\ RegistryOK /\ [ServiceNext]_svars => Shape'
<1> SUFFICES ASSUME Shape, RegistryOK, [ServiceNext]_svars PROVE Shape'
  OBVIOUS
<1>0. TypeOK /\ Members
  BY DEF Shape
<1>pc. pc \in [Threads -> Labels]
  BY <1>0 DEF TypeOK
<1>max. MaxId \in Nat
  BY ManagerAssumption
<1>self. self \in [Threads -> 0..MaxId]
  BY <1>0 DEF TypeOK
<1>refs. refs \in [Ids -> SUBSET (Threads \cup {Owner})]
  BY <1>0 DEF TypeOK
<1>ids. sessions \subseteq Ids /\ weak \subseteq Ids
  BY <1>0 DEF TypeOK
<1>scan. /\ iter \in [Threads -> 0..End] /\ from \in [Threads -> SUBSET Ids]
         /\ visited \in [Threads -> Seq(Ids)]
  BY <1>0 DEF TypeOK
<1> USE DEF acceptor, thread, session, set, vars, Go, At, Then, On, Unlocked
<1>1. CASE UNCHANGED svars
  BY <1>0, <1>1 DEF svars, Shape, TypeOK, Members
<1>2. CASE Incoming \/ Answer
  BY <1>0, <1>2 DEF Incoming, Answer, Shape, TypeOK, Members
<1>3. ASSUME NEW t \in Threads, Bind(t) \/ Unbind(t) \/ AcceptCompletion(t) \/ Rearm(t)
      PROVE  Shape'
  BY <1>0, <1>3 DEF Bind, Unbind, AcceptCompletion, Rearm, Steps, Shape, TypeOK, Members
<1>4. ASSUME NEW t \in Threads, NEW o \in {"service", "callback", "accept"}, CreateFor(t, o)
      PROVE  Shape'
  <2>1. TypeOK'
    BY <1>0, <1>4, ManagerAssumption DEF CreateFor, Create, TypeOK, Labels
  <2>2. Members'
    BY <1>0, <1>4 DEF CreateFor, Create, Members, Steps, Ids
  <2> QED
    BY <2>1, <2>2 DEF Shape
<1>5. ASSUME NEW t \in Threads, Fill(t) \/ AssignHandler(t) \/ StartConnect(t)
      PROVE  Shape'
  <2>1. TypeOK'
    <3>1. pc' \in [Threads -> Labels]
      BY <1>pc, <1>5 DEF Fill, AssignHandler, StartConnect, Labels
    <3>2. refs' \in [Ids -> SUBSET (Threads \cup {Owner})]
      BY <1>refs, <1>5 DEF Fill, AssignHandler, StartConnect
    <3> QED
      BY <1>0, <1>5, <3>1, <3>2 DEF Fill, AssignHandler, StartConnect, TypeOK
  <2>2. Members'
    BY <1>0, <1>5 DEF Fill, AssignHandler, StartConnect, Members, Steps, Handlers, Wrap
  <2> QED
    BY <2>1, <2>2 DEF Shape
<1>6. ASSUME NEW t \in Threads, ConnectCompletion(t) PROVE Shape'
  <2>1. TypeOK'
    <3>1. pc' \in [Threads -> Labels]
      BY <1>pc, <1>6 DEF ConnectCompletion, Labels
    <3>2. self' \in [Threads -> 0..MaxId]
      BY <1>max, <1>self, <1>6 DEF ConnectCompletion, Ids
    <3>3. refs' \in [Ids -> SUBSET (Threads \cup {Owner})]
      BY <1>refs, <1>6 DEF ConnectCompletion
    <3> QED
      BY <1>0, <1>6, <3>1, <3>2, <3>3 DEF ConnectCompletion, TypeOK
  <2>2. Members'
    BY <1>0, <1>6 DEF ConnectCompletion, Enter, Members, Steps
  <2> QED
    BY <2>1, <2>2 DEF Shape
<1>7. ASSUME NEW t \in Threads, StartAccepted(t) PROVE Shape'
  <2>1. TypeOK'
    BY <1>0, <1>7 DEF StartAccepted, TypeOK, Labels
  <2>2. self[t] \in Ids
    BY <1>7 DEF StartAccepted, RegistryOK, ThreadOK, Holds, Uses
  <2>3. Members'
    BY <1>0, <1>7, <2>2 DEF StartAccepted, Enter, Members, Steps
  <2> QED
    BY <2>1, <2>3 DEF Shape
<1>8. ASSUME NEW t \in Threads, Handling(t) PROVE Shape'
  <2>1. Handled(t) /\ Called(t)
    BY <1>8, HandlingDoes
  <2>2. self[t] \in Ids
    BY <2>1 DEF Handled, RegistryOK, ThreadOK, Holds, Uses
  <2>3. TypeOK'
    <3>1. pc' \in [Threads -> Labels]
      BY <1>pc, <2>1 DEF Handled, Labels
    <3>2. refs' \in [Ids -> SUBSET (Threads \cup {Owner})]
      <4>1. \/ refs' = refs
            \/ refs' = [refs EXCEPT ![self[t]] = @ \cup {t}]
            \/ refs' = [refs EXCEPT ![self[t]] = @ \cup {t, Owner}]
        BY <2>1 DEF Handled
      <4> QED
        BY <1>refs, <2>2, <4>1
    <3> QED
      BY <1>0, <2>1, <3>1, <3>2 DEF Handled, TypeOK
  <2>4. handler' \in [Ids -> Handlers] /\ conn' \in [Ids -> BOOLEAN] /\ called' \in [Ids -> Nat]
    <3>1. handler' \in [Ids -> Handlers]
      BY <1>0, <2>1, <2>2 DEF Called, Members, Handlers
    <3>2. conn' \in [Ids -> BOOLEAN]
      BY <1>0, <2>1, <2>2 DEF Called, Members
    <3>3. called' \in [Ids -> Nat]
      BY <1>0, <2>1, <2>2 DEF Called, Members
    <3> QED
      BY <3>1, <3>2, <3>3
  <2>5. Members'
    BY <1>0, <2>1, <2>2, <2>4 DEF Handled, Members, Steps, Handlers
  <2> QED
    BY <2>3, <2>5 DEF Shape
<1>9. ASSUME NEW t \in Threads, Registry(t) PROVE Shape'
  <2>1. Members'
    BY <1>0, <1>9 DEF Registry, Members
  <2> SUFFICES TypeOK'
    BY <2>1 DEF Shape
  <2>2. CASE Insert(t) \/ Publish(t, t)
    <3>1. self[t] \in Ids
      <4>1. Uses(t)
        BY <2>2 DEF Insert, Publish, RegistryOK, ThreadOK, Makes, Uses
      <4> QED
        BY <1>0, <4>1 DEF RegistryOK, ThreadOK, TypeOK, Ids
    <3>2. pc' \in [Threads -> Labels]
      BY <1>pc, <2>2 DEF Insert, Publish, Labels
    <3>3. refs' \in [Ids -> SUBSET (Threads \cup {Owner})]
      BY <1>refs, <2>2, <3>1 DEF Insert, Publish
    <3> QED
      BY <1>0, <2>2, <3>1, <3>2, <3>3 DEF Insert, Publish, TypeOK
  <2>3. ASSUME NEW h, NEW i \in Ids, NEW l \in Labels, NEW m \in Labels, Unref(t, h, i, l, m)
        PROVE  TypeOK'
    <3>1. pc' \in [Threads -> Labels]
      BY <1>pc, <2>3 DEF Unref
    <3>2. self' \in [Threads -> 0..MaxId]
      <4>1. self' = [self EXCEPT ![t] = i] \/ self' = [self EXCEPT ![t] = 0]
        BY <2>3 DEF Unref
      <4> QED
        BY <1>max, <1>self, <4>1 DEF Ids
    <3>3. refs' \in [Ids -> SUBSET (Threads \cup {Owner})]
      BY <1>refs, <2>3 DEF Unref
    <3>4. from' \in [Threads -> SUBSET Ids]
      BY <1>scan, <2>3 DEF Unref
    <3> QED
      BY <1>0, <2>3, <3>1, <3>2, <3>3, <3>4 DEF Unref, TypeOK
  <2>4. CASE Release(t) \/ ReleaseScan(t) \/ Drop(t)
    <3>1. Release(t) \/ ReleaseScan(t) => self[t] \in Ids
      BY DEF Release, ReleaseScan, RegistryOK, ThreadOK, Holds
    <3> QED
      BY <2>3, <2>4, <3>1 DEF Release, ReleaseScan, Drop, Labels
  <2>5. CASE ScanLock(t)
    <3> DEFINE m == Min({i \in sessions : i > iter[t]} \cup {End})
    <3>1. m \in 0..End
      BY NextPosition, ManagerAssumption DEF End
    <3>2. iter' = [iter EXCEPT ![t] = m]
      BY <2>5 DEF ScanLock
    <3> HIDE DEF m
    <3> QED
      BY <1>0, <2>5, <3>1, <3>2 DEF ScanLock, TypeOK, Labels
  <2>6. CASE Scan(t)
    <3>1. pc' \in [Threads -> Labels]
      BY <1>pc, <2>6 DEF Scan, Labels
    <3>2. refs' \in [Ids -> SUBSET (Threads \cup {Owner})]
      <4>1. iter[t] # End => iter[t] \in Ids
        BY <1>0, <2>6, ManagerAssumption DEF Scan, RegistryOK, ThreadOK, TypeOK, Ids, End
      <4> QED
        BY <1>refs, <2>6, <4>1 DEF Scan
    <3>3. /\ iter' \in [Threads -> 0..End] /\ from' \in [Threads -> SUBSET Ids]
          /\ visited' \in [Threads -> Seq(Ids)]
      <4>1. Over(t) \/ GoesOn
        BY <2>6 DEF Scan
      <4> QED
        BY <1>0, <4>1, OverType DEF GoesOn, TypeOK
    <3> QED
      BY <1>0, <2>6, <3>1, <3>2, <3>3 DEF Scan, TypeOK
  <2>7. CASE Visit(t)
    <3>1. iter[t] \in Ids
      BY <2>7 DEF Visit, RegistryOK, ThreadOK
    <3>2. pc' \in [Threads -> Labels]
      BY <1>pc, <2>7 DEF Visit, Labels
    <3>3. self' \in [Threads -> 0..MaxId]
      BY <1>max, <1>self, <2>7, <3>1 DEF Visit, Ids
    <3>4. /\ iter' \in [Threads -> 0..End] /\ from' \in [Threads -> SUBSET Ids]
          /\ visited' \in [Threads -> Seq(Ids)]
      <4>1. CASE Over(t)
        BY <1>0, <4>1, OverType
      <4>2. CASE /\ UNCHANGED <<iter, from>>
                 /\ visited' = [visited EXCEPT ![t] = Append(@, iter[t])]
        BY <1>0, <3>1, <4>2 DEF TypeOK
      <4> QED
        BY <2>7, <4>1, <4>2 DEF Visit
    <3> QED
      BY <1>0, <2>7, <3>2, <3>3, <3>4 DEF Visit, TypeOK
  <2>8. CASE Get(t)
    <3>1. PICK i \in sessions :
            \/ /\ refs' = [refs EXCEPT ![i] = @ \cup {t}] /\ self' = [self EXCEPT ![t] = i]
               /\ pc' = [pc EXCEPT ![t] = "release"]
            \/ UNCHANGED <<refs, self, pc>>
      BY <2>8 DEF Get
    <3>2. i \in Ids
      BY <1>0 DEF TypeOK
    <3>3. pc' \in [Threads -> Labels]
      BY <1>pc, <3>1 DEF Labels
    <3>4. self' \in [Threads -> 0..MaxId]
      <4>1. self' = self \/ self' = [self EXCEPT ![t] = i]
        BY <3>1
      <4> QED
        BY <1>max, <1>self, <3>2, <4>1 DEF Ids
    <3>5. refs' \in [Ids -> SUBSET (Threads \cup {Owner})]
      <4>1. refs' = refs \/ refs' = [refs EXCEPT ![i] = @ \cup {t}]
        BY <3>1
      <4> QED
        BY <1>refs, <3>2, <4>1
    <3>6. scans' \in 0..MaxScans
      BY <1>0, <2>8, ManagerAssumption DEF Get, TypeOK
    <3> QED
      BY <1>0, <2>8, <3>3, <3>4, <3>5, <3>6 DEF Get, TypeOK
  <2>9. CASE ScanStart(t)
    BY <1>0, <2>9, ManagerAssumption DEF ScanStart, TypeOK, Labels, End
  <2> QED
    BY <1>9, <2>2, <2>4, <2>5, <2>6, <2>7, <2>8, <2>9 DEF Registry
<1>10. ASSUME NEW t \in Threads, Destroyed(t) PROVE Shape'
  <2>0. Erase(t)
    BY <1>10 DEF Destroyed
  <2>1. TypeOK'
    <3>1. pc' \in [Threads -> Labels]
      BY <1>pc, <2>0 DEF Erase, Labels
    <3>2. self' \in [Threads -> 0..MaxId] /\ sessions' \subseteq Ids
      BY <1>max, <1>self, <1>ids, <2>0 DEF Erase
    <3> QED
      BY <1>0, <2>0, <3>1, <3>2 DEF Erase, TypeOK
  <2>2. Members'
    BY <1>0, <1>10 DEF Destroyed, Members, Handlers
  <2> QED
    BY <2>1, <2>2 DEF Shape
<1> QED
  BY <1>1, <1>2, <1>3, <1>4, <1>5, <1>6, <1>7, <1>8, <1>9, <1>10
     DEF ServiceNext, Handling, Connect, Accepted

----------------------------------------------------------------------------
(* Who uses, holds and destroys a session.                                   *)

LEMMA RegistryInit == ServiceInit => RegistryOK
BY DEF ServiceInit, Init, RegistryOK, ThreadOK, PairOK, SessionOK, Makes, Uses, Holds, Erasing,
       At, InFlight, Ids

(* A thread that does nothing, while another one takes or releases a         *)
(* session_ptr.                                                              *)
LEMMA OtherThread ==
  ASSUME NEW u \in Threads, ThreadOK(u), MaxId \in Nat, lastId \in Nat, lastId <= MaxId,
         sessions \subseteq Ids,
         UNCHANGED <<sessions, weak, lastId>>,
         pc'[u] = pc[u], step'[u] = step[u], self'[u] = self[u], iter'[u] = iter[u],
         \A i \in Ids : (u \in refs[i] => u \in refs'[i]) /\ (refs[i] = {} => refs'[i] = {})
  PROVE  ThreadOK(u)'
<1>1. Uses(u)' <=> Uses(u)
  BY DEF Uses
<1>2. (Makes(u)' <=> Makes(u)) /\ (Erasing(u)' <=> Erasing(u))
  BY DEF Makes, Erasing
<1>3. Holds(u)' <=> Holds(u)
  BY <1>1 DEF Holds
<1>4. Makes(u) => self[u] \in Ids
  BY DEF ThreadOK, Makes, Uses, Ids
<1>5. Erasing(u) => self[u] \in Ids
  BY DEF ThreadOK
<1> QED
  BY <1>1, <1>2, <1>3, <1>4, <1>5 DEF ThreadOK, At

LEMMA RegistryInductive == Shape /\ RegistryOK /\ [ServiceNext]_svars => RegistryOK'
<1> SUFFICES ASSUME Shape, RegistryOK, [ServiceNext]_svars PROVE RegistryOK'
  OBVIOUS
<1>pc. pc \in [Threads -> Labels] /\ step \in [Threads -> Steps]
  BY DEF Shape, TypeOK, Members
<1>max. MaxId \in Nat /\ lastId \in Nat /\ lastId <= MaxId
  BY ManagerAssumption DEF Shape, TypeOK
<1>self. self \in [Threads -> 0..MaxId]
  BY DEF Shape, TypeOK
<1>refs. refs \in [Ids -> SUBSET (Threads \cup {Owner})] /\ Owner \notin Threads
  BY OwnerAssumption DEF Shape, TypeOK
<1>ids. sessions \subseteq Ids /\ weak \subseteq Ids
  BY DEF Shape, TypeOK
<1>scan. iter \in [Threads -> 0..End]
  BY DEF Shape, TypeOK
<1>op. op \in [Ids -> {"none", "pending", "ok", "err", "failing", "thrown", "done"}]
  BY DEF Shape, Members
<1>t. \A t \in Threads : ThreadOK(t)
  BY DEF RegistryOK
<1>p. \A t, u \in Threads : t # u => PairOK(t, u)
  BY DEF RegistryOK
<1>s. \A i \in Ids : SessionOK(i)
  BY DEF RegistryOK
<1> USE DEF acceptor, thread, session, set, vars, Go, At, Then, On, Unlocked
<1>1. CASE UNCHANGED svars
  BY <1>1 DEF svars, RegistryOK, ThreadOK, PairOK, SessionOK, Makes, Uses, Holds, Erasing, InFlight
<1>2. CASE Incoming
  BY <1>2 DEF Incoming, RegistryOK, ThreadOK, PairOK, SessionOK, Makes, Uses, Holds, Erasing, InFlight
<1>3. CASE Answer
  <2>1. \A i \in Ids : SessionOK(i)'
    BY <1>3, <1>op, <1>s DEF Answer, SessionOK, InFlight, Uses
  <2> QED
    BY <1>3, <1>t, <1>p, <2>1 DEF Answer, RegistryOK, ThreadOK, PairOK, Makes, Uses, Holds, Erasing
<1>4. ASSUME NEW t \in Threads, Bind(t) \/ Unbind(t) \/ AcceptCompletion(t) \/ Rearm(t)
      PROVE  RegistryOK'
  <2>1. UNCHANGED <<vars, op>> /\ (step' = step \/ \E r \in {"rearm", "create"} : step' = [step EXCEPT ![t] = r])
    BY <1>4 DEF Bind, Unbind, AcceptCompletion, Rearm
  <2>2. pc[t] = "idle" /\ ~Uses(t)
    BY <1>4 DEF Bind, Unbind, AcceptCompletion, Rearm, Uses
  <2>3. \A u \in Threads : Uses(u)' <=> Uses(u)
    BY <1>pc, <2>1, <2>2 DEF Uses
  <2>4. \A u \in Threads : ThreadOK(u)'
    BY <1>pc, <1>t, <2>1, <2>2, <2>3 DEF ThreadOK, Makes, Holds, Erasing
  <2> QED
    BY <1>p, <1>s, <2>1, <2>3, <2>4 DEF RegistryOK, PairOK, SessionOK, Erasing, InFlight
<1>5. ASSUME NEW t \in Threads, NEW o \in {"service", "callback", "accept"}, CreateFor(t, o),
             ~Uses(t)
      PROVE  RegistryOK'
  <2>1. /\ pc[t] = "idle" /\ lastId < MaxId /\ lastId' = lastId + 1 /\ lastId + 1 \in Ids
        /\ pc' = [pc EXCEPT ![t] = "insert"] /\ step' = [step EXCEPT ![t] = "fill"]
        /\ self' = [self EXCEPT ![t] = lastId + 1]
        /\ UNCHANGED <<sessions, weak, refs, iter, op>>
    BY <1>5, <1>max DEF CreateFor, Create, Ids
  <2>2. lastId + 1 \notin weak /\ refs[lastId + 1] = {}
    BY <1>max, <1>s, <2>1 DEF SessionOK
  <2>3. \A u \in Threads : ThreadOK(u)'
    BY <1>pc, <1>max, <1>self, <1>t, <2>1, <2>2 DEF ThreadOK, Makes, Uses, Holds, Erasing
  <2>4. \A u \in Threads : Uses(u) => self[u] # lastId + 1
    BY <1>t, <1>max DEF ThreadOK
  <2>5. \A u, v \in Threads : u # v => PairOK(u, v)'
    BY <1>pc, <1>self, <1>p, <2>1, <2>4 DEF PairOK, Uses, Erasing
  <2>6. \A i \in Ids : SessionOK(i)'
    <3> SUFFICES ASSUME NEW i \in Ids PROVE SessionOK(i)'
      OBVIOUS
    <3>1. i \in Nat
      BY DEF Ids
    <3>2. InFlight(i) => i # lastId + 1
      BY <1>s, <2>2 DEF SessionOK, InFlight
    <3> QED
      BY <1>pc, <1>max, <1>self, <1>s, <2>1, <3>1, <3>2 DEF SessionOK, InFlight, Uses
  <2> QED
    BY <2>3, <2>5, <2>6 DEF RegistryOK
<1>6. ASSUME NEW t \in Threads, Fill(t) \/ AssignHandler(t) PROVE RegistryOK'
  <2>1. UNCHANGED <<vars, op>> /\ \E r \in {"assign", "start"} : step' = [step EXCEPT ![t] = r]
    BY <1>6 DEF Fill, AssignHandler
  <2>2. pc[t] = "idle" /\ Uses(t)
    BY <1>6 DEF Fill, AssignHandler, Uses
  <2>3. \A u \in Threads : Uses(u)' <=> Uses(u)
    BY <1>pc, <2>1, <2>2 DEF Uses
  <2>4. \A u \in Threads : ThreadOK(u)'
    BY <1>pc, <1>t, <2>1, <2>2, <2>3 DEF ThreadOK, Makes, Holds, Erasing
  <2> QED
    BY <1>p, <1>s, <2>1, <2>3, <2>4 DEF RegistryOK, PairOK, SessionOK, Erasing, InFlight
<1>7. ASSUME NEW t \in Threads, StartAccepted(t) PROVE RegistryOK'
  <2>1. /\ UNCHANGED <<sessions, lastId, weak, refs, self, iter, op>> /\ pc[t] = "idle" /\ Uses(t)
        /\ \/ pc' = pc /\ step' = [step EXCEPT ![t] = "connect"]
           \/ pc' = [pc EXCEPT ![t] = "release"] /\ step' = [step EXCEPT ![t] = "idle"]
    BY <1>7 DEF StartAccepted, Enter, Uses
  <2>2. \A u \in Threads : Uses(u)' => Uses(u)
    BY <1>pc, <2>1 DEF Uses
  <2>3. \A u \in Threads : ThreadOK(u)'
    BY <1>pc, <1>self, <1>t, <2>1, <2>2 DEF ThreadOK, Makes, Holds, Erasing, Uses
  <2>4. \A u, v \in Threads : u # v => PairOK(u, v)'
    BY <1>pc, <1>p, <2>1, <2>2 DEF PairOK, Erasing
  <2> QED
    BY <1>s, <2>1, <2>2, <2>3, <2>4 DEF RegistryOK, SessionOK, InFlight
<1>8. ASSUME NEW t \in Threads, StartConnect(t) PROVE RegistryOK'
  <2>1. /\ UNCHANGED <<sessions, lastId, weak, self, iter>> /\ pc[t] = "idle" /\ Uses(t)
        /\ pc' = [pc EXCEPT ![t] = "release"] /\ step' = [step EXCEPT ![t] = "idle"]
        /\ refs' = [refs EXCEPT ![self[t]] = @ \cup {Owner}]
        /\ op' = [op EXCEPT ![self[t]] = "pending"]
    BY <1>8 DEF StartConnect, Uses
  <2>2. self[t] \in Ids /\ t \in refs[self[t]]
    BY <1>t, <2>1 DEF ThreadOK, Holds
  <2>3. \A u \in Threads : Uses(u)' <=> Uses(u) /\ u # t
    BY <1>pc, <2>1 DEF Uses
  <2>4. \A u \in Threads : ThreadOK(u)'
    BY <1>pc, <1>self, <1>refs, <1>t, <2>1, <2>2, <2>3 DEF ThreadOK, Makes, Holds, Erasing
  <2>5. \A u, v \in Threads : u # v => PairOK(u, v)'
    BY <1>pc, <1>p, <2>1, <2>3 DEF PairOK, Erasing
  <2>6. \A u \in Threads : Uses(u) /\ u # t => self[u] # self[t]
    BY <1>p, <2>1 DEF PairOK
  <2>7. \A i \in Ids : SessionOK(i)'
    BY <1>refs, <1>op, <1>s, <2>1, <2>2, <2>3, <2>6 DEF SessionOK, InFlight
  <2> QED
    BY <2>4, <2>5, <2>7 DEF RegistryOK
<1>9. ASSUME NEW t \in Threads, ConnectCompletion(t) PROVE RegistryOK'
  <2>1. PICK i \in Ids :
          /\ self' = [self EXCEPT ![t] = i]
          /\ refs' = [refs EXCEPT ![i] = (@ \ {Owner}) \cup {t}]
          /\ op[i] \in {"ok", "err"} /\ pc[t] = "idle" /\ step[t] = "idle"
          /\ UNCHANGED <<sessions, lastId, weak, iter>>
          /\ \/ /\ pc' = pc
                /\ \E r \in {"connect", "error"} : step' = [step EXCEPT ![t] = r]
                /\ \E r \in {"done", "failing"} : op' = [op EXCEPT ![i] = r]
             \/ /\ pc' = [pc EXCEPT ![t] = "release"] /\ step' = step
                /\ op' = [op EXCEPT ![i] = "thrown"]
    BY <1>9 DEF ConnectCompletion, Enter
  <2>2. Owner \in refs[i] /\ i \in weak /\ i \in sessions /\ i \in 1..lastId /\ \A u \in Threads : Uses(u) => self[u] # i
    BY <1>s, <1>max, <2>1 DEF SessionOK, InFlight, Ids
  <2>3. \A u \in Threads : u # t => (Uses(u)' <=> Uses(u))
    BY <1>pc, <2>1 DEF Uses
  <2>4. \A u \in Threads : ThreadOK(u)'
    <3>1. ThreadOK(t)'
      BY <1>pc, <1>self, <1>refs, <2>1, <2>2 DEF ThreadOK, Makes, Holds, Erasing, Uses
    <3>2. ASSUME NEW u \in Threads, u # t PROVE ThreadOK(u)'
      BY <1>pc, <1>self, <1>refs, <1>t, <2>1, <2>2, <2>3, <3>2 DEF ThreadOK, Makes, Holds, Erasing
    <3> QED
      BY <3>1, <3>2
  <2>5. \A u, v \in Threads : u # v => PairOK(u, v)'
    BY <1>pc, <1>self, <1>p, <2>1, <2>2, <2>3 DEF PairOK, Erasing
  <2>6. \A j \in Ids : SessionOK(j)'
    BY <1>pc, <1>self, <1>refs, <1>op, <1>s, <2>1, <2>2, <2>3 DEF SessionOK, InFlight
  <2> QED
    BY <2>4, <2>5, <2>6 DEF RegistryOK
<1>10. ASSUME NEW t \in Threads, Handling(t) PROVE RegistryOK'
  <2>1. Handled(t)
    BY <1>10, HandlingDoes
  <2>2. pc[t] = "idle" /\ Uses(t) /\ UNCHANGED <<sessions, lastId, weak, self, iter>>
    BY <2>1 DEF Handled, Uses
  <2>3. self[t] \in Ids /\ t \in refs[self[t]]
    BY <1>t, <2>2 DEF ThreadOK, Holds
  <2>4. \/ /\ UNCHANGED <<pc, refs>>
           /\ \E r \in {"except", "error", "again", "close"} : step' = [step EXCEPT ![t] = r]
        \/ /\ step' = [step EXCEPT ![t] = "idle"] /\ pc' = [pc EXCEPT ![t] = "release"]
           /\ \/ refs' = [refs EXCEPT ![self[t]] = @ \cup {t}]
              \/ refs' = [refs EXCEPT ![self[t]] = @ \cup {t, Owner}]
    BY <2>1 DEF Handled
  <2>5. op' = op \/ (op[self[t]] = "failing" /\ op' = [op EXCEPT ![self[t]] = "done"])
    BY <2>1 DEF Handled
  <2>6. \A u \in Threads : Uses(u)' => Uses(u)
    BY <1>pc, <2>2, <2>4 DEF Uses
  <2>7. \A u \in Threads : ThreadOK(u)'
    <3>1. ThreadOK(t)'
      BY <1>pc, <1>self, <1>refs, <1>t, <2>2, <2>3, <2>4 DEF ThreadOK, Makes, Holds, Erasing, Uses
    <3>2. ASSUME NEW u \in Threads, u # t PROVE ThreadOK(u)'
      <4>1. pc'[u] = pc[u] /\ step'[u] = step[u]
        BY <1>pc, <2>4, <3>2
      <4>2. \A i \in Ids : refs[i] \subseteq refs'[i] /\ (refs[i] = {} => refs'[i] = {})
        BY <1>refs, <2>3, <2>4
      <4> QED
        BY <1>max, <1>ids, <1>t, <2>2, <4>1, <4>2, OtherThread
    <3> QED
      BY <3>1, <3>2
  <2>8. \A u, v \in Threads : u # v => PairOK(u, v)'
    BY <1>pc, <1>p, <2>2, <2>4, <2>6 DEF PairOK, Erasing
  <2>9. \A i \in Ids : SessionOK(i)'
    BY <1>refs, <1>op, <1>s, <2>2, <2>3, <2>4, <2>5, <2>6 DEF SessionOK, InFlight
  <2> QED
    BY <2>7, <2>8, <2>9 DEF RegistryOK
<1>11. ASSUME NEW t \in Threads, NEW h \in {t, Owner}, NEW i \in Ids, h \in refs[i],
              NEW l \in {"erase", "erase_scan"}, NEW m \in {"idle", "scan_lock"},
              step[t] = "idle", UNCHANGED <<step, op>>, Unref(t, h, i, l, m),
              \A j \in Ids : InFlight(j) => Owner \in refs'[j],
              Holds(t) => h = t /\ i = self[t], ~Makes(t)
       PROVE  RegistryOK'
  <2>1. /\ refs' = [refs EXCEPT ![i] = @ \ {h}]
        /\ UNCHANGED <<sessions, lastId, weak, iter, step, op>>
        /\ self' = [self EXCEPT ![t] = IF refs'[i] = {} THEN i ELSE 0]
        /\ pc' = [pc EXCEPT ![t] = IF refs'[i] = {} THEN l ELSE m]
    BY <1>11 DEF Unref
  <2>2. i \in sessions \cap weak /\ ~Uses(t)
    BY <1>s, <1>11 DEF SessionOK, Uses
  <2>3. ThreadOK(t)'
    BY <1>pc, <1>self, <1>refs, <1>11, <2>1, <2>2 DEF ThreadOK, Makes, Holds, Erasing, Uses
  <2>4. ASSUME NEW u \in Threads, u # t PROVE ThreadOK(u)'
    <3>1. pc'[u] = pc[u] /\ self'[u] = self[u]
      BY <1>pc, <1>self, <2>1, <2>4
    <3>2. \A j \in Ids : (u \in refs[j] => u \in refs'[j]) /\ (refs[j] = {} => refs'[j] = {})
      BY <1>refs, <1>11, <2>1, <2>4
    <3>3. /\ ThreadOK(u) /\ UNCHANGED <<sessions, weak, lastId>>
          /\ step'[u] = step[u] /\ iter'[u] = iter[u]
      BY <1>t, <2>1
    <3> QED
      BY <1>max, <1>ids, <3>1, <3>2, <3>3, OtherThread
  <2>5. \A u \in Threads : Erasing(u) => self[u] # i
    BY <1>t, <1>11 DEF ThreadOK
  <2>6. \A u, v \in Threads : u # v => PairOK(u, v)'
    BY <1>pc, <1>self, <1>p, <1>11, <2>1, <2>2, <2>5 DEF PairOK, Erasing, Uses
  <2>7. \A j \in Ids : SessionOK(j)'
    BY <1>pc, <1>self, <1>refs, <1>s, <1>11, <2>1, <2>2 DEF SessionOK, InFlight, Uses
  <2> QED
    BY <2>3, <2>4, <2>6, <2>7 DEF RegistryOK
<1>12. ASSUME NEW t \in Threads, Registry(t) PROVE RegistryOK'
  <2>0. UNCHANGED <<step, op>>
    BY <1>12 DEF Registry
  <2>a. (Uses(t) => Makes(t)) /\ (Uses(t) \/ step[t] = "idle")
    BY <1>12, <1>t DEF Registry, Uses, Makes, ThreadOK, Insert, Publish, Release, ScanLock, Scan,
       Visit, ReleaseScan, Get, ScanStart, Drop
  <2>1. CASE Insert(t)
    <3>1. /\ pc[t] = "insert" /\ pc' = [pc EXCEPT ![t] = "publish"]
          /\ sessions' = sessions \cup {self[t]}
          /\ UNCHANGED <<lastId, weak, refs, self, iter, step, op>>
      BY <2>0, <2>1 DEF Insert
    <3>2. self[t] \in 1..lastId /\ self[t] \in Ids
      BY <1>t, <1>max, <3>1 DEF ThreadOK, Makes, Uses, Ids
    <3>3. \A u \in Threads : ThreadOK(u)'
      BY <1>pc, <1>t, <3>1, <3>2 DEF ThreadOK, Makes, Uses, Holds, Erasing
    <3>4. \A u, v \in Threads : u # v => PairOK(u, v)'
      BY <1>pc, <1>p, <3>1 DEF PairOK, Uses, Erasing
    <3>5. \A i \in Ids : SessionOK(i)'
      BY <1>s, <3>1, <3>2 DEF SessionOK, InFlight, Uses
    <3> QED
      BY <3>3, <3>4, <3>5 DEF RegistryOK
  <2>2. CASE Publish(t, t)
    <3>1. /\ pc[t] = "publish" /\ pc' = [pc EXCEPT ![t] = "idle"]
          /\ weak' = weak \cup {self[t]} /\ refs' = [refs EXCEPT ![self[t]] = {t}]
          /\ UNCHANGED <<lastId, sessions, self, iter, step, op>>
      BY <2>0, <2>2 DEF Publish
    <3>2. Uses(t) /\ self[t] \in 1..lastId /\ self[t] \in Ids /\ refs[self[t]] = {}
          /\ self[t] \notin weak /\ self[t] \in sessions
      BY <1>t, <1>max, <3>1 DEF ThreadOK, Makes, Uses, Ids
    <3>3. ThreadOK(t)'
      BY <1>pc, <1>refs, <1>t, <3>1, <3>2 DEF ThreadOK, Makes, Uses, Holds, Erasing
    <3>4. ASSUME NEW u \in Threads, u # t PROVE ThreadOK(u)'
      <4>1. pc'[u] = pc[u] /\ (Uses(u) => self[u] # self[t])
        BY <1>pc, <1>p, <3>1, <3>2, <3>4 DEF PairOK
      <4>2. \A i \in Ids : u \in refs[i] => u \in refs'[i]
        BY <1>refs, <3>1, <3>2
      <4>3. \A i \in Ids : i # self[t] => refs'[i] = refs[i] /\ (i \in weak' <=> i \in weak)
        BY <1>refs, <3>1, <3>2
      <4>4. Makes(u) => Uses(u) /\ self[u] \in Ids
        BY <1>max, <1>t DEF ThreadOK, Makes, Uses, Ids
      <4>5. Erasing(u) => self[u] \in Ids /\ self[u] # self[t]
        BY <1>ids, <1>t, <3>2 DEF ThreadOK
      <4> QED
        BY <1>t, <3>1, <4>1, <4>2, <4>3, <4>4, <4>5 DEF ThreadOK, Makes, Uses, Holds, Erasing
    <3>5. \A u, v \in Threads : u # v => PairOK(u, v)'
      BY <1>pc, <1>p, <3>1 DEF PairOK, Uses, Erasing
    <3>6. \A i \in Ids : SessionOK(i)'
      BY <1>refs, <1>s, <3>1, <3>2 DEF SessionOK, InFlight, Uses
    <3> QED
      BY <3>3, <3>4, <3>5, <3>6 DEF RegistryOK
  <2>3. CASE Release(t) \/ ReleaseScan(t)
    <3>1. Holds(t) /\ step[t] = "idle" /\ ~Makes(t) /\ self[t] \in Ids /\ t \in refs[self[t]]
      BY <1>t, <2>a, <2>3 DEF Release, ReleaseScan, ThreadOK, Holds, Makes
    <3>2. PICK l \in {"erase", "erase_scan"}, m \in {"idle", "scan_lock"} : Unref(t, t, self[t], l, m)
      BY <2>3 DEF Release, ReleaseScan
    <3>3. refs' = [refs EXCEPT ![self[t]] = @ \ {t}]
      BY <3>2 DEF Unref
    <3>4. \A j \in Ids : InFlight(j) => Owner \in refs'[j]
      BY <1>refs, <1>s, <3>3 DEF SessionOK
    <3> QED
      BY <1>11, <2>0, <3>1, <3>2, <3>4
  <2>4. CASE Drop(t) /\ \A i \in Ids : InFlight(i) => Owner \in refs'[i]
    <3>1. pc[t] = "idle" /\ ~Makes(t) /\ ~Holds(t) /\ step[t] = "idle"
      BY <2>a, <2>4 DEF Drop, Makes, Holds, Uses
    <3>2. PICK i \in Ids : Owner \in refs[i] /\ Unref(t, Owner, i, "erase", "idle")
      BY <2>4 DEF Drop
    <3> QED
      BY <1>11, <2>0, <2>4, <3>1, <3>2
  <2>5. CASE ScanLock(t)
    <3> DEFINE m == Min({i \in sessions : i > iter[t]} \cup {End})
    <3>1. m # 0 /\ iter' = [iter EXCEPT ![t] = m]
      BY <2>5, NextPosition, <1>max DEF ScanLock, End
    <3>2. /\ pc[t] = "scan_lock" /\ pc' = [pc EXCEPT ![t] = "scan"]
          /\ UNCHANGED <<sessions, lastId, weak, refs, self, step, op>>
      BY <2>0, <2>5 DEF ScanLock
    <3> HIDE DEF m
    <3>3. \A u \in Threads : ThreadOK(u)'
      BY <1>pc, <1>scan, <1>t, <3>1, <3>2 DEF ThreadOK, Makes, Uses, Holds, Erasing
    <3> QED
      BY <1>pc, <1>p, <1>s, <3>2, <3>3 DEF RegistryOK, PairOK, SessionOK, InFlight, Uses, Erasing
  <2>6. CASE ScanStart(t)
    <3>1. /\ pc[t] = "idle" /\ pc' = [pc EXCEPT ![t] = "scan_lock"]
          /\ iter' = [iter EXCEPT ![t] = 0]
          /\ UNCHANGED <<sessions, lastId, weak, refs, self, step, op>>
      BY <2>0, <2>6 DEF ScanStart
    <3>2. ~Uses(t)
      BY <2>a, <3>1 DEF Makes
    <3>3. \A u \in Threads : ThreadOK(u)'
      BY <1>pc, <1>scan, <1>t, <2>a, <3>1, <3>2 DEF ThreadOK, Makes, Uses, Holds, Erasing
    <3> QED
      BY <1>pc, <1>p, <1>s, <3>1, <3>3 DEF RegistryOK, PairOK, SessionOK, InFlight, Uses, Erasing
  <2>7. CASE Scan(t)
    <3>1. /\ pc[t] = "scan" /\ UNCHANGED <<sessions, lastId, weak, self, step, op>>
          /\ \/ /\ pc' = [pc EXCEPT ![t] = "idle"] /\ refs' = refs
                /\ iter' = [iter EXCEPT ![t] = 0]
             \/ /\ pc' = [pc EXCEPT ![t] = "visit"] /\ iter' = iter /\ iter[t] # End
                /\ Usable(iter[t]) /\ refs' = [refs EXCEPT ![iter[t]] = @ \cup {t}]
      BY <2>0, <2>7 DEF Scan, Over, GoesOn
    <3>2. step[t] = "idle"
      BY <1>t, <3>1 DEF ThreadOK, Makes
    <3>3. iter[t] # End => iter[t] \in Ids
      BY <1>max, <1>t, <1>scan, <3>1 DEF ThreadOK, Ids, End
    <3>4. ThreadOK(t)'
      BY <1>pc, <1>refs, <1>scan, <3>1, <3>2, <3>3 DEF ThreadOK, Makes, Uses, Holds, Erasing
    <3>5. ASSUME NEW u \in Threads, u # t PROVE ThreadOK(u)'
      <4>1. pc'[u] = pc[u] /\ iter'[u] = iter[u]
        BY <1>pc, <1>scan, <3>1, <3>5
      <4>2. \A i \in Ids : (u \in refs[i] => u \in refs'[i]) /\ (refs[i] = {} => refs'[i] = {})
        BY <1>refs, <3>1, <3>3 DEF Usable
      <4> QED
        BY <1>max, <1>ids, <1>t, <3>1, <4>1, <4>2, OtherThread
    <3>6. \A u, v \in Threads : u # v => PairOK(u, v)'
      BY <1>pc, <1>p, <3>1 DEF PairOK, Uses, Erasing
    <3>7. \A i \in Ids : SessionOK(i)'
      BY <1>refs, <1>s, <3>1, <3>3 DEF SessionOK, InFlight, Uses, Usable
    <3> QED
      BY <3>4, <3>5, <3>6, <3>7 DEF RegistryOK
  <2>8. CASE Visit(t)
    <3>1. /\ pc[t] = "visit" /\ self' = [self EXCEPT ![t] = iter[t]]
          /\ UNCHANGED <<sessions, lastId, weak, refs, step, op>>
          /\ \E l \in {"release", "release_scan"} : pc' = [pc EXCEPT ![t] = l]
          /\ iter' = iter \/ iter' = [iter EXCEPT ![t] = 0]
      BY <2>0, <2>8 DEF Visit, Over
    <3>2. step[t] = "idle" /\ iter[t] \in Ids /\ t \in refs[iter[t]]
      BY <1>t, <3>1 DEF ThreadOK, Makes
    <3>3. \A u \in Threads : ThreadOK(u)'
      BY <1>pc, <1>self, <1>scan, <1>t, <3>1, <3>2 DEF ThreadOK, Makes, Uses, Holds, Erasing
    <3>4. \A u, v \in Threads : u # v => PairOK(u, v)'
      BY <1>pc, <1>self, <1>p, <3>1, <3>2 DEF PairOK, Uses, Erasing
    <3>5. \A i \in Ids : SessionOK(i)'
      BY <1>self, <1>s, <3>1, <3>2 DEF SessionOK, InFlight, Uses
    <3> QED
      BY <3>3, <3>4, <3>5 DEF RegistryOK
  <2>9. CASE Get(t)
    <3>1. PICK i \in sessions :
            IF Usable(i)
              THEN /\ refs' = [refs EXCEPT ![i] = @ \cup {t}] /\ self' = [self EXCEPT ![t] = i]
                   /\ pc' = [pc EXCEPT ![t] = "release"]
              ELSE UNCHANGED <<refs, self, pc>>
      BY <2>9 DEF Get
    <3>2. pc[t] = "idle" /\ UNCHANGED <<sessions, lastId, weak, iter, step, op>> /\ ~Uses(t)
      BY <2>0, <2>a, <2>9 DEF Get, Makes
    <3>3. CASE ~Usable(i)
      BY <1>t, <1>p, <1>s, <3>1, <3>2, <3>3
         DEF RegistryOK, ThreadOK, PairOK, SessionOK, InFlight, Makes, Uses, Holds, Erasing
    <3>4. CASE Usable(i)
      <4>1. /\ i \in Ids /\ refs[i] # {} /\ refs' = [refs EXCEPT ![i] = @ \cup {t}]
            /\ self' = [self EXCEPT ![t] = i] /\ pc' = [pc EXCEPT ![t] = "release"]
        BY <1>ids, <3>1, <3>4 DEF Usable
      <4>2. ThreadOK(t)'
        BY <1>pc, <1>self, <1>refs, <2>a, <3>2, <4>1 DEF ThreadOK, Makes, Uses, Holds, Erasing
      <4>3. ASSUME NEW u \in Threads, u # t PROVE ThreadOK(u)'
        <5>1. pc'[u] = pc[u] /\ self'[u] = self[u]
          BY <1>pc, <1>self, <4>1, <4>3
        <5>2. \A j \in Ids : (u \in refs[j] => u \in refs'[j]) /\ (refs[j] = {} => refs'[j] = {})
          BY <1>refs, <4>1
        <5> QED
          BY <1>max, <1>ids, <1>t, <3>2, <5>1, <5>2, OtherThread
      <4>4. \A u, v \in Threads : u # v => PairOK(u, v)'
        BY <1>pc, <1>self, <1>p, <3>2, <4>1 DEF PairOK, Uses, Erasing
      <4>5. \A j \in Ids : SessionOK(j)'
        BY <1>self, <1>refs, <1>s, <3>2, <4>1 DEF SessionOK, InFlight, Uses
      <4> QED
        BY <4>2, <4>3, <4>4, <4>5 DEF RegistryOK
    <3> QED
      BY <3>3, <3>4
  <2> QED
    BY <1>12, <2>1, <2>2, <2>3, <2>4, <2>5, <2>6, <2>7, <2>8, <2>9 DEF Registry
<1>13. ASSUME NEW t \in Threads, Destroyed(t) PROVE RegistryOK'
  <2>1. /\ Erasing(t) /\ sessions' = sessions \ {self[t]} /\ self' = [self EXCEPT ![t] = 0]
        /\ \E l \in {"idle", "scan_lock"} : pc' = [pc EXCEPT ![t] = l]
        /\ UNCHANGED <<lastId, weak, refs, iter, step>>
        /\ op' = [op EXCEPT ![self[t]] = "none"]
    BY <1>13 DEF Destroyed, Erase, Erasing
  <2>2. /\ step[t] = "idle" /\ self[t] \in Ids /\ self[t] \in sessions \cap weak
        /\ refs[self[t]] = {}
    BY <1>ids, <1>t, <2>1 DEF ThreadOK, Erasing, Makes
  <2>3. ThreadOK(t)'
    BY <1>pc, <1>self, <2>1, <2>2 DEF ThreadOK, Makes, Uses, Holds, Erasing
  <2>4. ASSUME NEW u \in Threads, u # t PROVE ThreadOK(u)'
    <3>1. pc'[u] = pc[u] /\ self'[u] = self[u]
      BY <1>pc, <1>self, <2>1, <2>4
    <3>2. pc[u] = "publish" \/ Erasing(u) => self[u] # self[t]
      BY <1>t, <1>p, <2>1, <2>2, <2>4 DEF ThreadOK, PairOK, Makes
    <3> QED
      BY <1>t, <2>1, <3>1, <3>2 DEF ThreadOK, Makes, Uses, Holds, Erasing
  <2>5. \A u, v \in Threads : u # v => PairOK(u, v)'
    BY <1>pc, <1>self, <1>p, <2>1, <2>2 DEF PairOK, Uses, Erasing
  <2>6. \A i \in Ids : SessionOK(i)'
    BY <1>self, <1>op, <1>s, <2>1, <2>2 DEF SessionOK, InFlight, Uses
  <2> QED
    BY <2>3, <2>4, <2>5, <2>6 DEF RegistryOK
<1> QED
  <2>1. ASSUME NEW t \in Threads, Connect(t) \/ Accepted(t) PROVE RegistryOK'
    BY <1>5, <2>1 DEF Connect, Accepted, Uses
  <2> QED
    BY <1>1, <1>2, <1>3, <1>4, <1>6, <1>7, <1>8, <1>9, <1>10, <1>12, <1>13, <2>1
       DEF ServiceNext, Handling

LEMMA RegistryInvariant == ServiceSpec => [](Shape /\ RegistryOK)
<1>1. ServiceInit => Shape /\ RegistryOK
  BY ShapeInit, RegistryInit
<1>2. Shape /\ RegistryOK /\ [ServiceNext]_svars => (Shape /\ RegistryOK)'
  BY ShapeInductive, RegistryInductive
<1> QED
  BY <1>1, <1>2, PTL DEF ServiceSpec

(* Whoever holds a session_ptr can find the session in the registry, so the  *)
(* iterator of ~session() is valid; one thread destroys a session, once, and *)
(* after it nobody holds it (session_manager and the session_ptrs).          *)
THEOREM HolderFindsSession == ServiceSpec => []HeldIsRegistered
<1>1. Shape /\ RegistryOK => HeldIsRegistered
  <2> SUFFICES ASSUME Shape, RegistryOK PROVE HeldIsRegistered
    OBVIOUS
  <2>1. \A i \in Ids : refs[i] # {} => i \in sessions
    BY DEF RegistryOK, SessionOK
  <2>2. ASSUME NEW t \in Threads, Erasing(t)
        PROVE  /\ self[t] \in sessions /\ refs[self[t]] = {}
               /\ \A u \in Threads \ {t} : Erasing(u) => self[u] # self[t]
    BY <2>2 DEF RegistryOK, ThreadOK, PairOK
  <2> QED
    BY <2>1, <2>2 DEF HeldIsRegistered
<1> QED
  BY <1>1, RegistryInvariant, PTL

(* What a step does to the session_ptrs: they are given to a session that is *)
(* published, shared, or released.                                           *)
LEMMA RefsMove ==
  ASSUME Shape, RegistryOK, [ServiceNext]_svars
  PROVE  \A i \in weak : refs[i] = {} => refs'[i] = {}
<1> SUFFICES ASSUME NEW i \in weak, refs[i] = {} PROVE refs'[i] = {}
  OBVIOUS
<1>refs. refs \in [Ids -> SUBSET (Threads \cup {Owner})] /\ i \in Ids
  BY DEF Shape, TypeOK
<1>t. \A t \in Threads : ThreadOK(t)
  BY DEF RegistryOK
<1>s. \A j \in Ids : SessionOK(j)
  BY DEF RegistryOK
<1> USE DEF acceptor, thread, session, set, vars, Go, At, Then, On, Unlocked
<1>1. CASE refs' = refs
  BY <1>1
<1>2. ASSUME NEW t \in Threads, NEW T, t \in refs[self[t]], refs' = [refs EXCEPT ![self[t]] = @ \cup T]
      PROVE  refs'[i] = {}
  BY <1>refs, <1>2
<1>3. ASSUME NEW t \in Threads, StartConnect(t) PROVE refs'[i] = {}
  <2>1. Holds(t) /\ refs' = [refs EXCEPT ![self[t]] = @ \cup {Owner}]
    BY <1>3 DEF StartConnect, Holds, Uses
  <2> QED
    BY <1>2, <1>t, <2>1 DEF ThreadOK
<1>4. ASSUME NEW t \in Threads, ConnectCompletion(t) PROVE refs'[i] = {}
  <2>1. PICK j \in Ids : InFlight(j) /\ refs' = [refs EXCEPT ![j] = (@ \ {Owner}) \cup {t}]
    BY <1>4 DEF ConnectCompletion, InFlight
  <2>2. j # i
    BY <1>refs, <1>s, <2>1 DEF SessionOK
  <2> QED
    BY <1>refs, <2>1, <2>2
<1>5. ASSUME NEW t \in Threads, Handling(t) PROVE refs'[i] = {}
  <2>1. /\ Holds(t)
        /\ \/ refs' = refs
           \/ \E T \in {{t}, {t, Owner}} : refs' = [refs EXCEPT ![self[t]] = @ \cup T]
    BY <1>5, HandlingDoes DEF Handled, Holds, Uses
  <2> QED
    BY <1>2, <1>t, <2>1 DEF ThreadOK
<1>6. ASSUME NEW t \in Threads, Registry(t) PROVE refs'[i] = {}
  <2>1. CASE Publish(t, t)
    <3>1. refs' = [refs EXCEPT ![self[t]] = {t}] /\ Makes(t)
      BY <2>1 DEF Publish, Makes
    <3>2. self[t] # i
      BY <1>t, <3>1 DEF ThreadOK
    <3> QED
      BY <1>refs, <3>1, <3>2
  <2>2. CASE Release(t) \/ ReleaseScan(t) \/ Drop(t)
    <3>1. \E j, h : refs' = [refs EXCEPT ![j] = @ \ {h}]
      BY <2>2 DEF Release, ReleaseScan, Drop, Unref
    <3> QED
      BY <1>refs, <3>1
  <2>3. CASE Get(t) \/ Scan(t)
    <3>1. refs' = refs \/ \E j : Usable(j) /\ refs' = [refs EXCEPT ![j] = @ \cup {t}]
      BY <2>3 DEF Get, Scan
    <3> QED
      BY <1>refs, <3>1 DEF Usable
  <2>4. CASE Insert(t) \/ ScanLock(t) \/ ScanStart(t) \/ Visit(t)
    BY <1>1, <2>4 DEF Insert, ScanLock, ScanStart, Visit
  <2> QED
    BY <1>6, <2>1, <2>2, <2>3, <2>4 DEF Registry
<1>7. CASE UNCHANGED svars \/ Incoming \/ Answer
  BY <1>1, <1>7 DEF svars, Incoming, Answer
<1>8. ASSUME NEW t \in Threads,
             \/ Destroyed(t) \/ Bind(t) \/ Unbind(t) \/ AcceptCompletion(t) \/ Rearm(t)
             \/ Connect(t) \/ Accepted(t) \/ Fill(t) \/ AssignHandler(t) \/ StartAccepted(t)
      PROVE  refs'[i] = {}
  BY <1>1, <1>8 DEF Destroyed, Erase, Bind, Unbind, AcceptCompletion, Rearm, Connect, Accepted,
     CreateFor, Create, Fill, AssignHandler, StartAccepted
<1> QED
  BY <1>3, <1>4, <1>5, <1>6, <1>7, <1>8 DEF ServiceNext, Handling

(* A session whose last session_ptr is gone is never handed out again: what  *)
(* shared_from_this() checks, and the lock of get() and foreach(), are       *)
(* enough.                                                                   *)
THEOREM GoneForGood == ServiceSpec => NoResurrection
<1>1. Shape /\ RegistryOK /\ [ServiceNext]_svars
        => [\A i \in weak : refs[i] = {} => refs'[i] = {}]_vars
  BY RefsMove
<1> QED
  BY <1>1, RegistryInvariant, PTL DEF ServiceSpec, NoResurrection

----------------------------------------------------------------------------
(* The acceptor.                                                             *)

LEMMA ListenInductive ==
  Shape /\ AcceptorListens /\ ListenOK /\ [ServiceNext]_svars => (AcceptorListens /\ ListenOK)'
<1> SUFFICES ASSUME Shape, AcceptorListens, ListenOK, [ServiceNext]_svars
             PROVE  (AcceptorListens /\ ListenOK)'
  OBVIOUS
<1>step. step \in [Threads -> Steps] /\ accept \in {"none", "pending", "ok", "err"}
  BY DEF Shape, Members
<1> USE DEF acceptor, thread, session, set, vars, Go, At, Then, On, Unlocked
<1> DEFINE Rearms(u) == step[u] = "rearm"
<1>1. ASSUME UNCHANGED acceptor, \A u \in Threads : Rearms(u)' <=> Rearms(u)
      PROVE  (AcceptorListens /\ ListenOK)'
  BY <1>1 DEF AcceptorListens, ListenOK
<1>2. CASE Incoming
  BY <1>2 DEF Incoming, AcceptorListens, ListenOK
<1>3. ASSUME NEW t \in Threads, Bind(t) PROVE (AcceptorListens /\ ListenOK)'
  BY <1>3, <1>step DEF Bind, AcceptorListens, ListenOK
<1>4. ASSUME NEW t \in Threads, Unbind(t) PROVE (AcceptorListens /\ ListenOK)'
  BY <1>4, <1>step DEF Unbind, AcceptorListens, ListenOK
<1>5. ASSUME NEW t \in Threads, AcceptCompletion(t) PROVE (AcceptorListens /\ ListenOK)'
  BY <1>5, <1>step DEF AcceptCompletion, AcceptorListens, ListenOK
<1>6. ASSUME NEW t \in Threads, Rearm(t) PROVE (AcceptorListens /\ ListenOK)'
  BY <1>6, <1>step DEF Rearm, AcceptorListens, ListenOK
<1>7. ASSUME NEW t \in Threads, NEW r \in Steps \ {"rearm"}, ~Rearms(t), UNCHANGED acceptor,
             step' = [step EXCEPT ![t] = r]
      PROVE  (AcceptorListens /\ ListenOK)'
  BY <1>1, <1>7, <1>step
<1>8. ASSUME NEW t \in Threads,
             \/ Connect(t) \/ Accepted(t) \/ Fill(t) \/ AssignHandler(t) \/ StartConnect(t)
             \/ ConnectCompletion(t) \/ StartAccepted(t) \/ Handling(t)
      PROVE  (AcceptorListens /\ ListenOK)'
  <2>1. /\ UNCHANGED acceptor /\ ~Rearms(t)
        /\ step' = step \/ \E r \in Steps \ {"rearm"} : step' = [step EXCEPT ![t] = r]
    <3>1. CASE Handling(t)
      BY <3>1, HandlingDoes DEF Handled, Steps
    <3>2. CASE ~Handling(t)
      BY <1>8, <3>2 DEF Connect, Accepted, CreateFor, Fill, AssignHandler, StartConnect,
         ConnectCompletion, StartAccepted, Enter, Steps
    <3> QED
      BY <3>1, <3>2
  <2> QED
    BY <1>1, <1>7, <2>1
<1>9. CASE UNCHANGED svars \/ Answer \/ \E t \in Threads : Registry(t) \/ Destroyed(t)
  BY <1>1, <1>9 DEF svars, Answer, Registry, Destroyed
<1> QED
  BY <1>2, <1>3, <1>4, <1>5, <1>6, <1>8, <1>9 DEF ServiceNext, Handling

(* Once bind() has returned and until an accept fails, one accept is         *)
(* outstanding, or one thread is about to start it (acceptor::accept).       *)
THEOREM AlwaysAccepts == ServiceSpec => []AcceptorListens
<1>1. ServiceInit => AcceptorListens /\ ListenOK
  BY DEF ServiceInit, AcceptorListens, ListenOK
<1> QED
  BY <1>1, ListenInductive, RegistryInvariant, PTL DEF ServiceSpec
=============================================================================
