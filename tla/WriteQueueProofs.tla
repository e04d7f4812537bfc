-------------------------- MODULE WriteQueueProofs --------------------------
(***************************************************************************)
(* Theorems about WriteQueue, for any threads, nodes and bounds: its types,*)
(* the single user of the marked list, every node in one place, batches in *)
(* order, and that the manager of nodes implements OutQueue.               *)
(***************************************************************************)
EXTENDS WriteQueue, FiniteSetTheorems, SequenceTheorems, TLAPS

----------------------------------------------------------------------------
(* Types, and who may use the marked list.                                   *)

(* t got the positive marker, or is clearing the list.                       *)
Clears(t) == pc[t] \in {"clear", "release"}
Uses(t)   == Clears(t) \/ (pc[t] = "decide" /\ ret[t] > 0)

(* The marked list has one user while it holds anything: a thread, or the    *)
(* write it started. Only the thread inside mark() may fill it.              *)
UserOK ==
  /\ \A t \in Threads : pc[t] = "swap" <=> gate = t
  /\ gate # NoThread => marked = <<>>
  /\ marked # <<>> => marker > 0
  /\ marked # <<>> /\ flight = "none" => \E t \in Threads : Uses(t)
  /\ \A t \in Threads : Uses(t) => /\ flight = "none" /\ marked # <<>>
                                   /\ \A u \in Threads : Uses(u) => u = t
  /\ flight # "none" => marked # <<>>

(* How far the write, or clear_marked(), has gone through the marked list.   *)
ProgressOK ==
  /\ flight = "none" => sent = 0
  /\ flight = "sending" => sent < Len(marked)
  /\ flight = "done" => sent = Len(marked)
  /\ cleared # 0 => \E t \in Threads : Clears(t)
  /\ \A t \in Threads : pc[t] = "release" => cleared < Len(marked)

(* manage() holds one node for every buffer it has copied.                   *)
LengthOK ==
  \A t \in Threads :
    /\ pc[t] \in {"hold", "malloc"} => Len(held[t]) < Len(batch[t])
    /\ pc[t] = "fill" => Len(held[t]) \in 1..Len(batch[t])
    /\ pc[t] = "splice" => Len(held[t]) = Len(batch[t])
    /\ pc[t] \notin {"hold", "malloc", "fill", "splice"} => held[t] = <<>>

(* Labels at which a thread has nothing to do with the marked list.          *)
Aside == {"idle", "hold", "malloc", "fill", "splice", "mark"}

LEMMA UserAside ==
  ASSUME UserOK, ProgressOK, NEW t \in Threads, pc \in [Threads -> Labels],
         pc[t] \in Aside, NEW l \in Aside, Go(t, l),
         UNCHANGED <<marked, cleared, gate, marker, ret, flight, sent>>
  PROVE  UserOK' /\ ProgressOK'
<1>1. \A u \in Threads : pc'[u] = IF u = t THEN l ELSE pc[u]
  BY DEF Go
<1>2. \A u \in Threads : Clears(u)' <=> Clears(u)
  BY <1>1 DEF Clears, Aside
<1>3. \A u \in Threads : Uses(u)' <=> Uses(u)
  BY <1>1, <1>2 DEF Uses, Aside
<1>4. \A u \in Threads : /\ pc'[u] = "swap" <=> pc[u] = "swap"
                         /\ pc'[u] = "release" <=> pc[u] = "release"
  BY <1>1 DEF Aside
<1>5. UserOK'
  BY <1>3, <1>4 DEF UserOK
<1>6. ProgressOK'
  BY <1>2, <1>4 DEF ProgressOK
<1> QED
  BY <1>5, <1>6

Control == TypeOK /\ UserOK /\ ProgressOK /\ LengthOK

(* What the steps of manage() and of mark() do to the held nodes.            *)
LEMMA LengthStep ==
  ASSUME LengthOK, NEW t \in Threads, pc \in [Threads -> Labels], NEW l \in Labels, Go(t, l),
         \A u \in Threads \ {t} : held'[u] = held[u] /\ batch'[u] = batch[u],
         /\ l \in {"hold", "malloc"} => Len(held'[t]) < Len(batch'[t])
         /\ l = "fill" => Len(held'[t]) \in 1..Len(batch'[t])
         /\ l = "splice" => Len(held'[t]) = Len(batch'[t])
         /\ l \notin {"hold", "malloc", "fill", "splice"} => held'[t] = <<>>
  PROVE  LengthOK'
<1>1. \A u \in Threads : pc'[u] = IF u = t THEN l ELSE pc[u]
  BY DEF Go
<1> QED
  BY <1>1 DEF LengthOK

LEMMA InitControl == Init => Control
<1> SUFFICES ASSUME Init PROVE Control
  OBVIOUS
<1>1. cached = SetToSeq(Cached) /\ cached \in Seq(Cached)
  <2>1. IsFiniteSet(Cached) /\ Cardinality(Cached) \in Nat
    BY QueueAssumption, FS_CardinalityType
  <2>2. PICK f \in [1..Cardinality(Cached) -> Cached] : IsInjective(f)
    BY <2>1, FS_CardinalityType DEF ExistsBijection, Bijection, Injection
  <2>3. SetToSeq(Cached) \in [1..Cardinality(Cached) -> Cached]
    BY <2>2 DEF SetToSeq
  <2>4. SetToSeq(Cached) \in Seq(Cached)
    BY <2>1, <2>3
  <2> QED
    BY <2>4 DEF Init
<1>2. 0 \in -MaxMarker..MaxMarker /\ 0 \in 0..MaxMarker /\ 0 \in 0..MaxCalls
  BY QueueAssumption
<1>3. TypeOK
  BY <1>1, <1>2, QueueAssumption DEF Init, TypeOK, Labels, Nodes, Items, Empty
<1>4. UserOK
  BY QueueAssumption DEF Init, UserOK, Uses, Clears
<1>5. ProgressOK /\ LengthOK
  BY DEF Init, ProgressOK, LengthOK
<1> QED
  BY <1>3, <1>4, <1>5 DEF Control

LEMMA SeqElement ==
  ASSUME NEW S, NEW s \in Seq(S), NEW i \in 1..Len(s)
  PROVE  s[i] \in S
BY ElementOfSeq

LEMMA ManageControl ==
  ASSUME Control, NEW t \in Threads, Manage(t)
  PROVE  Control'
<1>0. TypeOK /\ UserOK /\ ProgressOK /\ LengthOK
  BY DEF Control
<1>1. /\ pc \in [Threads -> Labels] /\ pc[t] = "idle" /\ calls \in 0..MaxCalls
      /\ batch \in [Threads -> Seq(Items)] /\ held \in [Threads -> Seq(Nodes)]
      /\ MaxCalls \in Nat
  BY <1>0, QueueAssumption DEF Manage, At, TypeOK
<1>2. PICK n \in 0..MaxBatch :
        /\ batch' = [batch EXCEPT ![t] = [i \in 1..n |-> <<calls + 1, i>>]]
        /\ Go(t, IF n = 0 THEN "splice" ELSE "hold")
  BY DEF Manage
<1>3. /\ calls < MaxCalls /\ calls' = calls + 1
      /\ held' = [held EXCEPT ![t] = <<>>]
      /\ UNCHANGED <<cached, free, managed, marked, cleared, contents, gate, marker, ret,
                     flight, sent, log, order>>
  BY DEF Manage, lists, marks, write
<1>4. n \in Nat /\ calls + 1 \in 1..MaxCalls
  BY <1>1, <1>3, QueueAssumption
<1>5. [i \in 1..n |-> <<calls + 1, i>>] \in Seq(Items) /\ Len([i \in 1..n |-> <<calls + 1, i>>]) = n
  <2>1. \A i \in 1..n : i \in 1..MaxBatch
    BY <1>4, QueueAssumption
  <2>2. \A i \in 1..n : <<calls + 1, i>> \in Items
    BY <1>4, <2>1 DEF Items
  <2> QED
    BY <1>4, <2>2
<1>6. /\ batch' \in [Threads -> Seq(Items)] /\ held' \in [Threads -> Seq(Nodes)]
      /\ batch'[t] = [i \in 1..n |-> <<calls + 1, i>>] /\ held'[t] = <<>>
      /\ \A u \in Threads \ {t} : held'[u] = held[u] /\ batch'[u] = batch[u]
  BY <1>1, <1>2, <1>3, <1>5
<1>7. PICK l \in {"splice", "hold"} : Go(t, l) /\ (l = "splice" <=> n = 0)
  BY <1>2
<1>8. pc' \in [Threads -> Labels] /\ calls' \in 0..MaxCalls
  BY <1>1, <1>3, <1>4, <1>7 DEF Go, Labels
<1>9. TypeOK'
  BY <1>0, <1>3, <1>6, <1>8 DEF TypeOK
<1>10. UserOK' /\ ProgressOK'
  BY <1>0, <1>1, <1>3, <1>7, UserAside DEF Aside
<1>11. LengthOK'
  <2>1. Len(held'[t]) = 0 /\ Len(batch'[t]) = n
    BY <1>5, <1>6
  <2>2. /\ l \in Labels /\ l \notin {"malloc", "fill"}
        /\ l \in {"hold", "splice"} /\ Go(t, l)
    BY <1>7 DEF Labels
  <2>3. /\ l \in {"hold", "malloc"} => Len(held'[t]) < Len(batch'[t])
        /\ l = "splice" => Len(held'[t]) = Len(batch'[t])
    BY <1>4, <1>7, <2>1, <2>2
  <2> QED
    BY <1>0, <1>1, <1>6, <2>2, <2>3, LengthStep
<1> QED
  BY <1>9, <1>10, <1>11 DEF Control

LEMMA HoldControl ==
  ASSUME Control, NEW t \in Threads, HoldCached(t) \/ HoldPool(t)
  PROVE  Control'
<1>0. TypeOK /\ UserOK /\ ProgressOK /\ LengthOK
  BY DEF Control
<1>1. /\ pc \in [Threads -> Labels] /\ pc[t] \in {"hold", "malloc"}
      /\ batch \in [Threads -> Seq(Items)] /\ held \in [Threads -> Seq(Nodes)]
      /\ cached \in Seq(Cached) /\ free \in SUBSET Pool
  BY <1>0 DEF HoldCached, HoldPool, At, TypeOK
<1>2. UNCHANGED <<managed, marked, cleared, contents, gate, marker, ret, batch,
                  flight, sent, log, calls, order>>
  BY DEF HoldCached, HoldPool, Take, marks, write, hold
<1>3. \/ /\ cached = <<>> /\ Go(t, "malloc") /\ UNCHANGED <<cached, free, held>>
      \/ \E n \in Nodes : /\ Go(t, "fill") /\ held' = [held EXCEPT ![t] = Append(@, n)]
                          /\ cached' \in Seq(Cached) /\ free' \in SUBSET Pool
  <2>1. CASE HoldCached(t) /\ cached = <<>>
    BY <2>1 DEF HoldCached, hold
  <2>2. CASE HoldCached(t) /\ cached # <<>>
    <3>1. Head(cached) \in Nodes /\ Tail(cached) \in Seq(Cached)
      BY <1>1, <2>2, HeadTailProperties DEF Nodes
    <3> QED
      BY <1>1, <2>2, <3>1 DEF HoldCached, Take
  <2>3. CASE HoldPool(t)
    BY <1>1, <2>3 DEF HoldPool, Take, Nodes
  <2> QED
    BY <2>1, <2>2, <2>3
<1>4. CASE /\ cached = <<>> /\ Go(t, "malloc") /\ UNCHANGED <<cached, free, held>>
  <2>1. pc' \in [Threads -> Labels]
    BY <1>1, <1>4 DEF Go, Labels
  <2>2. TypeOK'
    BY <1>0, <1>2, <1>4, <2>1 DEF TypeOK
  <2>3. UserOK' /\ ProgressOK'
    BY <1>0, <1>1, <1>2, <1>4, UserAside DEF Aside
  <2>4. Len(held[t]) < Len(batch[t])
    BY <1>0, <1>1 DEF LengthOK
  <2>5. LengthOK'
    BY <1>0, <1>1, <1>2, <1>4, <2>4, LengthStep DEF Labels
  <2> QED
    BY <2>2, <2>3, <2>5 DEF Control
<1>5. ASSUME NEW n \in Nodes, Go(t, "fill"), held' = [held EXCEPT ![t] = Append(@, n)],
             cached' \in Seq(Cached), free' \in SUBSET Pool
      PROVE  Control'
  <2>1. pc' \in [Threads -> Labels]
    BY <1>1, <1>5 DEF Go, Labels
  <2>2. /\ held[t] \in Seq(Nodes) /\ batch[t] \in Seq(Items)
        /\ Len(held[t]) \in Nat /\ Len(batch[t]) \in Nat
        /\ Append(held[t], n) \in Seq(Nodes) /\ Len(Append(held[t], n)) = Len(held[t]) + 1
    BY <1>1, LenProperties, AppendProperties
  <2>3. /\ held' \in [Threads -> Seq(Nodes)] /\ held'[t] = Append(held[t], n)
        /\ \A u \in Threads \ {t} : held'[u] = held[u]
    BY <1>1, <1>5, <2>2
  <2>4. TypeOK'
    BY <1>0, <1>2, <1>5, <2>1, <2>3 DEF TypeOK
  <2>5. UserOK' /\ ProgressOK'
    BY <1>0, <1>1, <1>2, <1>5, UserAside DEF Aside
  <2>6. Len(held[t]) < Len(batch[t])
    BY <1>0, <1>1 DEF LengthOK
  <2>7. Len(held'[t]) \in 1..Len(batch'[t])
    BY <1>2, <2>2, <2>3, <2>6
  <2>8. LengthOK'
    BY <1>0, <1>1, <1>2, <1>5, <2>3, <2>7, LengthStep DEF Labels
  <2> QED
    BY <2>4, <2>5, <2>8 DEF Control
<1> QED
  BY <1>3, <1>4, <1>5

LEMMA FillControl ==
  ASSUME Control, NEW t \in Threads, Fill(t)
  PROVE  Control'
<1>0. TypeOK /\ UserOK /\ ProgressOK /\ LengthOK
  BY DEF Control
<1>1. /\ pc \in [Threads -> Labels] /\ pc[t] = "fill"
      /\ batch \in [Threads -> Seq(Items)] /\ held \in [Threads -> Seq(Nodes)]
      /\ contents \in [Nodes -> Items]
  BY <1>0 DEF Fill, At, TypeOK
<1>2. /\ contents' = [contents EXCEPT ![Last(held[t])] = batch[t][Len(held[t])]]
      /\ Go(t, IF Len(held[t]) < Len(batch[t]) THEN "hold" ELSE "splice")
      /\ UNCHANGED <<cached, free, managed, marked, cleared, gate, marker, ret, batch, held,
                     flight, sent, log, calls, order>>
  BY DEF Fill, marks, write, hold
<1>3. /\ held[t] \in Seq(Nodes) /\ batch[t] \in Seq(Items)
      /\ Len(held[t]) \in Nat /\ Len(batch[t]) \in Nat
      /\ Len(held[t]) \in 1..Len(batch[t])
  BY <1>0, <1>1, LenProperties DEF LengthOK
<1>4. batch[t][Len(held[t])] \in Items
  BY <1>3, SeqElement
<1>5. contents' \in [Nodes -> Items]
  BY <1>1, <1>2, <1>4
<1>6. PICK l \in {"hold", "splice"} : Go(t, l) /\ (l = "hold" <=> Len(held[t]) < Len(batch[t]))
  BY <1>2
<1>7. pc' \in [Threads -> Labels]
  BY <1>1, <1>6 DEF Go, Labels
<1>8. TypeOK'
  BY <1>0, <1>2, <1>5, <1>7 DEF TypeOK
<1>9. UserOK' /\ ProgressOK'
  BY <1>0, <1>1, <1>2, <1>6, UserAside DEF Aside
<1>10. LengthOK'
  <2>1. l = "splice" => Len(held[t]) = Len(batch[t])
    BY <1>3, <1>6
  <2> QED
    BY <1>0, <1>1, <1>2, <1>6, <2>1, LengthStep DEF Labels
<1> QED
  BY <1>8, <1>9, <1>10 DEF Control

LEMMA SpliceControl ==
  ASSUME Control, NEW t \in Threads, Splice(t)
  PROVE  Control'
<1>0. TypeOK /\ UserOK /\ ProgressOK /\ LengthOK
  BY DEF Control
<1>1. /\ pc \in [Threads -> Labels] /\ pc[t] = "splice"
      /\ batch \in [Threads -> Seq(Items)] /\ held \in [Threads -> Seq(Nodes)]
      /\ managed \in Seq(Nodes) /\ order \in Seq(Items)
  BY <1>0 DEF Splice, At, TypeOK
<1>2. /\ managed' = managed \o held[t] /\ held' = [held EXCEPT ![t] = <<>>]
      /\ order' = order \o batch[t] /\ Go(t, "mark")
      /\ UNCHANGED <<cached, free, marked, cleared, contents, gate, marker, ret, batch,
                     flight, sent, log, calls>>
  BY DEF Splice, marks, write
<1>3. managed' \in Seq(Nodes) /\ order' \in Seq(Items)
  BY <1>1, <1>2, ConcatProperties
<1>4. /\ held' \in [Threads -> Seq(Nodes)] /\ held'[t] = <<>>
      /\ \A u \in Threads \ {t} : held'[u] = held[u]
  BY <1>1, <1>2
<1>5. pc' \in [Threads -> Labels]
  BY <1>1, <1>2 DEF Go, Labels
<1>6. TypeOK'
  BY <1>0, <1>2, <1>3, <1>4, <1>5 DEF TypeOK
<1>7. UserOK' /\ ProgressOK'
  BY <1>0, <1>1, <1>2, UserAside DEF Aside
<1>8. LengthOK'
  BY <1>0, <1>1, <1>2, <1>4, LengthStep DEF Labels
<1> QED
  BY <1>6, <1>7, <1>8 DEF Control

(* Steps that leave the nodes manage() holds alone and end at another label. *)
LEMMA LengthKept ==
  ASSUME LengthOK, NEW t \in Threads, pc \in [Threads -> Labels],
         pc[t] \notin {"hold", "malloc", "fill", "splice"},
         NEW l \in Labels \ {"hold", "malloc", "fill", "splice"}, Go(t, l),
         UNCHANGED <<held, batch>>
  PROVE  LengthOK'
<1>1. held[t] = <<>>
  BY DEF LengthOK
<1> QED
  BY <1>1, LengthStep

LEMMA AnswerType ==
  ASSUME NEW t \in Threads, NEW r \in -MaxMarker..MaxMarker,
         ret \in [Threads -> -MaxMarker..MaxMarker], pc \in [Threads -> Labels], Answer(t, r)
  PROVE  /\ ret' \in [Threads -> -MaxMarker..MaxMarker] /\ pc' \in [Threads -> Labels]
         /\ \A u \in Threads : /\ pc'[u] = IF u = t THEN "decide" ELSE pc[u]
                               /\ ret'[u] = IF u = t THEN r ELSE ret[u]
BY DEF Answer, Go, Labels

LEMMA MarkLookControl ==
  ASSUME Control, NEW t \in Threads, MarkLook(t)
  PROVE  Control'
<1>0. TypeOK /\ UserOK /\ ProgressOK /\ LengthOK
  BY DEF Control
<1>1. /\ pc \in [Threads -> Labels] /\ pc[t] = "mark" /\ gate = NoThread /\ marker \in 0..MaxMarker
      /\ ret \in [Threads -> -MaxMarker..MaxMarker] /\ MaxMarker \in Nat
  BY <1>0, QueueAssumption DEF MarkLook, At, TypeOK
<1>2. UNCHANGED <<cached, free, managed, marked, cleared, contents, marker, batch, held,
                  flight, sent, log, calls, order>>
  BY DEF MarkLook, lists, hold, write
<1>3. \A u \in Threads : u # NoThread
  BY QueueAssumption
<1>4. CASE marked # <<>>
  <2>1. Answer(t, -marker) /\ gate' = gate /\ -marker \in -MaxMarker..MaxMarker /\ ~(-marker > 0)
    BY <1>1, <1>4 DEF MarkLook
  <2>2. /\ ret' \in [Threads -> -MaxMarker..MaxMarker] /\ pc' \in [Threads -> Labels]
        /\ \A u \in Threads : /\ pc'[u] = IF u = t THEN "decide" ELSE pc[u]
                              /\ ret'[u] = IF u = t THEN -marker ELSE ret[u]
    BY <1>1, <2>1, AnswerType
  <2>3. TypeOK'
    BY <1>0, <1>2, <2>1, <2>2 DEF TypeOK
  <2>4. \A u \in Threads : Clears(u)' <=> Clears(u)
    BY <1>1, <2>2 DEF Clears
  <2>5. \A u \in Threads : Uses(u)' <=> Uses(u)
    <3> SUFFICES ASSUME NEW u \in Threads PROVE Uses(u)' <=> Uses(u)
      OBVIOUS
    <3>1. CASE u = t
      <4>1. ~Uses(t)' /\ ~Uses(t)
        BY <1>1, <2>1, <2>2 DEF Uses, Clears
      <4> QED
        BY <3>1, <4>1
    <3>2. CASE u # t
      BY <2>2, <2>4, <3>2 DEF Uses
    <3> QED
      BY <3>1, <3>2
  <2>6. \A u \in Threads : /\ pc'[u] = "swap" <=> pc[u] = "swap"
                           /\ pc'[u] = "release" <=> pc[u] = "release"
    BY <1>1, <2>2
  <2>7. UserOK'
    BY <1>0, <1>2, <2>1, <2>5, <2>6 DEF UserOK
  <2>8. ProgressOK'
    BY <1>0, <1>2, <2>4, <2>6 DEF ProgressOK
  <2>9. LengthOK'
    BY <1>0, <1>1, <1>2, <2>1, LengthKept DEF Answer, Labels
  <2> QED
    BY <2>3, <2>7, <2>8, <2>9 DEF Control
<1>5. CASE marked = <<>>
  <2>1. gate' = t /\ Go(t, "swap") /\ ret' = ret
    BY <1>5 DEF MarkLook
  <2>2. /\ pc' \in [Threads -> Labels]
        /\ \A u \in Threads : pc'[u] = IF u = t THEN "swap" ELSE pc[u]
    BY <1>1, <2>1 DEF Go, Labels
  <2>3. TypeOK'
    BY <1>0, <1>2, <2>1, <2>2 DEF TypeOK
  <2>4. \A u \in Threads : Clears(u)' <=> Clears(u)
    BY <1>1, <2>2 DEF Clears
  <2>5. \A u \in Threads : Uses(u)' <=> Uses(u)
    BY <1>1, <2>1, <2>2, <2>4 DEF Uses
  <2>6. \A u \in Threads : /\ pc'[u] = "swap" <=> t = u
                           /\ pc'[u] = "release" <=> pc[u] = "release"
    BY <1>0, <1>1, <1>3, <2>2 DEF UserOK
  <2>7. UserOK'
    BY <1>0, <1>2, <1>5, <2>1, <2>5, <2>6 DEF UserOK
  <2>8. ProgressOK'
    BY <1>0, <1>2, <2>4, <2>6 DEF ProgressOK
  <2>9. LengthOK'
    BY <1>0, <1>1, <1>2, <2>1, LengthKept DEF Labels
  <2> QED
    BY <2>3, <2>7, <2>8, <2>9 DEF Control
<1> QED
  BY <1>4, <1>5

LEMMA MarkSwapControl ==
  ASSUME Control, NEW t \in Threads, MarkSwap(t)
  PROVE  Control'
<1>0. TypeOK /\ UserOK /\ ProgressOK /\ LengthOK
  BY DEF Control
<1>1. /\ pc \in [Threads -> Labels] /\ pc[t] = "swap" /\ marker \in 0..MaxMarker
      /\ ret \in [Threads -> -MaxMarker..MaxMarker] /\ MaxMarker \in Nat \ {0}
      /\ managed \in Seq(Nodes) /\ cleared \in 0..Len(marked) /\ sent \in 0..Len(marked)
  BY <1>0, QueueAssumption DEF MarkSwap, At, TypeOK
<1>2. /\ gate' = NoThread
      /\ UNCHANGED <<cached, free, cleared, contents, batch, held,
                     flight, sent, log, calls, order>>
  BY DEF MarkSwap, hold, write
<1>3. gate = t /\ t # NoThread /\ marked = <<>>
  BY <1>0, <1>1, QueueAssumption DEF UserOK
<1>4. /\ \A u \in Threads : ~Uses(u)
      /\ \A u \in Threads : pc[u] = "swap" => u = t
      /\ flight = "none" /\ sent = 0 /\ cleared = 0
  <2>1. Len(marked) = 0
    BY <1>3
  <2> QED
    BY <1>0, <1>1, <1>3, <2>1 DEF UserOK, ProgressOK
<1>5. CASE managed = <<>>
  <2>1. Answer(t, 0) /\ UNCHANGED <<managed, marked, marker>> /\ 0 \in -MaxMarker..MaxMarker
    BY <1>1, <1>5 DEF MarkSwap
  <2>2. /\ ret' \in [Threads -> -MaxMarker..MaxMarker] /\ pc' \in [Threads -> Labels]
        /\ \A u \in Threads : /\ pc'[u] = IF u = t THEN "decide" ELSE pc[u]
                              /\ ret'[u] = IF u = t THEN 0 ELSE ret[u]
    BY <1>1, <2>1, AnswerType
  <2>3. TypeOK'
    BY <1>0, <1>2, <2>1, <2>2 DEF TypeOK
  <2>4. \A u \in Threads : ~Uses(u)' /\ ~Clears(u)' /\ pc'[u] # "swap"
    BY <1>4, <2>2 DEF Uses, Clears
  <2>5. UserOK'
    BY <1>2, <1>3, <1>4, <2>1, <2>4, QueueAssumption DEF UserOK
  <2>6. ProgressOK'
    BY <1>2, <1>4, <2>1, <2>4 DEF ProgressOK, Clears
  <2>7. LengthOK'
    BY <1>0, <1>1, <1>2, <2>1, LengthKept DEF Answer, Labels
  <2> QED
    BY <2>3, <2>5, <2>6, <2>7 DEF Control
<1>6. CASE managed # <<>>
  <2>1. /\ marked' = managed /\ managed' = marked
        /\ marker' = (IF marker = MaxMarker THEN 1 ELSE marker + 1) /\ Answer(t, marker')
    BY <1>6 DEF MarkSwap
  <2>2. /\ marker' \in 1..MaxMarker /\ marker' \in -MaxMarker..MaxMarker
        /\ marker' \in 0..MaxMarker /\ marker' > 0
    BY <1>1, <2>1
  <2>3. /\ ret' \in [Threads -> -MaxMarker..MaxMarker] /\ pc' \in [Threads -> Labels]
        /\ \A u \in Threads : /\ pc'[u] = IF u = t THEN "decide" ELSE pc[u]
                              /\ ret'[u] = IF u = t THEN marker' ELSE ret[u]
    BY <1>1, <2>1, <2>2, AnswerType
  <2>4. /\ marked' \in Seq(Nodes) /\ managed' \in Seq(Nodes) /\ Len(marked') \in Nat
        /\ cleared' \in 0..Len(marked') /\ sent' \in 0..Len(marked')
    BY <1>1, <1>2, <1>3, <1>4, <2>1, LenProperties
  <2>5. TypeOK'
    BY <1>0, <1>2, <2>2, <2>3, <2>4 DEF TypeOK
  <2>6. \A u \in Threads : /\ Uses(u)' <=> u = t
                           /\ ~Clears(u)' /\ pc'[u] # "swap"
    BY <1>4, <2>2, <2>3 DEF Uses, Clears
  <2>7. UserOK'
    BY <1>2, <1>4, <1>6, <2>1, <2>2, <2>6, QueueAssumption DEF UserOK
  <2>8. ProgressOK'
    BY <1>2, <1>4, <2>6 DEF ProgressOK, Clears
  <2>9. LengthOK'
    BY <1>0, <1>1, <1>2, <2>1, LengthKept DEF Answer, Labels
  <2> QED
    BY <2>5, <2>7, <2>8, <2>9 DEF Control
<1> QED
  BY <1>5, <1>6

LEMMA DecideControl ==
  ASSUME Control, NEW t \in Threads, Decide(t)
  PROVE  Control'
<1>0. TypeOK /\ UserOK /\ ProgressOK /\ LengthOK
  BY DEF Control
<1>1. /\ pc \in [Threads -> Labels] /\ pc[t] = "decide" /\ flight \in {"none", "sending", "done"}
      /\ marked \in Seq(Nodes) /\ Len(marked) \in Nat
  BY <1>0, LenProperties DEF Decide, At, TypeOK
<1>2. /\ Go(t, "idle") /\ flight' = IF ret[t] > 0 THEN "sending" ELSE flight
      /\ UNCHANGED <<cached, free, managed, marked, cleared, contents, gate, marker, ret,
                     batch, held, sent, log, calls, order>>
  BY DEF Decide, lists, marks, hold
<1>3. /\ pc' \in [Threads -> Labels]
      /\ \A u \in Threads : pc'[u] = IF u = t THEN "idle" ELSE pc[u]
  BY <1>1, <1>2 DEF Go, Labels
<1>4. TypeOK'
  BY <1>0, <1>1, <1>2, <1>3 DEF TypeOK
<1>5. LengthOK'
  BY <1>0, <1>1, <1>2, LengthKept DEF Labels
<1>6. \A u \in Threads : /\ Clears(u)' <=> Clears(u)
                         /\ pc'[u] = "swap" <=> pc[u] = "swap"
                         /\ pc'[u] = "release" <=> pc[u] = "release"
  BY <1>1, <1>3 DEF Clears
<1>7. \A u \in Threads : Uses(u)' <=> (Uses(u) /\ u # t)
  BY <1>1, <1>2, <1>3, <1>6 DEF Uses, Clears
<1>8. CASE ret[t] > 0
  <2>1. Uses(t)
    BY <1>1, <1>8 DEF Uses
  <2>2. /\ flight = "none" /\ flight' = "sending" /\ marked # <<>> /\ sent = 0
        /\ \A u \in Threads : ~Uses(u)'
    BY <1>0, <1>2, <1>7, <1>8, <2>1 DEF UserOK, ProgressOK
  <2>3. UserOK'
    BY <1>0, <1>2, <1>6, <2>2 DEF UserOK
  <2>4. 0 < Len(marked)
    BY <1>1, <2>2, EmptySeq
  <2>5. ProgressOK'
    BY <1>0, <1>2, <1>6, <2>2, <2>4 DEF ProgressOK
  <2> QED
    BY <1>4, <1>5, <2>3, <2>5 DEF Control
<1>9. CASE ~(ret[t] > 0)
  <2>1. ~Uses(t) /\ flight' = flight
    BY <1>1, <1>2, <1>9 DEF Uses, Clears
  <2>2. \A u \in Threads : Uses(u)' <=> Uses(u)
    BY <1>7, <2>1
  <2>3. UserOK'
    BY <1>0, <1>2, <1>6, <2>1, <2>2 DEF UserOK
  <2>4. ProgressOK'
    BY <1>0, <1>2, <1>6, <2>1 DEF ProgressOK
  <2> QED
    BY <1>4, <1>5, <2>3, <2>4 DEF Control
<1> QED
  BY <1>8, <1>9

LEMMA SendBufferControl ==
  ASSUME Control, SendBuffer
  PROVE  Control'
<1>0. TypeOK /\ UserOK /\ ProgressOK /\ LengthOK
  BY DEF Control
<1>1. /\ flight = "sending" /\ sent < Len(marked)
      /\ log' = Append(log, contents[marked[sent + 1]]) /\ sent' = sent + 1
      /\ flight' = (IF sent' = Len(marked) THEN "done" ELSE "sending")
      /\ UNCHANGED <<cached, free, managed, marked, cleared, contents, gate, marker, ret, pc,
                     batch, held, calls, order>>
  BY DEF SendBuffer, lists, marks, hold
<1>2. /\ marked \in Seq(Nodes) /\ Len(marked) \in Nat /\ sent \in 0..Len(marked)
      /\ contents \in [Nodes -> Items] /\ log \in Seq(Items)
  BY <1>0, LenProperties DEF TypeOK
<1>3. /\ sent + 1 \in 1..Len(marked) /\ sent' \in 0..Len(marked)
      /\ flight' = "sending" => sent' < Len(marked)
      /\ flight' = "done" => sent' = Len(marked)
      /\ flight' \in {"sending", "done"}
  BY <1>1, <1>2
<1>4. contents[marked[sent + 1]] \in Items
  BY <1>2, <1>3, SeqElement
<1>5. log' \in Seq(Items)
  BY <1>1, <1>2, <1>4, AppendProperties
<1>6. TypeOK'
  BY <1>0, <1>1, <1>3, <1>5 DEF TypeOK
<1>7. \A u \in Threads : (Uses(u)' <=> Uses(u)) /\ (Clears(u)' <=> Clears(u))
  BY <1>1 DEF Uses, Clears
<1>8. \A u \in Threads : ~Uses(u)
  BY <1>0, <1>1 DEF UserOK
<1>9. UserOK'
  BY <1>0, <1>1, <1>3, <1>7, <1>8 DEF UserOK
<1>10. ProgressOK'
  BY <1>0, <1>1, <1>3, <1>7 DEF ProgressOK
<1>11. LengthOK'
  BY <1>0, <1>1 DEF LengthOK
<1> QED
  BY <1>6, <1>9, <1>10, <1>11 DEF Control

LEMMA CompleteControl ==
  ASSUME Control, NEW t \in Threads, Complete(t)
  PROVE  Control'
<1>0. TypeOK /\ UserOK /\ ProgressOK /\ LengthOK
  BY DEF Control
<1>1. /\ pc \in [Threads -> Labels] /\ pc[t] = "idle" /\ Len(marked) \in Nat
  BY <1>0, LenProperties DEF Complete, At, TypeOK
<1>2. /\ Go(t, "clear") /\ flight = "done" /\ flight' = "none" /\ sent' = 0
      /\ UNCHANGED <<cached, free, managed, marked, cleared, contents, gate, marker, ret,
                     batch, held, log, calls, order>>
  BY DEF Complete, lists, marks, hold
<1>3. /\ pc' \in [Threads -> Labels]
      /\ \A u \in Threads : pc'[u] = IF u = t THEN "clear" ELSE pc[u]
  BY <1>1, <1>2 DEF Go, Labels
<1>4. sent' \in 0..Len(marked)
  BY <1>1, <1>2
<1>5. TypeOK'
  BY <1>0, <1>2, <1>3, <1>4 DEF TypeOK
<1>6. LengthOK'
  BY <1>0, <1>1, <1>2, LengthKept DEF Labels
<1>7. marked # <<>> /\ \A u \in Threads : ~Uses(u)
  BY <1>0, <1>2 DEF UserOK
<1>8. \A u \in Threads : /\ Uses(u)' <=> u = t
                         /\ pc'[u] = "swap" <=> pc[u] = "swap"
                         /\ pc'[u] # "release"
  BY <1>1, <1>2, <1>3, <1>7 DEF Uses, Clears
<1>9. UserOK'
  BY <1>0, <1>2, <1>7, <1>8 DEF UserOK
<1>10. Clears(t)'
  BY <1>3 DEF Clears
<1>11. ProgressOK'
  BY <1>0, <1>2, <1>8, <1>10 DEF ProgressOK
<1> QED
  BY <1>5, <1>6, <1>9, <1>11 DEF Control

(* What is known of a thread in clear_marked().                              *)
LEMMA ClearerAlone ==
  ASSUME Control, NEW t \in Threads, Clears(t)
  PROVE  /\ flight = "none" /\ sent = 0 /\ marked # <<>> /\ gate = NoThread
         /\ \A u \in Threads : (Uses(u) <=> u = t) /\ (Clears(u) <=> u = t)
BY DEF Control, UserOK, ProgressOK, Uses

LEMMA WipeControl ==
  ASSUME Control, NEW t \in Threads, Wipe(t) \/ Release(t)
  PROVE  Control'
<1>0. TypeOK /\ UserOK /\ ProgressOK /\ LengthOK
  BY DEF Control
<1>1. /\ pc \in [Threads -> Labels] /\ Clears(t)
      /\ marked \in Seq(Nodes) /\ Len(marked) \in Nat /\ cleared \in 0..Len(marked)
      /\ contents \in [Nodes -> Items] /\ cached \in Seq(Cached) /\ free \in SUBSET Pool
      /\ Empty \in Items
  BY <1>0, LenProperties DEF Wipe, Release, At, Clears, TypeOK, Items
<1>2. UNCHANGED <<managed, marked, gate, marker, ret, batch, held, flight, sent, log, calls, order>>
  BY DEF Wipe, Release, marks, hold, write
<1>3. cleared < Len(marked) /\ cleared + 1 \in 1..Len(marked)
  BY <1>0, <1>1 DEF Wipe, Release, At, ProgressOK
<1>4. marked[cleared + 1] \in Nodes
  BY <1>1, <1>3, SeqElement
<1>5. PICK l \in {"clear", "release"} :
        /\ Go(t, l)
        /\ l = "release" => cleared' = cleared
        /\ cleared' \in {cleared, cleared + 1}
        /\ contents' \in [Nodes -> Items] /\ cached' \in Seq(Cached) /\ free' \in SUBSET Pool
  <2>1. CASE Wipe(t)
    BY <1>1, <2>1 DEF Wipe
  <2>2. CASE Release(t) /\ marked[cleared + 1] \in Cached
    <3>1. <<marked[cleared + 1]>> \in Seq(Cached)
      BY <2>2
    <3>2. <<marked[cleared + 1]>> \o cached \in Seq(Cached)
      BY <1>1, <3>1, ConcatProperties
    <3> QED
      BY <1>1, <2>2, <3>2 DEF Release
  <2>3. CASE Release(t) /\ marked[cleared + 1] \notin Cached
    BY <1>1, <1>4, <2>3 DEF Release, Nodes
  <2> QED
    BY <2>1, <2>2, <2>3
<1>6. /\ pc' \in [Threads -> Labels]
      /\ \A u \in Threads : pc'[u] = IF u = t THEN l ELSE pc[u]
  BY <1>1, <1>5 DEF Go, Labels
<1>7. cleared' \in 0..Len(marked)
  BY <1>1, <1>3, <1>5
<1>8. TypeOK'
  BY <1>0, <1>2, <1>5, <1>6, <1>7 DEF TypeOK
<1>9. LengthOK'
  BY <1>0, <1>1, <1>2, <1>5, LengthKept DEF Labels, Clears
<1>10. \A u \in Threads : /\ pc'[u] = "swap" <=> pc[u] = "swap"
                          /\ Clears(u)' <=> Clears(u)
  BY <1>1, <1>5, <1>6 DEF Clears
<1>11. \A u \in Threads : Uses(u)' <=> Uses(u)
  BY <1>1, <1>2, <1>5, <1>6, <1>10 DEF Uses, Clears
<1>12. UserOK'
  BY <1>0, <1>2, <1>10, <1>11 DEF UserOK
<1>13. Clears(t)' /\ \A u \in Threads : Clears(u) => u = t
  BY <1>1, <1>10, ClearerAlone
<1>14. \A u \in Threads : pc'[u] = "release" => cleared' < Len(marked)
  <2>1. \A u \in Threads : pc'[u] = "release" => u = t
    BY <1>10, <1>13 DEF Clears
  <2> QED
    BY <1>3, <1>5, <1>6, <2>1
<1>15. ProgressOK'
  BY <1>0, <1>2, <1>13, <1>14 DEF ProgressOK
<1> QED
  BY <1>8, <1>9, <1>12, <1>15 DEF Control

LEMMA ClearEndControl ==
  ASSUME Control, NEW t \in Threads, ClearEnd(t)
  PROVE  Control'
<1>0. TypeOK /\ UserOK /\ ProgressOK /\ LengthOK
  BY DEF Control
<1>1. /\ pc \in [Threads -> Labels] /\ pc[t] = "clear" /\ Clears(t)
  BY <1>0 DEF ClearEnd, At, Clears, TypeOK
<1>2. /\ Go(t, "mark") /\ marked' = <<>> /\ cleared' = 0
      /\ UNCHANGED <<cached, free, managed, contents, gate, marker, ret, batch, held,
                     flight, sent, log, calls, order>>
  BY DEF ClearEnd, marks, hold, write
<1>3. /\ flight = "none" /\ sent = 0 /\ gate = NoThread
      /\ \A u \in Threads : (Uses(u) <=> u = t) /\ (Clears(u) <=> u = t)
  BY <1>1, ClearerAlone
<1>4. /\ pc' \in [Threads -> Labels]
      /\ \A u \in Threads : pc'[u] = IF u = t THEN "mark" ELSE pc[u]
  BY <1>1, <1>2 DEF Go, Labels
<1>5. marked' \in Seq(Nodes) /\ Len(marked') = 0
  BY <1>2
<1>6. TypeOK'
  BY <1>0, <1>2, <1>3, <1>4, <1>5 DEF TypeOK
<1>7. LengthOK'
  BY <1>0, <1>1, <1>2, LengthKept DEF Labels
<1>8. \A u \in Threads : /\ pc'[u] = "swap" <=> pc[u] = "swap"
                         /\ ~Clears(u)' /\ ~Uses(u)'
  BY <1>1, <1>2, <1>3, <1>4 DEF Uses, Clears
<1>9. UserOK'
  BY <1>0, <1>2, <1>3, <1>8 DEF UserOK
<1>10. ProgressOK'
  BY <1>2, <1>3, <1>8 DEF ProgressOK, Clears
<1> QED
  BY <1>6, <1>7, <1>9, <1>10 DEF Control

LEMMA ControlInductive == Control /\ [Next]_vars => Control'
<1> SUFFICES ASSUME Control, [Next]_vars PROVE Control'
  OBVIOUS
<1>1. ASSUME NEW t \in Threads,
             \/ Manage(t) \/ HoldCached(t) \/ HoldPool(t) \/ Fill(t) \/ Splice(t)
             \/ MarkLook(t) \/ MarkSwap(t) \/ Decide(t)
             \/ Complete(t) \/ Wipe(t) \/ Release(t) \/ ClearEnd(t)
      PROVE  Control'
  BY <1>1, ManageControl, HoldControl, FillControl, SpliceControl, MarkLookControl,
     MarkSwapControl, DecideControl, CompleteControl, WipeControl, ClearEndControl
<1>2. CASE SendBuffer
  BY <1>2, SendBufferControl
<1>3. CASE UNCHANGED vars
  BY <1>3 DEF vars, lists, marks, hold, write, Control, TypeOK, UserOK, ProgressOK, LengthOK,
              Uses, Clears
<1> QED
  BY <1>1, <1>2, <1>3 DEF Next, Finished

(* Every variable keeps its type, whatever the threads, nodes and bounds.    *)
THEOREM QueueTypes == Spec => []TypeOK
<1>1. Init => Control
  BY InitControl
<1>2. Control /\ [Next]_vars => Control'
  BY ControlInductive
<1>3. Control => TypeOK
  BY DEF Control
<1> QED
  BY <1>1, <1>2, <1>3, PTL DEF Spec

LEMMA UserCount == Control => MarkerProtects
<1> SUFFICES ASSUME Control PROVE MarkerProtects
  OBVIOUS
<1> DEFINE U == {t \in Threads : \/ pc[t] \in {"clear", "release"}
                                 \/ pc[t] = "decide" /\ ret[t] > 0}
<1>1. U = {t \in Threads : Uses(t)}
  BY DEF Uses, Clears
<1>2. CASE marked = <<>>
  <2>1. U = {} /\ flight = "none"
    BY <1>1, <1>2 DEF Control, UserOK
  <2>2. Cardinality(U) = 0
    BY <2>1, FS_EmptySet
  <2> QED
    BY <1>2, <2>1, <2>2 DEF MarkerProtects
<1>3. CASE marked # <<>> /\ flight = "none"
  <2>1. PICK t \in Threads : Uses(t)
    BY <1>3 DEF Control, UserOK
  <2>2. U = {t}
    BY <1>1, <2>1 DEF Control, UserOK
  <2>3. Cardinality(U) = 1
    BY <2>2, FS_Singleton
  <2>4. marker > 0
    BY <1>3 DEF Control, UserOK
  <2> QED
    BY <1>3, <2>3, <2>4 DEF MarkerProtects
<1>4. CASE marked # <<>> /\ flight # "none"
  <2>1. U = {}
    BY <1>1, <1>4 DEF Control, UserOK
  <2>2. Cardinality(U) = 0
    BY <2>1, FS_EmptySet
  <2>3. marker > 0
    BY <1>4 DEF Control, UserOK
  <2> QED
    BY <1>4, <2>2, <2>3 DEF MarkerProtects
<1> QED
  BY <1>2, <1>3, <1>4

(* The marked list has exactly one user while it holds anything, and the     *)
(* marker it goes by is positive: persistent_buffer_manager::mark().         *)
THEOREM MarkerKeepsOthersOut == Spec => []MarkerProtects
<1>1. Init => Control
  BY InitControl
<1>2. Control /\ [Next]_vars => Control'
  BY ControlInductive
<1>3. Control => MarkerProtects
  BY UserCount
<1> QED
  BY <1>1, <1>2, <1>3, PTL DEF Spec

----------------------------------------------------------------------------
(* Sequences in which no element occurs twice.                               *)

LEMMA EmptySet ==
  /\ ToSet(<<>>) = {} /\ IsInjective(<<>>)
BY DEF ToSet, IsInjective

LEMMA InjectiveTail ==
  ASSUME NEW S, NEW s \in Seq(S), s # <<>>, IsInjective(s)
  PROVE  /\ Tail(s) \in Seq(S) /\ IsInjective(Tail(s))
         /\ Head(s) \in ToSet(s) /\ ToSet(Tail(s)) = ToSet(s) \ {Head(s)}
<1>1. /\ Len(s) \in Nat \ {0} /\ DOMAIN s = 1..Len(s) /\ Head(s) = s[1]
  BY LenProperties, EmptySeq
<1>2. /\ Tail(s) \in Seq(S) /\ Len(Tail(s)) = Len(s) - 1
      /\ DOMAIN Tail(s) = 1..(Len(s) - 1)
      /\ \A i \in 1..(Len(s) - 1) : Tail(s)[i] = s[i + 1]
  BY <1>1, HeadTailProperties, LenProperties
<1>3. \A i, j \in 1..Len(s) : s[i] = s[j] => i = j
  BY <1>1 DEF IsInjective
<1>4. IsInjective(Tail(s))
  <2>1. \A i \in 1..(Len(s) - 1) : i + 1 \in 1..Len(s)
    BY <1>1
  <2>2. \A i, j \in 1..(Len(s) - 1) : Tail(s)[i] = Tail(s)[j] => i = j
    BY <1>1, <1>2, <1>3, <2>1
  <2> QED
    BY <1>2, <2>2 DEF IsInjective
<1>5. ASSUME NEW x PROVE x \in ToSet(Tail(s)) <=> x \in ToSet(s) /\ x # Head(s)
  <2>1. x \in ToSet(Tail(s)) <=> \E i \in 1..(Len(s) - 1) : x = s[i + 1]
    BY <1>2 DEF ToSet
  <2>2. x \in ToSet(s) <=> \E j \in 1..Len(s) : x = s[j]
    BY <1>1 DEF ToSet
  <2>3. ASSUME x \in ToSet(Tail(s)) PROVE x \in ToSet(s) /\ x # Head(s)
    <3>1. PICK i \in 1..(Len(s) - 1) : x = s[i + 1]
      BY <2>1, <2>3
    <3>2. i + 1 \in 1..Len(s) /\ 1 \in 1..Len(s) /\ i + 1 # 1
      BY <1>1
    <3> QED
      BY <1>1, <1>3, <2>2, <3>1, <3>2
  <2>4. ASSUME x \in ToSet(s), x # Head(s) PROVE x \in ToSet(Tail(s))
    <3>1. PICK j \in 1..Len(s) : x = s[j]
      BY <2>2, <2>4
    <3>2. j # 1
      BY <1>1, <2>4, <3>1
    <3>3. j - 1 \in 1..(Len(s) - 1) /\ (j - 1) + 1 = j
      BY <1>1, <3>2
    <3> QED
      BY <2>1, <3>1, <3>3
  <2> QED
    BY <2>3, <2>4
<1>6. Head(s) \in ToSet(s)
  BY <1>1 DEF ToSet
<1> QED
  BY <1>2, <1>4, <1>5, <1>6

LEMMA ConcatSet ==
  ASSUME NEW S, NEW r \in Seq(S), NEW s \in Seq(S)
  PROVE  ToSet(r \o s) = ToSet(r) \cup ToSet(s)
<1>1. /\ Len(r) \in Nat /\ Len(s) \in Nat /\ DOMAIN r = 1..Len(r) /\ DOMAIN s = 1..Len(s)
  BY LenProperties
<1>2. /\ r \o s \in Seq(S) /\ DOMAIN (r \o s) = 1..(Len(r) + Len(s))
      /\ \A i \in 1..(Len(r) + Len(s)) : (r \o s)[i] = IF i <= Len(r) THEN r[i] ELSE s[i - Len(r)]
  BY ConcatProperties, LenProperties
<1>3. ASSUME NEW x \in ToSet(r \o s) PROVE x \in ToSet(r) \cup ToSet(s)
  <2>1. PICK i \in 1..(Len(r) + Len(s)) : x = (r \o s)[i]
    BY <1>2 DEF ToSet
  <2>2. CASE i <= Len(r)
    <3>1. i \in 1..Len(r) /\ x = r[i]
      BY <1>1, <1>2, <2>1, <2>2
    <3> QED
      BY <1>1, <3>1 DEF ToSet
  <2>3. CASE ~(i <= Len(r))
    <3>1. i - Len(r) \in 1..Len(s) /\ x = s[i - Len(r)]
      BY <1>1, <1>2, <2>1, <2>3
    <3> QED
      BY <1>1, <3>1 DEF ToSet
  <2> QED
    BY <2>2, <2>3
<1>4. ASSUME NEW x \in ToSet(r) PROVE x \in ToSet(r \o s)
  <2>1. PICK i \in 1..Len(r) : x = r[i]
    BY <1>1 DEF ToSet
  <2>2. i \in 1..(Len(r) + Len(s)) /\ i <= Len(r)
    BY <1>1
  <2> QED
    BY <1>2, <2>1, <2>2 DEF ToSet
<1>5. ASSUME NEW x \in ToSet(s) PROVE x \in ToSet(r \o s)
  <2>1. PICK i \in 1..Len(s) : x = s[i]
    BY <1>1 DEF ToSet
  <2>2. i + Len(r) \in 1..(Len(r) + Len(s)) /\ ~(i + Len(r) <= Len(r)) /\ (i + Len(r)) - Len(r) = i
    BY <1>1
  <2> QED
    BY <1>2, <2>1, <2>2 DEF ToSet
<1> QED
  BY <1>3, <1>4, <1>5

LEMMA InjectiveConcat ==
  ASSUME NEW S, NEW r \in Seq(S), NEW s \in Seq(S), IsInjective(r), IsInjective(s),
         ToSet(r) \cap ToSet(s) = {}
  PROVE  IsInjective(r \o s)
<1>1. /\ Len(r) \in Nat /\ Len(s) \in Nat /\ DOMAIN r = 1..Len(r) /\ DOMAIN s = 1..Len(s)
  BY LenProperties
<1>2. /\ r \o s \in Seq(S) /\ DOMAIN (r \o s) = 1..(Len(r) + Len(s))
      /\ \A i \in 1..(Len(r) + Len(s)) : (r \o s)[i] = IF i <= Len(r) THEN r[i] ELSE s[i - Len(r)]
  BY ConcatProperties, LenProperties
<1>3. /\ \A i, j \in 1..Len(r) : r[i] = r[j] => i = j
      /\ \A i, j \in 1..Len(s) : s[i] = s[j] => i = j
      /\ \A i \in 1..Len(r), j \in 1..Len(s) : r[i] # s[j]
  <2>1. /\ \A i \in 1..Len(r) : r[i] \in ToSet(r)
        /\ \A j \in 1..Len(s) : s[j] \in ToSet(s)
    BY <1>1 DEF ToSet
  <2>2. /\ \A i, j \in 1..Len(r) : r[i] = r[j] => i = j
        /\ \A i, j \in 1..Len(s) : s[i] = s[j] => i = j
    BY <1>1 DEF IsInjective
  <2>3. \A i \in 1..Len(r), j \in 1..Len(s) : r[i] # s[j]
    BY <2>1
  <2> QED
    BY <2>2, <2>3
<1>4. ASSUME NEW i \in 1..(Len(r) + Len(s)), NEW j \in 1..(Len(r) + Len(s)),
             (r \o s)[i] = (r \o s)[j]
      PROVE  i = j
  <2>1. \A k \in 1..(Len(r) + Len(s)) :
          \/ k \in 1..Len(r) /\ (r \o s)[k] = r[k]
          \/ ~(k <= Len(r)) /\ k - Len(r) \in 1..Len(s) /\ (r \o s)[k] = s[k - Len(r)]
    BY <1>1, <1>2
  <2>2. CASE i \in 1..Len(r) /\ j \in 1..Len(r)
    BY <1>1, <1>3, <1>4, <2>1, <2>2
  <2>3. CASE i \notin 1..Len(r) /\ j \notin 1..Len(r)
    <3>1. i - Len(r) = j - Len(r)
      BY <1>3, <1>4, <2>1, <2>3
    <3> QED
      BY <1>1, <3>1
  <2>4. CASE i \in 1..Len(r) /\ j \notin 1..Len(r)
    BY <1>1, <1>3, <1>4, <2>1, <2>4
  <2>5. CASE i \notin 1..Len(r) /\ j \in 1..Len(r)
    BY <1>1, <1>3, <1>4, <2>1, <2>5
  <2> QED
    BY <2>2, <2>3, <2>4, <2>5
<1> QED
  BY <1>2, <1>4 DEF IsInjective

LEMMA OneElement ==
  ASSUME NEW S, NEW x \in S
  PROVE  <<x>> \in Seq(S) /\ ToSet(<<x>>) = {x} /\ IsInjective(<<x>>)
<1>1. <<x>> \in Seq(S) /\ DOMAIN <<x>> = {1} /\ <<x>>[1] = x
  OBVIOUS
<1> QED
  BY <1>1 DEF ToSet, IsInjective

LEMMA InjectiveAppend ==
  ASSUME NEW S, NEW s \in Seq(S), IsInjective(s), NEW x \in S, x \notin ToSet(s)
  PROVE  /\ Append(s, x) \in Seq(S) /\ IsInjective(Append(s, x))
         /\ ToSet(Append(s, x)) = ToSet(s) \cup {x}
<1>1. Append(s, x) = s \o <<x>> /\ Append(s, x) \in Seq(S)
  BY AppendIsConcat, AppendProperties
<1>2. <<x>> \in Seq(S) /\ ToSet(<<x>>) = {x} /\ IsInjective(<<x>>)
  BY OneElement
<1>3. ToSet(s) \cap ToSet(<<x>>) = {}
  BY <1>2
<1>4. IsInjective(s \o <<x>>)
  BY <1>2, <1>3, InjectiveConcat
<1>5. ToSet(s \o <<x>>) = ToSet(s) \cup ToSet(<<x>>)
  <2>1. PICK r \in Seq(S) : r = <<x>>
    BY <1>2
  <2>2. ToSet(s \o r) = ToSet(s) \cup ToSet(r)
    BY ConcatSet
  <2> QED
    BY <2>1, <2>2
<1> QED
  BY <1>1, <1>2, <1>4, <1>5

(* The sequence SetToSeq makes of a finite set has its elements, each once.  *)
LEMMA AllOnce ==
  ASSUME NEW S, IsFiniteSet(S)
  PROVE  /\ SetToSeq(S) \in Seq(S) /\ IsInjective(SetToSeq(S)) /\ ToSet(SetToSeq(S)) = S
<1> DEFINE n == Cardinality(S)
<1>1. n \in Nat /\ ExistsBijection(1..n, S)
  BY FS_CardinalityType
<1>2. PICK f \in [1..n -> S] : IsInjective(f)
  BY <1>1 DEF ExistsBijection, Bijection, Injection
<1>3. SetToSeq(S) \in [1..n -> S] /\ IsInjective(SetToSeq(S))
  BY <1>2 DEF SetToSeq
<1>4. SetToSeq(S) \in Seq(S)
  BY <1>1, <1>3
<1>5. SetToSeq(S) \in Injection(1..n, S)
  BY <1>3 DEF Injection
<1>6. Cardinality(1..n) = Cardinality(S)
  BY <1>1, FS_Interval
<1>7. SetToSeq(S) \in Surjection(1..n, S)
  BY <1>5, <1>6, FS_Injection
<1>8. ToSet(SetToSeq(S)) = S
  BY <1>3, <1>7 DEF Surjection, ToSet
<1> QED
  BY <1>3, <1>4, <1>8

----------------------------------------------------------------------------
(* Every node in one place.                                                  *)

(* The cache, the pool, the managed list, the rest of the marked list and    *)
(* what each thread holds share no node, and have them all.                  *)
Apart(c, f, g, k, h) ==
  /\ c \subseteq Cached /\ f \subseteq Pool /\ g \subseteq Nodes /\ k \subseteq Nodes
  /\ g \cap c = {} /\ g \cap f = {} /\ k \cap c = {} /\ k \cap f = {} /\ g \cap k = {}
  /\ \A t \in Threads : /\ h[t] \subseteq Nodes
                        /\ h[t] \cap c = {} /\ h[t] \cap f = {}
                        /\ h[t] \cap g = {} /\ h[t] \cap k = {}
  /\ \A t, u \in Threads : t # u => h[t] \cap h[u] = {}
  /\ \A n \in Nodes : n \in c \/ n \in f \/ n \in g \/ n \in k \/ \E t \in Threads : n \in h[t]

HeldSets == [t \in Threads |-> ToSet(held[t])]

NodesOK ==
  /\ IsInjective(cached) /\ IsInjective(managed) /\ IsInjective(Undisposed)
  /\ \A t \in Threads : IsInjective(held[t])
  /\ Apart(ToSet(cached), free, ToSet(managed), ToSet(Undisposed), HeldSets)

LEMMA ApartHold ==
  ASSUME NEW c, NEW f, NEW g, NEW k, NEW h \in [Threads -> SUBSET Nodes], Apart(c, f, g, k, h),
         NEW t \in Threads, NEW n \in c \cup f, NEW h2, \A u \in Threads \ {t} : h2[u] = h[u],
         h2[t] = h[t] \cup {n}
  PROVE  Apart(c \ {n}, f \ {n}, g, k, h2) /\ n \notin h[t]
<1>1. /\ c \subseteq Nodes /\ f \subseteq Nodes /\ n \in Nodes
      /\ n \notin g /\ n \notin k /\ \A u \in Threads : n \notin h[u]
  BY DEF Apart, Nodes
<1>2. \A u \in Threads : h2[u] = IF u = t THEN h[t] \cup {n} ELSE h[u]
  OBVIOUS
<1>3. /\ c \ {n} \subseteq Cached /\ f \ {n} \subseteq Pool /\ g \subseteq Nodes /\ k \subseteq Nodes
      /\ g \cap (c \ {n}) = {} /\ g \cap (f \ {n}) = {} /\ k \cap (c \ {n}) = {}
      /\ k \cap (f \ {n}) = {} /\ g \cap k = {}
  BY DEF Apart
<1>4. ASSUME NEW u \in Threads
      PROVE  /\ h2[u] \subseteq Nodes
             /\ h2[u] \cap (c \ {n}) = {} /\ h2[u] \cap (f \ {n}) = {}
             /\ h2[u] \cap g = {} /\ h2[u] \cap k = {}
  BY <1>1, <1>2 DEF Apart
<1>5. ASSUME NEW u \in Threads, NEW v \in Threads, u # v
      PROVE  h2[u] \cap h2[v] = {}
  BY <1>1, <1>2, <1>5 DEF Apart
<1>6. ASSUME NEW m \in Nodes
      PROVE  m \in c \ {n} \/ m \in f \ {n} \/ m \in g \/ m \in k \/ \E u \in Threads : m \in h2[u]
  <2>1. m \in h2[t] \/ m # n
    BY <1>2
  <2>2. m \in c \/ m \in f \/ m \in g \/ m \in k \/ \E u \in Threads : m \in h[u]
    BY DEF Apart
  <2>3. \A u \in Threads : m \in h[u] => m \in h2[u]
    BY <1>2
  <2> QED
    BY <2>1, <2>2, <2>3
<1> QED
  BY <1>1, <1>3, <1>4, <1>5, <1>6 DEF Apart

LEMMA ApartSplice ==
  ASSUME NEW c, NEW f, NEW g, NEW k, NEW h \in [Threads -> SUBSET Nodes], Apart(c, f, g, k, h),
         NEW t \in Threads, NEW h2, \A u \in Threads \ {t} : h2[u] = h[u], h2[t] = {}
  PROVE  Apart(c, f, g \cup h[t], k, h2) /\ g \cap h[t] = {}
<1>1. \A u \in Threads : h2[u] = IF u = t THEN {} ELSE h[u]
  OBVIOUS
<1>2. /\ c \subseteq Cached /\ f \subseteq Pool /\ g \cup h[t] \subseteq Nodes /\ k \subseteq Nodes
      /\ (g \cup h[t]) \cap c = {} /\ (g \cup h[t]) \cap f = {} /\ k \cap c = {} /\ k \cap f = {}
      /\ (g \cup h[t]) \cap k = {} /\ g \cap h[t] = {}
  BY DEF Apart
<1>3. ASSUME NEW u \in Threads
      PROVE  /\ h2[u] \subseteq Nodes /\ h2[u] \cap c = {} /\ h2[u] \cap f = {}
             /\ h2[u] \cap (g \cup h[t]) = {} /\ h2[u] \cap k = {}
  BY <1>1 DEF Apart
<1>4. ASSUME NEW u \in Threads, NEW v \in Threads, u # v
      PROVE  h2[u] \cap h2[v] = {}
  BY <1>1, <1>4 DEF Apart
<1>5. ASSUME NEW m \in Nodes
      PROVE  m \in c \/ m \in f \/ m \in g \cup h[t] \/ m \in k \/ \E u \in Threads : m \in h2[u]
  <2>1. m \in c \/ m \in f \/ m \in g \/ m \in k \/ \E u \in Threads : m \in h[u]
    BY DEF Apart
  <2>2. \A u \in Threads : m \in h[u] => m \in h[t] \/ m \in h2[u]
    BY <1>1
  <2> QED
    BY <2>1, <2>2
<1> QED
  BY <1>2, <1>3, <1>4, <1>5 DEF Apart

LEMMA ApartSwap ==
  ASSUME NEW c, NEW f, NEW g, NEW h, Apart(c, f, g, {}, h)
  PROVE  Apart(c, f, {}, g, h)
<1>1. /\ \A t \in Threads : /\ h[t] \subseteq Nodes /\ h[t] \cap c = {} /\ h[t] \cap f = {}
                            /\ h[t] \cap {} = {} /\ h[t] \cap g = {}
      /\ \A t, u \in Threads : t # u => h[t] \cap h[u] = {}
  BY DEF Apart
<1>2. \A n \in Nodes : n \in c \/ n \in f \/ n \in {} \/ n \in g \/ \E t \in Threads : n \in h[t]
  BY DEF Apart
<1>3. /\ c \subseteq Cached /\ f \subseteq Pool /\ {} \subseteq Nodes /\ g \subseteq Nodes
      /\ {} \cap c = {} /\ {} \cap f = {} /\ g \cap c = {} /\ g \cap f = {} /\ {} \cap g = {}
  BY DEF Apart
<1> QED
  BY <1>1, <1>2, <1>3 DEF Apart

LEMMA ApartRelease ==
  ASSUME NEW c, NEW f, NEW g, NEW k, NEW h, Apart(c, f, g, k, h), NEW n \in k,
         NEW c2, NEW f2, \/ n \in Cached /\ c2 = c \cup {n} /\ f2 = f
                         \/ n \notin Cached /\ c2 = c /\ f2 = f \cup {n}
  PROVE  Apart(c2, f2, g, k \ {n}, h) /\ n \notin c /\ n \notin f
<1>1. /\ n \in Nodes /\ n \notin g /\ n \notin c /\ n \notin f
      /\ \A t \in Threads : n \notin h[t]
  BY DEF Apart
<1>2. c2 \subseteq c \cup {n} /\ f2 \subseteq f \cup {n} /\ c2 \cup f2 = c \cup f \cup {n}
  OBVIOUS
<1>3. c2 \subseteq Cached /\ f2 \subseteq Pool
  BY <1>1 DEF Apart, Nodes
<1>4. /\ g \subseteq Nodes /\ k \ {n} \subseteq Nodes
      /\ g \cap c2 = {} /\ g \cap f2 = {} /\ (k \ {n}) \cap c2 = {} /\ (k \ {n}) \cap f2 = {}
      /\ g \cap (k \ {n}) = {}
  BY <1>1, <1>2 DEF Apart
<1>5. ASSUME NEW t \in Threads
      PROVE  /\ h[t] \subseteq Nodes /\ h[t] \cap c2 = {} /\ h[t] \cap f2 = {}
             /\ h[t] \cap g = {} /\ h[t] \cap (k \ {n}) = {}
  BY <1>1, <1>2 DEF Apart
<1>6. \A t, u \in Threads : t # u => h[t] \cap h[u] = {}
  BY DEF Apart
<1>7. ASSUME NEW m \in Nodes
      PROVE  m \in c2 \/ m \in f2 \/ m \in g \/ m \in k \ {n} \/ \E t \in Threads : m \in h[t]
  BY <1>2 DEF Apart
<1> QED
  BY <1>1, <1>3, <1>4, <1>5, <1>6, <1>7 DEF Apart

LEMMA UndisposedType ==
  ASSUME TypeOK
  PROVE  /\ Undisposed \in Seq(Nodes)
         /\ cleared = 0 => Undisposed = marked
         /\ cleared = Len(marked) => Undisposed = <<>>
         /\ cleared < Len(marked) => /\ Undisposed # <<>> /\ Head(Undisposed) = marked[cleared + 1]
                                     /\ Tail(Undisposed) = SubSeq(marked, cleared + 2, Len(marked))
<1>1. /\ marked \in Seq(Nodes) /\ Len(marked) \in Nat /\ cleared \in 0..Len(marked)
      /\ cleared + 1 \in Int /\ Len(marked) \in Int
  BY LenProperties DEF TypeOK
<1>2. /\ \A i \in (cleared + 1)..Len(marked) : i \in 1..Len(marked)
      /\ \A i \in (cleared + 1)..Len(marked) : marked[i] \in Nodes
  BY <1>1, SeqElement
<1>3. /\ Undisposed \in Seq(Nodes)
      /\ Len(Undisposed) = IF cleared + 1 <= Len(marked) THEN Len(marked) - (cleared + 1) + 1 ELSE 0
  BY <1>1, <1>2, SubSeqProperties DEF Undisposed
<1>4. ASSUME cleared = 0 PROVE Undisposed = marked
  BY <1>1, <1>4, SubSeqFull DEF Undisposed
<1>5. ASSUME cleared = Len(marked) PROVE Undisposed = <<>>
  BY <1>1, <1>5, SubSeqEmpty DEF Undisposed
<1>6. ASSUME cleared < Len(marked)
      PROVE  /\ Undisposed # <<>> /\ Head(Undisposed) = marked[cleared + 1]
             /\ Tail(Undisposed) = SubSeq(marked, cleared + 2, Len(marked))
  <2>1. /\ cleared + 1 \in 1..Len(marked) /\ Len(marked) \in (cleared + 1)..Len(marked)
        /\ (cleared + 1) + 1 = cleared + 2
    BY <1>1, <1>6
  <2>2. Len(Undisposed) # 0
    BY <1>1, <1>3, <1>6
  <2>3. Undisposed # <<>>
    BY <1>3, <2>2, EmptySeq
  <2>4. /\ Head(SubSeq(marked, cleared + 1, Len(marked))) = marked[cleared + 1]
        /\ Tail(SubSeq(marked, cleared + 1, Len(marked)))
             = SubSeq(marked, (cleared + 1) + 1, Len(marked))
    BY <1>1, <2>1, HeadTailOfSubSeq
  <2> QED
    BY <2>1, <2>3, <2>4 DEF Undisposed
<1> QED
  BY <1>3, <1>4, <1>5, <1>6

LEMMA InitNodes == Init => NodesOK
<1> SUFFICES ASSUME Init PROVE NodesOK
  OBVIOUS
<1>1. /\ cached = SetToSeq(Cached) /\ free = Pool /\ managed = <<>> /\ marked = <<>> /\ cleared = 0
      /\ held = [t \in Threads |-> <<>>]
  BY DEF Init
<1>2. IsInjective(cached) /\ ToSet(cached) = Cached
  BY <1>1, AllOnce, QueueAssumption
<1>3. TypeOK
  BY InitControl DEF Control
<1>4. Undisposed = <<>>
  BY <1>1, <1>3, UndisposedType
<1>5. /\ ToSet(managed) = {} /\ ToSet(Undisposed) = {}
      /\ IsInjective(managed) /\ IsInjective(Undisposed)
  BY <1>1, <1>4, EmptySet
<1>6. \A t \in Threads : IsInjective(held[t]) /\ HeldSets[t] = {}
  BY <1>1, EmptySet DEF HeldSets
<1>7. Apart(Cached, Pool, {}, {}, HeldSets)
  BY <1>6, QueueAssumption DEF Apart, Nodes
<1> QED
  BY <1>1, <1>2, <1>5, <1>6, <1>7 DEF NodesOK

LEMMA HeldType ==
  ASSUME TypeOK
  PROVE  /\ HeldSets \in [Threads -> SUBSET Nodes]
         /\ \A t \in Threads : HeldSets[t] = ToSet(held[t]) /\ held[t] \in Seq(Nodes)
<1>1. \A t \in Threads : held[t] \in Seq(Nodes)
  BY DEF TypeOK
<1>2. \A t \in Threads : ToSet(held[t]) \subseteq Nodes
  <2> SUFFICES ASSUME NEW t \in Threads, NEW n \in ToSet(held[t]) PROVE n \in Nodes
    OBVIOUS
  <2>1. DOMAIN held[t] = 1..Len(held[t]) /\ held[t] \in Seq(Nodes)
    BY <1>1, LenProperties
  <2>2. PICK i \in 1..Len(held[t]) : n = held[t][i]
    BY <2>1 DEF ToSet
  <2> QED
    BY <2>1, <2>2, SeqElement
<1> QED
  BY <1>1, <1>2 DEF HeldSets

LEMMA NodesKept ==
  ASSUME NodesOK, UNCHANGED <<cached, free, managed, marked, cleared, held>>
  PROVE  NodesOK'
<1>1. Undisposed' = Undisposed /\ HeldSets' = HeldSets
  BY DEF Undisposed, HeldSets
<1> QED
  BY <1>1 DEF NodesOK

LEMMA HoldNodes ==
  ASSUME TypeOK, TypeOK', NodesOK, NEW t \in Threads, HoldCached(t) \/ HoldPool(t)
  PROVE  NodesOK'
<1>1. /\ cached \in Seq(Cached) /\ free \in SUBSET Pool /\ held \in [Threads -> Seq(Nodes)]
  BY DEF TypeOK
<1>2. UNCHANGED <<managed, marked, cleared>>
  BY DEF HoldCached, HoldPool
<1>3. /\ IsInjective(cached) /\ IsInjective(managed) /\ IsInjective(Undisposed)
      /\ \A u \in Threads : IsInjective(held[u])
      /\ Apart(ToSet(cached), free, ToSet(managed), ToSet(Undisposed), HeldSets)
  BY DEF NodesOK
<1>4. \/ UNCHANGED <<cached, free, held>>
      \/ \E n \in ToSet(cached) \cup free :
           /\ held' = [held EXCEPT ![t] = Append(@, n)]
           /\ IsInjective(cached') /\ ToSet(cached') = ToSet(cached) \ {n} /\ free' = free \ {n}
  <2>1. CASE HoldCached(t) /\ cached = <<>>
    BY <2>1 DEF HoldCached, hold
  <2>2. CASE HoldCached(t) /\ cached # <<>>
    <3>1. /\ cached' = Tail(cached) /\ held' = [held EXCEPT ![t] = Append(@, Head(cached))]
          /\ free' = free
      BY <2>2 DEF HoldCached, Take
    <3>2. /\ IsInjective(Tail(cached)) /\ Head(cached) \in ToSet(cached)
          /\ ToSet(Tail(cached)) = ToSet(cached) \ {Head(cached)}
      BY <1>1, <1>3, <2>2, InjectiveTail
    <3>3. free \ {Head(cached)} = free
      BY <1>1, <1>3, <3>2, QueueAssumption DEF Apart
    <3> QED
      BY <3>1, <3>2, <3>3
  <2>3. CASE HoldPool(t)
    <3>1. PICK n \in free : /\ held' = [held EXCEPT ![t] = Append(@, n)]
                            /\ free' = free \ {n} /\ cached' = cached
      BY <2>3 DEF HoldPool, Take
    <3>2. ToSet(cached) \ {n} = ToSet(cached)
      BY <1>1, <1>3, <3>1, QueueAssumption DEF Apart
    <3> QED
      BY <1>3, <3>1, <3>2
  <2> QED
    BY <2>1, <2>2, <2>3
<1>5. CASE UNCHANGED <<cached, free, held>>
  BY <1>2, <1>5, NodesKept
<1>6. ASSUME NEW n \in ToSet(cached) \cup free,
             held' = [held EXCEPT ![t] = Append(@, n)],
             IsInjective(cached'), ToSet(cached') = ToSet(cached) \ {n}, free' = free \ {n}
      PROVE  NodesOK'
  <2>1. /\ held'[t] = Append(held[t], n) /\ held[t] \in Seq(Nodes)
        /\ \A u \in Threads \ {t} : held'[u] = held[u]
    BY <1>1, <1>6
  <2>2. n \in Nodes /\ n \notin HeldSets[t]
    BY <1>3 DEF Apart, Nodes
  <2>3. HeldSets[t] = ToSet(held[t])
    BY DEF HeldSets
  <2>4. IsInjective(held'[t]) /\ ToSet(held'[t]) = ToSet(held[t]) \cup {n}
    BY <1>3, <2>1, <2>2, <2>3, InjectiveAppend
  <2>5. /\ HeldSets'[t] = HeldSets[t] \cup {n}
        /\ \A u \in Threads \ {t} : HeldSets'[u] = HeldSets[u]
    BY <2>1, <2>3, <2>4 DEF HeldSets
  <2>6. HeldSets \in [Threads -> SUBSET Nodes]
    BY HeldType
  <2>7. Apart(ToSet(cached) \ {n}, free \ {n}, ToSet(managed), ToSet(Undisposed), HeldSets')
    BY <1>3, <2>5, <2>6, ApartHold
  <2>8. Undisposed' = Undisposed
    BY <1>2 DEF Undisposed
  <2>9. \A u \in Threads : IsInjective(held'[u])
    BY <1>3, <2>1, <2>4
  <2> QED
    BY <1>2, <1>3, <1>6, <2>7, <2>8, <2>9 DEF NodesOK
<1> QED
  BY <1>4, <1>5, <1>6

LEMMA SpliceNodes ==
  ASSUME TypeOK, TypeOK', NodesOK, NEW t \in Threads, Splice(t)
  PROVE  NodesOK'
<1>1. /\ managed \in Seq(Nodes) /\ held \in [Threads -> Seq(Nodes)] /\ held[t] \in Seq(Nodes)
  BY DEF TypeOK
<1>2. /\ managed' = managed \o held[t] /\ held' = [held EXCEPT ![t] = <<>>]
      /\ UNCHANGED <<cached, free, marked, cleared>>
  BY DEF Splice
<1>3. /\ IsInjective(cached) /\ IsInjective(managed) /\ IsInjective(Undisposed)
      /\ \A u \in Threads : IsInjective(held[u])
      /\ Apart(ToSet(cached), free, ToSet(managed), ToSet(Undisposed), HeldSets)
  BY DEF NodesOK
<1>4. held'[t] = <<>> /\ \A u \in Threads \ {t} : held'[u] = held[u]
  BY <1>1, <1>2
<1>5. /\ HeldSets \in [Threads -> SUBSET Nodes] /\ HeldSets[t] = ToSet(held[t])
      /\ HeldSets'[t] = {} /\ \A u \in Threads \ {t} : HeldSets'[u] = HeldSets[u]
  BY <1>4, HeldType, EmptySet DEF HeldSets
<1>6. /\ Apart(ToSet(cached), free, ToSet(managed) \cup HeldSets[t], ToSet(Undisposed), HeldSets')
      /\ ToSet(managed) \cap HeldSets[t] = {}
  <2>1. PICK h2 : h2 = HeldSets'
    OBVIOUS
  <2>2. h2[t] = {} /\ \A u \in Threads \ {t} : h2[u] = HeldSets[u]
    BY <1>5, <2>1
  <2>3. HeldSets \in [Threads -> SUBSET Nodes]
    BY <1>5
  <2>4. /\ Apart(ToSet(cached), free, ToSet(managed) \cup HeldSets[t], ToSet(Undisposed), h2)
        /\ ToSet(managed) \cap HeldSets[t] = {}
    BY <1>3, <2>2, <2>3, ApartSplice
  <2> QED
    BY <2>1, <2>4
<1>7. ToSet(managed') = ToSet(managed) \cup HeldSets[t] /\ IsInjective(managed')
  BY <1>1, <1>2, <1>3, <1>5, <1>6, ConcatSet, InjectiveConcat
<1>8. \A u \in Threads : IsInjective(held'[u])
  BY <1>3, <1>4, EmptySet
<1>9. Undisposed' = Undisposed
  BY <1>2 DEF Undisposed
<1> QED
  BY <1>2, <1>3, <1>6, <1>7, <1>8, <1>9 DEF NodesOK

LEMMA MarkSwapNodes ==
  ASSUME Control, Control', NodesOK, NEW t \in Threads, MarkSwap(t)
  PROVE  NodesOK'
<1>1. CASE managed = <<>>
  BY <1>1, NodesKept DEF MarkSwap, hold
<1>2. CASE managed # <<>>
  <2>1. /\ marked' = managed /\ managed' = marked
        /\ UNCHANGED <<cached, free, cleared, held>>
    BY <1>2 DEF MarkSwap, hold
  <2>2. marked = <<>> /\ cleared = 0
    <3>1. marked = <<>>
      BY QueueAssumption DEF Control, UserOK, MarkSwap, At
    <3>2. Len(marked) = 0
      BY <3>1
    <3> QED
      BY <3>1, <3>2 DEF Control, TypeOK
  <2>3. TypeOK /\ TypeOK'
    BY DEF Control
  <2>4. Undisposed = <<>>
    BY <2>2, <2>3, UndisposedType
  <2>5. Undisposed' = managed
    <3>1. managed \in Seq(Nodes)
      BY <2>3 DEF TypeOK
    <3>2. Undisposed' = SubSeq(managed, 1, Len(managed))
      BY <2>1, <2>2 DEF Undisposed
    <3> QED
      BY <3>1, <3>2, SubSeqFull
  <2>6. /\ IsInjective(cached) /\ IsInjective(managed)
        /\ \A u \in Threads : IsInjective(held[u])
        /\ Apart(ToSet(cached), free, ToSet(managed), ToSet(Undisposed), HeldSets)
    BY DEF NodesOK
  <2>7. Apart(ToSet(cached), free, {}, ToSet(managed), HeldSets)
    BY <2>4, <2>6, EmptySet, ApartSwap
  <2>8. managed' = <<>> /\ ToSet(managed') = {} /\ IsInjective(managed') /\ HeldSets' = HeldSets
    BY <2>1, <2>2, EmptySet DEF HeldSets
  <2> QED
    BY <2>1, <2>5, <2>6, <2>7, <2>8 DEF NodesOK
<1> QED
  BY <1>1, <1>2

LEMMA ReleaseNodes ==
  ASSUME Control, Control', NodesOK, NEW t \in Threads, Release(t)
  PROVE  NodesOK'
<1>0. TypeOK /\ TypeOK'
  BY DEF Control
<1>1. /\ marked \in Seq(Nodes) /\ Len(marked) \in Nat /\ cleared \in 0..Len(marked)
      /\ cached \in Seq(Cached) /\ free \in SUBSET Pool
  BY <1>0, LenProperties DEF TypeOK
<1>2. cleared < Len(marked)
  BY DEF Release, At, Control, ProgressOK
<1>3. PICK n : n = marked[cleared + 1]
  OBVIOUS
<1>4. /\ IF n \in Cached THEN cached' = <<n>> \o cached /\ UNCHANGED free
                         ELSE free' = free \cup {n} /\ UNCHANGED cached
      /\ cleared' = cleared + 1 /\ UNCHANGED <<managed, marked, held>>
  BY <1>3 DEF Release, hold
<1>5. /\ IsInjective(cached) /\ IsInjective(managed) /\ IsInjective(Undisposed)
      /\ \A u \in Threads : IsInjective(held[u])
      /\ Apart(ToSet(cached), free, ToSet(managed), ToSet(Undisposed), HeldSets)
  BY DEF NodesOK
<1>6. /\ Undisposed \in Seq(Nodes) /\ Undisposed # <<>> /\ Head(Undisposed) = n
      /\ Tail(Undisposed) = SubSeq(marked, cleared + 2, Len(marked))
  BY <1>0, <1>2, <1>3, UndisposedType
<1>7. /\ IsInjective(Tail(Undisposed)) /\ n \in ToSet(Undisposed)
      /\ ToSet(Tail(Undisposed)) = ToSet(Undisposed) \ {n}
  BY <1>5, <1>6, InjectiveTail
<1>8. Undisposed' = Tail(Undisposed)
  <2>1. (cleared + 1) + 1 = cleared + 2
    BY <1>1
  <2> QED
    BY <1>4, <1>6, <2>1 DEF Undisposed
<1>9. n \notin ToSet(cached)
  BY <1>5, <1>7 DEF Apart
<1>10. /\ IsInjective(cached')
       /\ \/ n \in Cached /\ ToSet(cached') = ToSet(cached) \cup {n} /\ free' = free
          \/ n \notin Cached /\ ToSet(cached') = ToSet(cached) /\ free' = free \cup {n}
  <2>1. CASE n \in Cached
    <3>1. <<n>> \in Seq(Cached) /\ ToSet(<<n>>) = {n} /\ IsInjective(<<n>>)
      BY <2>1, OneElement
    <3>2. ToSet(<<n>>) \cap ToSet(cached) = {}
      BY <1>9, <3>1
    <3>3. IsInjective(<<n>> \o cached) /\ ToSet(<<n>> \o cached) = {n} \cup ToSet(cached)
      <4>1. IsInjective(<<n>> \o cached)
        BY <1>1, <1>5, <3>1, <3>2, InjectiveConcat
      <4>2. ToSet(<<n>> \o cached) = ToSet(<<n>>) \cup ToSet(cached)
        <5>1. PICK r \in Seq(Cached) : r = <<n>>
          BY <3>1
        <5>2. ToSet(r \o cached) = ToSet(r) \cup ToSet(cached)
          BY <1>1, ConcatSet
        <5> QED
          BY <5>1, <5>2
      <4> QED
        BY <3>1, <4>1, <4>2
    <3> QED
      BY <1>4, <2>1, <3>3
  <2>2. CASE n \notin Cached
    BY <1>4, <1>5, <2>2
  <2> QED
    BY <2>1, <2>2
<1>11. Apart(ToSet(cached'), free', ToSet(managed), ToSet(Undisposed) \ {n}, HeldSets)
  BY <1>5, <1>7, <1>10, ApartRelease
<1>12. HeldSets' = HeldSets
  BY <1>4 DEF HeldSets
<1> QED
  BY <1>4, <1>5, <1>7, <1>8, <1>10, <1>11, <1>12 DEF NodesOK

LEMMA ClearEndNodes ==
  ASSUME Control, Control', NodesOK, NEW t \in Threads, ClearEnd(t)
  PROVE  NodesOK'
<1>1. /\ cleared = Len(marked) /\ marked' = <<>> /\ cleared' = 0
      /\ UNCHANGED <<cached, free, managed, held>>
  BY DEF ClearEnd, hold
<1>2. TypeOK /\ TypeOK'
  BY DEF Control
<1>3. Undisposed = <<>>
  BY <1>1, <1>2, UndisposedType
<1>4. Undisposed' = <<>>
  <2>1. Undisposed' = SubSeq(<<>>, 1, 0)
    BY <1>1 DEF Undisposed
  <2> QED
    BY <2>1, SubSeqEmpty
<1>5. HeldSets' = HeldSets
  BY <1>1 DEF HeldSets
<1> QED
  BY <1>1, <1>3, <1>4, <1>5 DEF NodesOK

LEMMA NodesInductive == Control /\ Control' /\ NodesOK /\ [Next]_vars => NodesOK'
<1> SUFFICES ASSUME Control, Control', NodesOK, [Next]_vars PROVE NodesOK'
  OBVIOUS
<1>0. TypeOK /\ TypeOK' /\ LengthOK /\ held \in [Threads -> Seq(Nodes)]
  BY DEF Control, TypeOK
<1>1. ASSUME NEW t \in Threads, Manage(t) PROVE NodesOK'
  <2>1. held[t] = <<>> /\ held' = [held EXCEPT ![t] = <<>>]
    BY <1>0, <1>1 DEF Manage, At, LengthOK
  <2>2. held' = held
    BY <1>0, <2>1
  <2> QED
    BY <1>1, <2>2, NodesKept DEF Manage, lists
<1>2. ASSUME NEW t \in Threads, HoldCached(t) \/ HoldPool(t) PROVE NodesOK'
  BY <1>0, <1>2, HoldNodes
<1>3. ASSUME NEW t \in Threads, Fill(t) \/ MarkLook(t) \/ Decide(t) \/ Complete(t) \/ Wipe(t)
      PROVE  NodesOK'
  BY <1>3, NodesKept DEF Fill, MarkLook, Decide, Complete, Wipe, lists, hold
<1>4. ASSUME NEW t \in Threads, Splice(t) PROVE NodesOK'
  BY <1>0, <1>4, SpliceNodes
<1>5. ASSUME NEW t \in Threads, MarkSwap(t) PROVE NodesOK'
  BY <1>5, MarkSwapNodes
<1>6. ASSUME NEW t \in Threads, Release(t) PROVE NodesOK'
  BY <1>6, ReleaseNodes
<1>7. ASSUME NEW t \in Threads, ClearEnd(t) PROVE NodesOK'
  BY <1>7, ClearEndNodes
<1>8. CASE SendBuffer \/ UNCHANGED vars
  BY <1>8, NodesKept DEF SendBuffer, vars, lists, hold
<1> QED
  BY <1>1, <1>2, <1>3, <1>4, <1>5, <1>6, <1>7, <1>8 DEF Next, Finished

LEMMA NodesMeanOnce ==
  ASSUME TypeOK, NodesOK
  PROVE  NodeOnce
<1> DEFINE listed == cached \o managed \o Undisposed
           C == ToSet(cached)
           G == ToSet(managed)
           K == ToSet(Undisposed)
<1>1. /\ cached \in Seq(Cached) /\ cached \in Seq(Nodes) /\ managed \in Seq(Nodes)
      /\ Undisposed \in Seq(Nodes) /\ free \subseteq Pool
  <2>1. cached \in Seq(Cached) /\ Cached \subseteq Nodes
    BY DEF TypeOK, Nodes
  <2>2. cached \in Seq(Nodes)
    BY <2>1
  <2> QED
    BY <2>1, <2>2, UndisposedType DEF TypeOK
<1>2. /\ IsInjective(cached) /\ IsInjective(managed) /\ IsInjective(Undisposed)
      /\ \A t \in Threads : IsInjective(held[t])
      /\ Apart(C, free, G, K, HeldSets)
  BY DEF NodesOK
<1>3. \A t \in Threads : HeldSets[t] = ToSet(held[t])
  BY DEF HeldSets
<1>4. cached \o managed \in Seq(Nodes) /\ ToSet(cached \o managed) = C \cup G
  BY <1>1, ConcatProperties, ConcatSet
<1>5. G \cap C = {} /\ K \cap C = {} /\ G \cap K = {}
  BY <1>2 DEF Apart
<1>6. IsInjective(cached \o managed)
  <2>1. ToSet(cached) \cap ToSet(managed) = {}
    BY <1>5
  <2> QED
    BY <1>1, <1>2, <2>1, InjectiveConcat
<1>7. ToSet(listed) = C \cup G \cup K
  <2>1. ToSet((cached \o managed) \o Undisposed) = ToSet(cached \o managed) \cup ToSet(Undisposed)
    <3>1. PICK r \in Seq(Nodes) : r = cached \o managed
      BY <1>4
    <3>2. ToSet(r \o Undisposed) = ToSet(r) \cup ToSet(Undisposed)
      BY <1>1, ConcatSet
    <3> QED
      BY <3>1, <3>2
  <2> QED
    BY <1>4, <2>1
<1>8. IsInjective(listed)
  <2>1. ToSet(cached \o managed) \cap ToSet(Undisposed) = {}
    BY <1>4, <1>5
  <2> QED
    BY <1>1, <1>2, <1>4, <1>6, <2>1, InjectiveConcat
<1>9. ToSet(listed) \cap free = {}
  <2>1. C \cap free = {} /\ G \cap free = {} /\ K \cap free = {}
    BY <1>2, QueueAssumption DEF Apart
  <2> QED
    BY <1>7, <2>1
<1>10. ASSUME NEW t \in Threads
       PROVE  /\ IsInjective(held[t]) /\ ToSet(held[t]) \cap (ToSet(listed) \cup free) = {}
              /\ \A u \in Threads \ {t} : ToSet(held[t]) \cap ToSet(held[u]) = {}
  <2>1. /\ ToSet(held[t]) \cap C = {} /\ ToSet(held[t]) \cap free = {}
        /\ ToSet(held[t]) \cap G = {} /\ ToSet(held[t]) \cap K = {}
    BY <1>2, <1>3 DEF Apart
  <2>2. \A u \in Threads \ {t} : ToSet(held[t]) \cap ToSet(held[u]) = {}
    BY <1>2, <1>3 DEF Apart
  <2> QED
    BY <1>2, <1>7, <2>1, <2>2
<1>11. free \cup ToSet(listed) \cup UNION {ToSet(held[t]) : t \in Threads} = Nodes
  <2>1. ASSUME NEW n \in Nodes
        PROVE  n \in C \/ n \in free \/ n \in G \/ n \in K \/ \E t \in Threads : n \in ToSet(held[t])
    BY <1>2, <1>3 DEF Apart
  <2>2. /\ C \subseteq Nodes /\ free \subseteq Nodes /\ G \subseteq Nodes /\ K \subseteq Nodes
        /\ \A t \in Threads : ToSet(held[t]) \subseteq Nodes
    BY <1>2, <1>3 DEF Apart, Nodes
  <2> QED
    BY <1>7, <2>1, <2>2
<1> QED
  BY <1>1, <1>8, <1>9, <1>10, <1>11 DEF NodeOnce

(* No node leaks, none is handed out twice, and each kind stays of its kind. *)
THEOREM NodesAccountedFor == Spec => []NodeOnce
<1>1. Init => Control /\ NodesOK
  BY InitControl, InitNodes
<1>2. Control /\ [Next]_vars => Control'
  BY ControlInductive
<1>3. Control /\ Control' /\ NodesOK /\ [Next]_vars => NodesOK'
  BY NodesInductive
<1>4. Control /\ NodesOK => NodeOnce
  BY NodesMeanOnce DEF Control
<1> QED
  BY <1>1, <1>2, <1>3, <1>4, PTL DEF Spec

----------------------------------------------------------------------------
(* What the nodes refer to.                                                  *)

(* How many of its nodes manage() has filled.                                *)
Filled(t) == IF pc[t] = "fill" THEN Len(held[t]) - 1 ELSE Len(held[t])

FilledOK ==
  \A t \in Threads : \A i \in 1..Filled(t) : contents[held[t][i]] = batch[t][i]

LEMMA InSet ==
  ASSUME NEW S, NEW s \in Seq(S), NEW i \in 1..Len(s)
  PROVE  s[i] \in ToSet(s)
<1>1. DOMAIN s = 1..Len(s)
  BY LenProperties
<1> QED
  BY <1>1 DEF ToSet

LEMMA LastHeld ==
  ASSUME Control, NEW t \in Threads, Fill(t)
  PROVE  /\ held[t] \in Seq(Nodes) /\ Len(held[t]) \in Nat \ {0}
         /\ Last(held[t]) = held[t][Len(held[t])]
         /\ Last(held[t]) \in Nodes /\ Last(held[t]) \in HeldSets[t]
<1>1. held[t] \in Seq(Nodes) /\ Len(held[t]) \in Nat /\ batch[t] \in Seq(Items) /\ Len(batch[t]) \in Nat
  BY LenProperties DEF Control, TypeOK
<1>2. Len(held[t]) \in 1..Len(batch[t])
  BY DEF Control, LengthOK, Fill, At
<1>3. Len(held[t]) \in 1..Len(held[t])
  BY <1>1, <1>2
<1>4. Last(held[t]) = held[t][Len(held[t])]
  BY DEF Last
<1>5. held[t][Len(held[t])] \in ToSet(held[t]) /\ held[t][Len(held[t])] \in Nodes
  BY <1>1, <1>3, InSet, SeqElement
<1> QED
  BY <1>1, <1>2, <1>4, <1>5 DEF HeldSets

(* A step that leaves a thread's nodes, and what they refer to, alone.       *)
LEMMA FilledSame ==
  ASSUME FilledOK, NEW t \in Threads, held[t] \in Seq(Nodes),
         held'[t] = held[t], batch'[t] = batch[t], (pc'[t] = "fill") <=> (pc[t] = "fill"),
         \A n \in ToSet(held[t]) : contents'[n] = contents[n]
  PROVE  \A i \in 1..Filled(t)' : contents'[held'[t][i]] = batch'[t][i]
<1>1. Filled(t)' = Filled(t) /\ Len(held[t]) \in Nat
  BY LenProperties DEF Filled
<1>2. \A i \in 1..Filled(t) : i \in 1..Len(held[t])
  BY <1>1 DEF Filled
<1>3. \A i \in 1..Filled(t) : held[t][i] \in ToSet(held[t])
  BY <1>2, InSet
<1> QED
  BY <1>1, <1>3 DEF FilledOK

LEMMA FilledInductive == Control /\ Control' /\ NodesOK /\ FilledOK /\ [Next]_vars => FilledOK'
<1> SUFFICES ASSUME Control, Control', NodesOK, FilledOK, [Next]_vars PROVE FilledOK'
  OBVIOUS
<1>0. /\ TypeOK /\ LengthOK /\ TypeOK' /\ LengthOK'
      /\ pc \in [Threads -> Labels] /\ held \in [Threads -> Seq(Nodes)]
      /\ contents \in [Nodes -> Items]
      /\ \A t \in Threads : held[t] \in Seq(Nodes) /\ Len(held[t]) \in Nat
  BY LenProperties DEF Control, TypeOK
<1> DEFINE Good(t) == \A i \in 1..Filled(t)' : contents'[held'[t][i]] = batch'[t][i]
<1>a. ASSUME NEW t \in Threads, held'[t] = <<>> PROVE Good(t)
  <2>1. Len(held'[t]) = 0
    BY <1>a
  <2>2. 1..Filled(t)' = {}
    BY <2>1 DEF Filled
  <2> QED
    BY <2>2
<1>b. ASSUME NEW t \in Threads, NEW l, Go(t, l), UNCHANGED <<held, batch, contents>>
      PROVE  \A u \in Threads \ {t} : Good(u)
  <2> SUFFICES ASSUME NEW u \in Threads \ {t} PROVE Good(u)
    OBVIOUS
  <2>1. pc'[u] = pc[u]
    BY <1>0, <1>b DEF Go
  <2> QED
    BY <1>0, <1>b, <2>1, FilledSame
<1>1. ASSUME NEW t \in Threads, Manage(t) PROVE FilledOK'
  <2>1. /\ held' = [held EXCEPT ![t] = <<>>] /\ contents' = contents
        /\ \A u \in Threads \ {t} : batch'[u] = batch[u] /\ pc'[u] = pc[u] /\ held'[u] = held[u]
    <3>1. /\ batch \in [Threads -> Seq(Items)]
          /\ \E b, l : batch' = [batch EXCEPT ![t] = b] /\ Go(t, l)
      BY <1>0, <1>1 DEF Manage, TypeOK
    <3> QED
      BY <1>0, <1>1, <3>1 DEF Manage, Go, lists
  <2>2. Good(t)
    BY <1>0, <1>a, <2>1
  <2>3. \A u \in Threads \ {t} : Good(u)
    BY <1>0, <2>1, FilledSame
  <2> QED
    BY <2>2, <2>3 DEF FilledOK
<1>2. ASSUME NEW t \in Threads, HoldCached(t) \/ HoldPool(t) PROVE FilledOK'
  <2>1. /\ pc[t] \in {"hold", "malloc"} /\ contents' = contents /\ batch' = batch
        /\ \/ Go(t, "malloc") /\ held' = held
           \/ \E n \in Nodes : Go(t, "fill") /\ held' = [held EXCEPT ![t] = Append(@, n)]
    <3>1. CASE HoldCached(t) /\ cached = <<>>
      BY <3>1 DEF HoldCached, At, hold
    <3>2. CASE HoldCached(t) /\ cached # <<>>
      <4>1. cached \in Seq(Cached)
        BY <1>0 DEF TypeOK
      <4>2. Head(cached) \in Nodes
        BY <3>2, <4>1, HeadTailProperties DEF Nodes
      <4> QED
        BY <3>2, <4>2 DEF HoldCached, At, Take
    <3>3. CASE HoldPool(t)
      BY <1>0, <3>3 DEF HoldPool, At, Take, TypeOK, Nodes
    <3> QED
      BY <1>2, <3>1, <3>2, <3>3
  <2>2. CASE Go(t, "malloc") /\ held' = held
    <3>1. pc'[t] = "malloc"
      BY <1>0, <2>2 DEF Go
    <3>2. Good(t)
      BY <1>0, <2>1, <2>2, <3>1, FilledSame
    <3> QED
      BY <1>b, <2>1, <2>2, <3>2 DEF FilledOK
  <2>3. ASSUME NEW n \in Nodes, Go(t, "fill"), held' = [held EXCEPT ![t] = Append(@, n)]
        PROVE  FilledOK'
    <3>1. /\ pc'[t] = "fill" /\ held'[t] = Append(held[t], n)
          /\ \A u \in Threads \ {t} : pc'[u] = pc[u] /\ held'[u] = held[u]
      BY <1>0, <2>3 DEF Go
    <3>2. /\ Len(Append(held[t], n)) = Len(held[t]) + 1
          /\ \A i \in 1..Len(held[t]) : Append(held[t], n)[i] = held[t][i]
      BY <1>0, AppendProperties
    <3>3. Filled(t)' = Len(held[t]) /\ Filled(t) = Len(held[t])
      BY <1>0, <2>1, <3>1, <3>2 DEF Filled
    <3>4. Good(t)
      <4> SUFFICES ASSUME NEW i \in 1..Filled(t)'
                   PROVE  contents'[held'[t][i]] = batch'[t][i]
        OBVIOUS
      <4>1. i \in 1..Filled(t) /\ i \in 1..Len(held[t])
        BY <3>3
      <4>2. contents[held[t][i]] = batch[t][i]
        BY <4>1 DEF FilledOK
      <4>3. held'[t][i] = held[t][i]
        BY <3>1, <3>2, <4>1
      <4> QED
        BY <2>1, <4>2, <4>3
    <3>5. ASSUME NEW u \in Threads \ {t} PROVE Good(u)
      <4>1. held[u] \in Seq(Nodes) /\ held'[u] = held[u] /\ pc'[u] = pc[u]
        BY <1>0, <3>1
      <4>2. batch'[u] = batch[u] /\ contents' = contents
        BY <2>1
      <4> QED
        BY <4>1, <4>2, FilledSame
    <3> QED
      BY <3>4, <3>5 DEF FilledOK
  <2> QED
    BY <2>1, <2>2, <2>3
<1>3. ASSUME NEW t \in Threads, Fill(t) PROVE FilledOK'
  <2>1. /\ held[t] \in Seq(Nodes) /\ Len(held[t]) \in Nat \ {0}
        /\ Last(held[t]) = held[t][Len(held[t])]
        /\ Last(held[t]) \in Nodes /\ Last(held[t]) \in HeldSets[t]
    BY <1>3, LastHeld
  <2>2. /\ contents' = [contents EXCEPT ![Last(held[t])] = batch[t][Len(held[t])]]
        /\ UNCHANGED <<held, batch>> /\ pc[t] = "fill"
        /\ pc'[t] # "fill" /\ \A u \in Threads \ {t} : pc'[u] = pc[u]
    BY <1>0, <1>3 DEF Fill, Go, At, hold
  <2>3. /\ contents'[Last(held[t])] = batch[t][Len(held[t])]
        /\ \A n \in Nodes \ {Last(held[t])} : contents'[n] = contents[n]
    BY <1>0, <2>1, <2>2
  <2>4. Good(t)
    <3>1. Filled(t)' = Len(held[t]) /\ Filled(t) = Len(held[t]) - 1
      BY <2>2 DEF Filled
    <3>2. \A i \in 1..(Len(held[t]) - 1) : /\ i \in 1..Len(held[t]) /\ Len(held[t]) \in 1..Len(held[t])
                                           /\ i # Len(held[t])
      BY <2>1
    <3>3. IsInjective(held[t]) /\ DOMAIN held[t] = 1..Len(held[t])
      BY <2>1, LenProperties DEF NodesOK
    <3>4. ASSUME NEW i \in 1..(Len(held[t]) - 1)
          PROVE  held[t][i] # Last(held[t]) /\ held[t][i] \in Nodes
      <4>1. held[t][i] \in Nodes
        BY <2>1, <3>2, SeqElement
      <4>2. held[t][i] # held[t][Len(held[t])]
        BY <3>2, <3>3 DEF IsInjective
      <4> QED
        BY <2>1, <4>1, <4>2
    <3>5. \A i \in 1..(Len(held[t]) - 1) : contents'[held[t][i]] = batch[t][i]
      BY <2>3, <3>1, <3>4 DEF FilledOK
    <3>6. \A i \in 1..Len(held[t]) : i = Len(held[t]) \/ i \in 1..(Len(held[t]) - 1)
      BY <2>1
    <3> QED
      BY <2>1, <2>2, <2>3, <3>1, <3>5, <3>6
  <2>5. ASSUME NEW u \in Threads \ {t} PROVE Good(u)
    <3>1. HeldSets[u] \cap HeldSets[t] = {} /\ HeldSets[u] \subseteq Nodes
      BY DEF NodesOK, Apart
    <3>2. \A n \in ToSet(held[u]) : n \in Nodes /\ n # Last(held[t])
      BY <2>1, <3>1 DEF HeldSets
    <3>3. \A n \in ToSet(held[u]) : contents'[n] = contents[n]
      BY <2>3, <3>2
    <3>4. /\ held[u] \in Seq(Nodes) /\ held'[u] = held[u] /\ batch'[u] = batch[u]
          /\ (pc'[u] = "fill") <=> (pc[u] = "fill")
      BY <1>0, <2>2
    <3> QED
      BY <3>3, <3>4, FilledSame
  <2> QED
    BY <2>4, <2>5 DEF FilledOK
<1>4. ASSUME NEW t \in Threads, Splice(t) PROVE FilledOK'
  <2>1. /\ held'[t] = <<>> /\ contents' = contents /\ batch' = batch
        /\ \A u \in Threads \ {t} : pc'[u] = pc[u] /\ held'[u] = held[u]
    BY <1>0, <1>4 DEF Splice, Go
  <2>2. Good(t)
    BY <1>a, <2>1
  <2>3. \A u \in Threads \ {t} : Good(u)
    BY <1>0, <2>1, FilledSame
  <2> QED
    BY <2>2, <2>3 DEF FilledOK
<1>5. ASSUME NEW t \in Threads,
             MarkLook(t) \/ MarkSwap(t) \/ Decide(t) \/ Complete(t) \/ Release(t) \/ ClearEnd(t)
      PROVE  FilledOK'
  <2>1. /\ pc[t] \notin {"hold", "malloc", "fill", "splice"} /\ UNCHANGED <<held, batch, contents>>
        /\ \E l : Go(t, l)
    BY <1>5 DEF MarkLook, MarkSwap, Decide, Complete, Release, ClearEnd, At, Answer, lists, hold
  <2>2. held'[t] = <<>>
    BY <1>0, <2>1 DEF LengthOK
  <2> QED
    BY <1>a, <1>b, <2>1, <2>2 DEF FilledOK
<1>6. ASSUME NEW t \in Threads, Wipe(t) PROVE FilledOK'
  <2>1. /\ contents' = [contents EXCEPT ![marked[cleared + 1]] = Empty]
        /\ UNCHANGED <<held, batch>> /\ pc[t] = "clear" /\ pc'[t] = "release"
        /\ \A u \in Threads \ {t} : pc'[u] = pc[u]
        /\ cleared < Len(marked)
    BY <1>0, <1>6 DEF Wipe, Go, At, hold
  <2>2. marked[cleared + 1] \in ToSet(Undisposed)
    <3>1. Undisposed \in Seq(Nodes) /\ Undisposed # <<>> /\ Head(Undisposed) = marked[cleared + 1]
      BY <1>0, <2>1, UndisposedType
    <3> QED
      BY <3>1, InjectiveTail DEF NodesOK
  <2>3. ASSUME NEW u \in Threads PROVE Good(u)
    <3>1. \A n \in ToSet(held[u]) : n \in Nodes /\ n # marked[cleared + 1]
      BY <2>2 DEF NodesOK, Apart, HeldSets
    <3>2. \A n \in ToSet(held[u]) : contents'[n] = contents[n]
      BY <1>0, <2>1, <3>1
    <3>3. (pc'[u] = "fill") <=> (pc[u] = "fill")
      BY <2>1
    <3> QED
      BY <1>0, <2>1, <3>2, <3>3, FilledSame
  <2> QED
    BY <2>3 DEF FilledOK
<1>7. CASE SendBuffer \/ UNCHANGED vars
  <2>1. UNCHANGED <<held, batch, contents, pc>>
    BY <1>7 DEF SendBuffer, vars, lists, hold
  <2> QED
    BY <2>1 DEF FilledOK, Filled
<1> QED
  BY <1>1, <1>2, <1>3, <1>4, <1>5, <1>6, <1>7 DEF Next, Finished

----------------------------------------------------------------------------
(* The queue of items behind the nodes.                                      *)

Queue == ItemsOf(managed)
Out   == IF Clearing THEN <<>> ELSE ItemsOf(marked)

LEMMA ItemsType ==
  ASSUME contents \in [Nodes -> Items], NEW s \in Seq(Nodes)
  PROVE  /\ ItemsOf(s) \in Seq(Items) /\ Len(ItemsOf(s)) = Len(s)
         /\ \A i \in 1..Len(s) : ItemsOf(s)[i] = contents[s[i]]
<1>1. DOMAIN s = 1..Len(s) /\ Len(s) \in Nat /\ \A i \in 1..Len(s) : s[i] \in Nodes
  BY LenProperties, SeqElement
<1>2. ItemsOf(s) = [i \in 1..Len(s) |-> contents[s[i]]]
  BY <1>1 DEF ItemsOf
<1>3. \A i \in 1..Len(s) : contents[s[i]] \in Items
  BY <1>1
<1> QED
  BY <1>1, <1>2, <1>3

LEMMA ItemsSame ==
  ASSUME NEW s \in Seq(Nodes), \A n \in ToSet(s) : contents'[n] = contents[n]
  PROVE  [i \in DOMAIN s |-> contents'[s[i]]] = ItemsOf(s)
<1>1. DOMAIN s = 1..Len(s) /\ \A i \in 1..Len(s) : s[i] \in ToSet(s)
  BY LenProperties, InSet
<1> QED
  BY <1>1 DEF ItemsOf

LEMMA ItemsConcat ==
  ASSUME contents \in [Nodes -> Items], NEW r \in Seq(Nodes), NEW s \in Seq(Nodes),
         NEW b \in Seq(Items), Len(b) = Len(s), \A i \in 1..Len(s) : contents[s[i]] = b[i]
  PROVE  ItemsOf(r \o s) = ItemsOf(r) \o b
<1>1. /\ r \o s \in Seq(Nodes) /\ Len(r \o s) = Len(r) + Len(s)
      /\ \A i \in 1..(Len(r) + Len(s)) : (r \o s)[i] = IF i <= Len(r) THEN r[i] ELSE s[i - Len(r)]
      /\ Len(r) \in Nat /\ Len(s) \in Nat
  BY ConcatProperties, LenProperties
<1>2. /\ ItemsOf(r \o s) \in Seq(Items) /\ Len(ItemsOf(r \o s)) = Len(r) + Len(s)
      /\ \A i \in 1..(Len(r) + Len(s)) : ItemsOf(r \o s)[i] = contents[(r \o s)[i]]
  BY <1>1, ItemsType
<1>3. /\ ItemsOf(r) \in Seq(Items) /\ Len(ItemsOf(r)) = Len(r)
      /\ \A i \in 1..Len(r) : ItemsOf(r)[i] = contents[r[i]]
  BY ItemsType
<1>4. /\ ItemsOf(r) \o b \in Seq(Items) /\ Len(ItemsOf(r) \o b) = Len(r) + Len(s)
      /\ \A i \in 1..(Len(r) + Len(s)) :
           (ItemsOf(r) \o b)[i] = IF i <= Len(r) THEN ItemsOf(r)[i] ELSE b[i - Len(r)]
  <2>1. PICK q \in Seq(Items) : q = ItemsOf(r)
    BY <1>3
  <2>2. Len(q) = Len(r)
    BY <1>3, <2>1
  <2>3. /\ q \o b \in Seq(Items) /\ Len(q \o b) = Len(q) + Len(b)
        /\ \A i \in 1..(Len(q) + Len(b)) : (q \o b)[i] = IF i <= Len(q) THEN q[i] ELSE b[i - Len(q)]
    BY ConcatProperties
  <2>4. /\ q \o b \in Seq(Items) /\ Len(q \o b) = Len(r) + Len(s)
        /\ \A i \in 1..(Len(r) + Len(s)) : (q \o b)[i] = IF i <= Len(r) THEN q[i] ELSE b[i - Len(r)]
    BY <2>2, <2>3
  <2> QED
    BY <2>1, <2>4
<1>5. ASSUME NEW i \in 1..(Len(r) + Len(s)) PROVE ItemsOf(r \o s)[i] = (ItemsOf(r) \o b)[i]
  <2>1. CASE i <= Len(r)
    <3>1. i \in 1..Len(r)
      BY <1>1, <2>1
    <3> QED
      BY <1>1, <1>2, <1>3, <1>4, <2>1, <3>1
  <2>2. CASE ~(i <= Len(r))
    <3>1. i - Len(r) \in 1..Len(s)
      BY <1>1, <2>2
    <3> QED
      BY <1>1, <1>2, <1>4, <2>2, <3>1
  <2> QED
    BY <2>1, <2>2
<1> QED
  BY <1>2, <1>4, <1>5, SeqEqual

(* The steps of a queue that hands out batches.                              *)
Quiet  == UNCHANGED <<Queue, Out, sent, log, order>>
Accept == /\ \E b \in Seq(Items) : Queue' = Queue \o b /\ order' = order \o b
          /\ UNCHANGED <<Out, sent, log>>
Fetch  == /\ Out = <<>> /\ Queue # <<>> /\ sent = 0
          /\ Out' = Queue /\ Queue' = <<>>
          /\ UNCHANGED <<sent, log, order>>
SendOne == /\ sent < Len(Out) /\ sent' = sent + 1
           /\ log' = Append(log, Out[sent + 1])
           /\ UNCHANGED <<Queue, Out, order>>
Finish == /\ Out # <<>> /\ sent = Len(Out) /\ Out' = <<>> /\ sent' = 0
          /\ UNCHANGED <<Queue, log, order>>

QueueStep == Quiet \/ Accept \/ Fetch \/ SendOne \/ Finish

LEMMA QueueType ==
  ASSUME TypeOK
  PROVE  /\ Queue \in Seq(Items) /\ Out \in Seq(Items) /\ Len(Queue) = Len(managed)
         /\ ~Clearing => Len(Out) = Len(marked)
         /\ ~Clearing => \A i \in 1..Len(marked) : Out[i] = contents[marked[i]]
         /\ log \in Seq(Items) /\ order \in Seq(Items) /\ sent \in Nat
<1>1. /\ contents \in [Nodes -> Items] /\ managed \in Seq(Nodes) /\ marked \in Seq(Nodes)
      /\ log \in Seq(Items) /\ order \in Seq(Items) /\ sent \in 0..Len(marked)
  BY DEF TypeOK
<1>2. /\ ItemsOf(managed) \in Seq(Items) /\ Len(ItemsOf(managed)) = Len(managed)
      /\ ItemsOf(marked) \in Seq(Items) /\ Len(ItemsOf(marked)) = Len(marked)
      /\ \A i \in 1..Len(marked) : ItemsOf(marked)[i] = contents[marked[i]]
  BY <1>1, ItemsType
<1>3. <<>> \in Seq(Items)
  OBVIOUS
<1> QED
  BY <1>1, <1>2, <1>3 DEF Queue, Out

LEMMA ClearingMeans == Clearing <=> \E t \in Threads : Clears(t)
BY DEF Clearing, Clears

(* A change of pc that neither begins nor ends a clearing.                   *)
LEMMA StillClearing ==
  ASSUME pc \in [Threads -> Labels], NEW t \in Threads, NEW l, Go(t, l),
         (pc[t] \in {"clear", "release"}) <=> (l \in {"clear", "release"})
  PROVE  Clearing' <=> Clearing
<1>1. \A u \in Threads : pc'[u] = IF u = t THEN l ELSE pc[u]
  BY DEF Go
<1>2. \A u \in Threads : (pc'[u] \in {"clear", "release"}) <=> (pc[u] \in {"clear", "release"})
  BY <1>1
<1> QED
  BY <1>2 DEF Clearing

LEMMA QuietWhen ==
  ASSUME Clearing' <=> Clearing, UNCHANGED <<managed, contents, sent, log, order>>,
         Clearing \/ UNCHANGED marked
  PROVE  QueueStep
<1>1. Queue' = Queue
  BY DEF Queue, ItemsOf
<1>2. Out' = Out
  BY DEF Out, ItemsOf
<1> QED
  BY <1>1, <1>2 DEF QueueStep, Quiet

LEMMA FillQueue ==
  ASSUME Control, NodesOK, NEW t \in Threads, Fill(t)
  PROVE  QueueStep
<1>0. /\ pc \in [Threads -> Labels] /\ contents \in [Nodes -> Items]
      /\ managed \in Seq(Nodes) /\ marked \in Seq(Nodes) /\ TypeOK /\ cleared \in 0..Len(marked)
  BY DEF Control, TypeOK
<1>1. /\ contents' = [contents EXCEPT ![Last(held[t])] = batch[t][Len(held[t])]]
      /\ UNCHANGED <<managed, marked, sent, log, order>>
      /\ pc[t] = "fill" /\ \E l \in {"hold", "splice"} : Go(t, l)
  BY DEF Fill, At, write
<1>2. Last(held[t]) \in HeldSets[t] /\ Last(held[t]) \in Nodes
  BY LastHeld
<1>3. Clearing' <=> Clearing
  BY <1>0, <1>1, StillClearing
<1>4. \A n \in Nodes \ {Last(held[t])} : contents'[n] = contents[n]
  BY <1>0, <1>1
<1>5. /\ ToSet(managed) \subseteq Nodes /\ Last(held[t]) \notin ToSet(managed)
      /\ ToSet(Undisposed) \subseteq Nodes /\ Last(held[t]) \notin ToSet(Undisposed)
  BY <1>2 DEF NodesOK, Apart
<1>6. Queue' = Queue
  <2>1. \A n \in ToSet(managed) : contents'[n] = contents[n]
    BY <1>4, <1>5
  <2> QED
    BY <1>0, <1>1, <2>1, ItemsSame DEF Queue, ItemsOf
<1>7. Out' = Out
  <2>1. CASE Clearing
    BY <1>3, <2>1 DEF Out
  <2>2. CASE ~Clearing
    <3>1. cleared = 0
      BY <2>2, ClearingMeans DEF Control, ProgressOK
    <3>2. Undisposed = marked
      BY <1>0, <3>1, UndisposedType
    <3>3. \A n \in ToSet(marked) : contents'[n] = contents[n]
      BY <1>4, <1>5, <3>2
    <3>4. [i \in DOMAIN marked |-> contents'[marked[i]]] = ItemsOf(marked)
      BY <1>0, <3>3, ItemsSame
    <3> QED
      BY <1>1, <1>3, <2>2, <3>4 DEF Out, ItemsOf
  <2> QED
    BY <2>1, <2>2
<1> QED
  BY <1>1, <1>6, <1>7 DEF QueueStep, Quiet

LEMMA WipeQueue ==
  ASSUME Control, NodesOK, NEW t \in Threads, Wipe(t)
  PROVE  QueueStep
<1>0. /\ pc \in [Threads -> Labels] /\ contents \in [Nodes -> Items]
      /\ managed \in Seq(Nodes) /\ TypeOK
  BY DEF Control, TypeOK
<1>1. /\ contents' = [contents EXCEPT ![marked[cleared + 1]] = Empty]
      /\ UNCHANGED <<managed, marked, sent, log, order>>
      /\ pc[t] = "clear" /\ Go(t, "release") /\ cleared < Len(marked)
  BY DEF Wipe, At, write
<1>2. (Clearing' <=> Clearing) /\ Clearing
  <2>1. Clearing
    BY <1>1 DEF Clearing
  <2> QED
    BY <1>0, <1>1, <2>1, StillClearing
<1>3. marked[cleared + 1] \in ToSet(Undisposed)
  <2>1. Undisposed \in Seq(Nodes) /\ Undisposed # <<>> /\ Head(Undisposed) = marked[cleared + 1]
    BY <1>0, <1>1, UndisposedType
  <2> QED
    BY <2>1, InjectiveTail DEF NodesOK
<1>4. \A n \in ToSet(managed) : n \in Nodes /\ n # marked[cleared + 1]
  BY <1>3 DEF NodesOK, Apart
<1>5. \A n \in ToSet(managed) : contents'[n] = contents[n]
  BY <1>0, <1>1, <1>4
<1>6. Queue' = Queue
  BY <1>0, <1>1, <1>5, ItemsSame DEF Queue, ItemsOf
<1>7. Out' = Out
  BY <1>2 DEF Out
<1> QED
  BY <1>1, <1>6, <1>7 DEF QueueStep, Quiet

LEMMA SpliceQueue ==
  ASSUME Control, FilledOK, NEW t \in Threads, Splice(t)
  PROVE  QueueStep
<1>0. /\ pc \in [Threads -> Labels] /\ contents \in [Nodes -> Items]
      /\ managed \in Seq(Nodes) /\ held[t] \in Seq(Nodes) /\ batch[t] \in Seq(Items)
  BY DEF Control, TypeOK
<1>1. /\ managed' = managed \o held[t] /\ order' = order \o batch[t]
      /\ UNCHANGED <<marked, contents, sent, log>> /\ pc[t] = "splice" /\ Go(t, "mark")
  BY DEF Splice, At, write
<1>2. Len(batch[t]) = Len(held[t]) /\ Filled(t) = Len(held[t])
  BY <1>1 DEF Control, LengthOK, Filled
<1>3. \A i \in 1..Len(held[t]) : contents[held[t][i]] = batch[t][i]
  BY <1>2 DEF FilledOK
<1>4. ItemsOf(managed \o held[t]) = ItemsOf(managed) \o batch[t]
  BY <1>0, <1>2, <1>3, ItemsConcat
<1>5. Queue' = Queue \o batch[t]
  BY <1>1, <1>4 DEF Queue, ItemsOf
<1>6. Clearing' <=> Clearing
  BY <1>0, <1>1, StillClearing
<1>7. Out' = Out
  BY <1>1, <1>6 DEF Out, ItemsOf
<1>8. Accept
  BY <1>0, <1>1, <1>5, <1>7 DEF Accept
<1> QED
  BY <1>8 DEF QueueStep

LEMMA MarkSwapQueue ==
  ASSUME Control, NEW t \in Threads, MarkSwap(t)
  PROVE  QueueStep
<1>0. /\ pc \in [Threads -> Labels] /\ contents \in [Nodes -> Items] /\ TypeOK
      /\ managed \in Seq(Nodes) /\ pc[t] = "swap" /\ sent \in 0..Len(marked)
  BY DEF Control, TypeOK, MarkSwap, At
<1>1. marked = <<>> /\ Len(marked) = 0 /\ sent = 0 /\ ~Clearing
  <2>1. marked = <<>>
    BY <1>0, QueueAssumption DEF Control, UserOK
  <2>2. Len(marked) = 0 /\ sent = 0
    BY <1>0, <2>1
  <2>3. \A u \in Threads : ~Clears(u)
    BY <2>1 DEF Control, UserOK, Uses
  <2> QED
    BY <2>1, <2>2, <2>3, ClearingMeans
<1>2. Clearing' <=> Clearing
  BY <1>0, StillClearing DEF MarkSwap, Answer
<1>3. CASE managed = <<>>
  BY <1>2, <1>3, QuietWhen DEF MarkSwap, write
<1>4. CASE managed # <<>>
  <2>1. /\ marked' = managed /\ managed' = <<>> /\ UNCHANGED <<contents, sent, log, order>>
    BY <1>1, <1>4 DEF MarkSwap, write
  <2>2. ItemsOf(<<>>) = <<>>
    BY DEF ItemsOf
  <2>3. [i \in DOMAIN <<>> |-> contents'[<<>>[i]]] = <<>>
    OBVIOUS
  <2>4. Out = <<>>
    BY <1>1, <2>2 DEF Out
  <2>5. Out' = Queue
    BY <1>1, <1>2, <2>1 DEF Out, Queue, ItemsOf
  <2>6. Queue' = <<>>
    BY <2>1, <2>3 DEF Queue, ItemsOf
  <2>7. Queue # <<>>
    <3>1. Len(Queue) = Len(managed) /\ Queue \in Seq(Items)
      BY <1>0, QueueType
    <3>2. Len(managed) # 0
      BY <1>0, <1>4, EmptySeq
    <3> QED
      BY <3>1, <3>2
  <2>8. Fetch
    BY <1>1, <2>1, <2>4, <2>5, <2>6, <2>7 DEF Fetch
  <2> QED
    BY <2>8 DEF QueueStep
<1> QED
  BY <1>3, <1>4

LEMMA SendQueue ==
  ASSUME Control, SendBuffer
  PROVE  QueueStep
<1>1. /\ flight = "sending" /\ sent < Len(marked) /\ sent' = sent + 1
      /\ log' = Append(log, contents[marked[sent + 1]])
      /\ UNCHANGED <<managed, marked, contents, pc, order>>
  BY DEF SendBuffer, lists
<1>2. ~Clearing /\ ~Clearing'
  <2>1. ~Clearing
    BY <1>1, ClearingMeans DEF Control, UserOK, Uses
  <2> QED
    BY <1>1, <2>1 DEF Clearing
<1>3. TypeOK /\ sent \in Nat /\ Len(marked) \in Nat
  BY LenProperties DEF Control, TypeOK
<1>4. Len(Out) = Len(marked) /\ \A i \in 1..Len(marked) : Out[i] = contents[marked[i]]
  BY <1>2, <1>3, QueueType
<1>5. sent + 1 \in 1..Len(marked)
  BY <1>1, <1>3
<1>6. log' = Append(log, Out[sent + 1]) /\ sent < Len(Out)
  BY <1>1, <1>4, <1>5
<1>7. Queue' = Queue /\ Out' = Out
  BY <1>1, <1>2 DEF Queue, Out, ItemsOf
<1>8. SendOne
  BY <1>1, <1>6, <1>7 DEF SendOne
<1> QED
  BY <1>8 DEF QueueStep

LEMMA CompleteQueue ==
  ASSUME Control, NEW t \in Threads, Complete(t)
  PROVE  QueueStep
<1>1. /\ flight = "done" /\ sent' = 0 /\ pc[t] = "idle" /\ Go(t, "clear")
      /\ UNCHANGED <<managed, marked, contents, log, order>>
  BY DEF Complete, At, lists
<1>2. TypeOK /\ pc \in [Threads -> Labels] /\ marked \in Seq(Nodes)
  BY DEF Control, TypeOK
<1>3. ~Clearing /\ marked # <<>> /\ sent = Len(marked)
  BY <1>1, ClearingMeans DEF Control, UserOK, ProgressOK, Uses
<1>4. Clearing'
  <2>1. pc'[t] = "clear"
    BY <1>1, <1>2 DEF Go
  <2> QED
    BY <2>1 DEF Clearing
<1>5. Len(Out) = Len(marked) /\ Out \in Seq(Items)
  BY <1>2, <1>3, QueueType
<1>6. Out # <<>>
  BY <1>2, <1>3, <1>5, EmptySeq
<1>7. Queue' = Queue /\ Out' = <<>>
  BY <1>1, <1>4 DEF Queue, Out, ItemsOf
<1>8. Finish
  BY <1>1, <1>3, <1>5, <1>6, <1>7 DEF Finish
<1> QED
  BY <1>8 DEF QueueStep

LEMMA ClearEndQueue ==
  ASSUME Control, Control', NEW t \in Threads, ClearEnd(t)
  PROVE  QueueStep
<1>1. /\ pc[t] = "clear" /\ Go(t, "mark") /\ marked' = <<>>
      /\ UNCHANGED <<managed, contents, sent, log, order>>
  BY DEF ClearEnd, At, write
<1>2. Clearing
  BY <1>1 DEF Clearing
<1>3. [i \in DOMAIN <<>> |-> contents'[<<>>[i]]] = <<>>
  OBVIOUS
<1>4. Out = <<>> /\ Out' = <<>>
  BY <1>1, <1>2, <1>3 DEF Out, ItemsOf
<1>5. Queue' = Queue
  BY <1>1 DEF Queue, ItemsOf
<1> QED
  BY <1>1, <1>4, <1>5 DEF QueueStep, Quiet

LEMMA EveryQueueStep == Control /\ Control' /\ NodesOK /\ FilledOK /\ [Next]_vars => QueueStep
<1> SUFFICES ASSUME Control, Control', NodesOK, FilledOK, [Next]_vars PROVE QueueStep
  OBVIOUS
<1>0. pc \in [Threads -> Labels]
  BY DEF Control, TypeOK
<1>1. ASSUME NEW t \in Threads, Manage(t) \/ HoldCached(t) \/ HoldPool(t) PROVE QueueStep
  <2>1. /\ pc[t] \in {"idle", "hold", "malloc"}
        /\ \E l \in {"hold", "malloc", "fill", "splice"} : Go(t, l)
        /\ UNCHANGED <<managed, marked, contents, sent, log, order>>
    BY <1>1 DEF Manage, HoldCached, HoldPool, At, lists, write
  <2>2. Clearing' <=> Clearing
    BY <1>0, <2>1, StillClearing
  <2> QED
    BY <2>1, <2>2, QuietWhen
<1>2. ASSUME NEW t \in Threads, MarkLook(t) \/ Decide(t) PROVE QueueStep
  <2>1. /\ pc[t] \in {"mark", "decide"} /\ \E l \in {"decide", "swap", "idle"} : Go(t, l)
        /\ UNCHANGED <<managed, marked, contents, sent, log, order>>
    BY <1>2 DEF MarkLook, Decide, At, Answer, lists, write
  <2>2. Clearing' <=> Clearing
    BY <1>0, <2>1, StillClearing
  <2> QED
    BY <2>1, <2>2, QuietWhen
<1>3. ASSUME NEW t \in Threads, Release(t) PROVE QueueStep
  <2>1. /\ pc[t] = "release" /\ Go(t, "clear")
        /\ UNCHANGED <<managed, marked, contents, sent, log, order>>
    BY <1>3 DEF Release, At, write
  <2>2. Clearing' <=> Clearing
    BY <1>0, <2>1, StillClearing
  <2> QED
    BY <2>1, <2>2, QuietWhen
<1>4. CASE UNCHANGED vars
  <2>1. UNCHANGED <<managed, marked, contents, sent, log, order, pc>>
    BY <1>4 DEF vars, lists, write
  <2>2. Clearing' <=> Clearing
    BY <2>1 DEF Clearing
  <2> QED
    BY <2>1, <2>2, QuietWhen
<1> QED
  BY <1>1, <1>2, <1>3, <1>4, FillQueue, WipeQueue, SpliceQueue, MarkSwapQueue, SendQueue,
     CompleteQueue, ClearEndQueue DEF Next, Finished

----------------------------------------------------------------------------
(* Batches in order.                                                         *)

(* What is in flight and what waits, behind what was sent.                   *)
Account == log \o SubSeq(Out, sent + 1, Len(Out)) \o Queue = order

LEMMA RestType ==
  ASSUME NEW s \in Seq(Items), NEW k \in Nat
  PROVE  SubSeq(s, k + 1, Len(s)) \in Seq(Items)
<1>1. Len(s) \in Nat /\ \A i \in (k + 1)..Len(s) : s[i] \in Items
  <2>1. Len(s) \in Nat
    BY LenProperties
  <2>2. \A i \in (k + 1)..Len(s) : i \in 1..Len(s)
    BY <2>1
  <2> QED
    BY <2>1, <2>2, SeqElement
<1>2. k + 1 \in Int /\ Len(s) \in Int
  BY <1>1
<1> QED
  BY <1>1, <1>2, SubSeqProperties

Regroups(a, b, c) == (a \o b) \o c = a \o (b \o c)

LEMMA ThreeParts ==
  ASSUME NEW a \in Seq(Items), NEW b \in Seq(Items), NEW c \in Seq(Items)
  PROVE  Regroups(a, b, c)
BY ConcatAssociative, SMTT(20) DEF Regroups

LEMMA SendAccount ==
  ASSUME NEW l \in Seq(Items), NEW o \in Seq(Items), NEW k \in Nat, k < Len(o)
  PROVE  Append(l, o[k + 1]) \o SubSeq(o, (k + 1) + 1, Len(o)) = l \o SubSeq(o, k + 1, Len(o))
<1>1. Len(o) \in Nat /\ k + 1 \in 1..Len(o) /\ Len(o) \in (k + 1)..Len(o)
  BY LenProperties
<1>2. o[k + 1] \in Items /\ <<o[k + 1]>> \in Seq(Items)
  BY <1>1, SeqElement
<1>3. PICK r \in Seq(Items) : r = SubSeq(o, (k + 1) + 1, Len(o))
  <2>1. k + 1 \in Nat
    OBVIOUS
  <2>2. SubSeq(o, (k + 1) + 1, Len(o)) \in Seq(Items)
    BY <2>1, RestType
  <2> QED
    BY <2>2
<1>4. SubSeq(o, k + 1, Len(o)) = <<o[k + 1]>> \o r
  BY <1>1, <1>3, SubSeqRecursiveFirst
<1>5. Append(l, o[k + 1]) = l \o <<o[k + 1]>>
  BY <1>2, AppendIsConcat
<1>6. (l \o <<o[k + 1]>>) \o r = l \o (<<o[k + 1]>> \o r)
  <2>1. Regroups(l, <<o[k + 1]>>, r)
    BY <1>2, ThreeParts
  <2> QED
    BY <2>1, Zenon DEF Regroups
<1> QED
  BY <1>3, <1>4, <1>5, <1>6

LEMMA AccountInductive == TypeOK /\ TypeOK' /\ Account /\ QueueStep => Account'
<1> SUFFICES ASSUME TypeOK, TypeOK', Account, QueueStep PROVE Account'
  OBVIOUS
<1> DEFINE rest == SubSeq(Out, sent + 1, Len(Out))
<1>1. /\ Queue \in Seq(Items) /\ Out \in Seq(Items) /\ log \in Seq(Items) /\ sent \in Nat
  BY QueueType
<1>2. rest \in Seq(Items) /\ log \o rest \in Seq(Items)
  BY <1>1, RestType, ConcatProperties
<1>3. CASE Quiet
  BY <1>3 DEF Quiet, Account
<1>4. CASE Accept
  <2>1. PICK b \in Seq(Items) : Queue' = Queue \o b /\ order' = order \o b
    BY <1>4 DEF Accept
  <2>2. ((log \o rest) \o Queue) \o b = (log \o rest) \o (Queue \o b)
    <3>1. Regroups(log \o rest, Queue, b)
      BY <1>1, <1>2, ThreeParts
    <3> QED
      BY <3>1, Zenon DEF Regroups
  <2>3. order = (log \o rest) \o Queue
    BY DEF Account
  <2>4. order' = (log \o rest) \o Queue'
    BY <2>1, <2>2, <2>3
  <2> QED
    BY <1>4, <2>4 DEF Accept, Account
<1>5. CASE Fetch
  <2>1. /\ Out = <<>> /\ sent = 0 /\ Out' = Queue /\ Queue' = <<>>
        /\ UNCHANGED <<sent, log, order>>
    BY <1>5 DEF Fetch
  <2>2. rest = <<>>
    BY <2>1, SubSeqEmpty
  <2>3. log \o <<>> = log
    BY <1>1, ConcatEmptySeq
  <2>4. order = log \o Queue
    BY <2>2, <2>3 DEF Account
  <2>5. SubSeq(Queue, 1, Len(Queue)) = Queue
    BY <1>1, SubSeqFull
  <2>6. SubSeq(Out', sent' + 1, Len(Out')) = Queue
    BY <2>1, <2>5
  <2>7. log \o Queue \in Seq(Items)
    BY <1>1, ConcatProperties
  <2>8. (log \o Queue) \o <<>> = log \o Queue
    BY <2>7, ConcatEmptySeq
  <2> QED
    BY <2>1, <2>4, <2>6, <2>8 DEF Account
<1>6. CASE SendOne
  <2>1. /\ sent < Len(Out) /\ sent' = sent + 1 /\ log' = Append(log, Out[sent + 1])
        /\ UNCHANGED <<Queue, Out, order>>
    BY <1>6 DEF SendOne
  <2>2. Append(log, Out[sent + 1]) \o SubSeq(Out, (sent + 1) + 1, Len(Out)) = log \o rest
    BY <1>1, <2>1, SendAccount
  <2> QED
    BY <2>1, <2>2 DEF Account
<1>7. CASE Finish
  <2>1. /\ sent = Len(Out) /\ Out' = <<>> /\ sent' = 0 /\ UNCHANGED <<Queue, log, order>>
    BY <1>7 DEF Finish
  <2>2. rest = <<>>
    BY <1>1, <2>1, SubSeqEmpty
  <2>3. SubSeq(Out', sent' + 1, Len(Out')) = <<>>
    <3>1. SubSeq(<<>>, 0 + 1, Len(<<>>)) = <<>>
      BY SubSeqEmpty
    <3> QED
      BY <2>1, <3>1
  <2> QED
    BY <2>1, <2>2, <2>3 DEF Account
<1> QED
  BY <1>3, <1>4, <1>5, <1>6, <1>7 DEF QueueStep

LEMMA AccountIsBatches == Account <=> BatchesInOrder
BY DEF Account, BatchesInOrder, Out, Queue

LEMMA InitQueue == Init => FilledOK /\ Queue = <<>> /\ Out = <<>> /\ Account
<1> SUFFICES ASSUME Init PROVE FilledOK /\ Queue = <<>> /\ Out = <<>> /\ Account
  OBVIOUS
<1>1. /\ managed = <<>> /\ marked = <<>> /\ sent = 0 /\ log = <<>> /\ order = <<>>
      /\ \A t \in Threads : pc[t] = "idle" /\ held[t] = <<>>
  BY DEF Init
<1>2. FilledOK
  <2> SUFFICES ASSUME NEW t \in Threads, NEW i \in 1..Filled(t) PROVE FALSE
    BY DEF FilledOK
  <2>1. Filled(t) = 0
    BY <1>1 DEF Filled
  <2> QED
    BY <2>1
<1>3. Queue = <<>> /\ Out = <<>>
  <2>1. ItemsOf(<<>>) = <<>>
    BY DEF ItemsOf
  <2> QED
    BY <1>1, <2>1 DEF Queue, Out
<1>4. Account
  <2>1. SubSeq(<<>>, 0 + 1, Len(<<>>)) = <<>>
    BY SubSeqEmpty
  <2>2. <<>> \o <<>> = <<>> /\ <<>> \in Seq(Items)
    OBVIOUS
  <2> QED
    BY <1>1, <1>3, <2>1, <2>2 DEF Account
<1> QED
  BY <1>2, <1>3, <1>4

(* Nothing accepted is lost, sent twice, or sent out of the order in which   *)
(* the calls of manage() spliced their batches; and no node is filled anew   *)
(* while its buffer still has to be sent.                                    *)
THEOREM BatchesStayWhole == Spec => []BatchesInOrder
<1>1. Init => Control /\ NodesOK /\ FilledOK /\ Account
  BY InitControl, InitNodes, InitQueue
<1>2. Control /\ [Next]_vars => Control'
  BY ControlInductive
<1>3. Control /\ Control' /\ NodesOK /\ [Next]_vars => NodesOK'
  BY NodesInductive
<1>4. Control /\ Control' /\ NodesOK /\ FilledOK /\ [Next]_vars => FilledOK'
  BY FilledInductive
<1>5. Control /\ Control' /\ NodesOK /\ FilledOK /\ Account /\ [Next]_vars => Account'
  BY EveryQueueStep, AccountInductive DEF Control
<1>6. Account => BatchesInOrder
  BY AccountIsBatches
<1> QED
  BY <1>1, <1>2, <1>3, <1>4, <1>5, <1>6, PTL DEF Spec

----------------------------------------------------------------------------
(* The nodes implement OutQueue.                                             *)

LEMMA AcceptPrefix ==
  ASSUME NEW q \in Seq(Items), NEW b \in Seq(Items)
  PROVE  OutQ!IsPrefix(q, q \o b)
<1>1. /\ q \o b \in Seq(Items) /\ Len(q \o b) = Len(q) + Len(b)
      /\ \A i \in 1..(Len(q) + Len(b)) : (q \o b)[i] = IF i <= Len(q) THEN q[i] ELSE b[i - Len(q)]
      /\ Len(q) \in Nat /\ Len(b) \in Nat
  BY ConcatProperties, LenProperties
<1>2. \A i \in 1..Len(q) : /\ i \in 1..(Len(q) + Len(b)) /\ i <= Len(q)
                           /\ q[i] \in Items /\ (q \o b)[i] = q[i]
  <2>1. \A i \in 1..Len(q) : i \in 1..(Len(q) + Len(b)) /\ i <= Len(q)
    BY <1>1
  <2> QED
    BY <1>1, <2>1, SeqElement
<1>3. SubSeq(q, 1, Len(q)) = q
  BY SubSeqFull
<1>4. /\ 1 \in Int /\ Len(q) \in Int /\ Len(q) - 1 + 1 = Len(q)
      /\ \A i \in 1..Len(q) : (q \o b)[i] \in Items /\ (1 + i) - 1 = i
      /\ (IF 1 <= Len(q) THEN Len(q) - 1 + 1 ELSE 0) = Len(q)
  BY <1>1, <1>2
<1>5. /\ SubSeq(q \o b, 1, Len(q)) \in Seq(Items) /\ Len(SubSeq(q \o b, 1, Len(q))) = Len(q)
      /\ \A i \in 1..Len(q) : SubSeq(q \o b, 1, Len(q))[i] = (q \o b)[i]
  BY <1>4, SubSeqProperties
<1>6. SubSeq(q \o b, 1, Len(q)) = q
  BY <1>2, <1>5, SeqEqual
<1> QED
  BY <1>1, <1>3, <1>6 DEF OutQ!IsPrefix

LEMMA StepImplements == TypeOK /\ TypeOK' /\ QueueStep => [OutQ!Next]_(OutQ!vars)
<1> SUFFICES ASSUME TypeOK, TypeOK', QueueStep PROVE [OutQ!Next]_(OutQ!vars)
  OBVIOUS
<1>1. Queue \in Seq(Items) /\ Out \in Seq(Items) /\ log \in Seq(Items) /\ sent \in Nat
  BY QueueType
<1>2. OutQ!vars = <<Queue, Out, sent, log>> /\ OutQ!vars' = <<Queue', Out', sent', log'>>
  BY DEF OutQ!vars, Queue, Out
<1>3. CASE Quiet
  BY <1>2, <1>3 DEF Quiet
<1>4. CASE Accept
  <2>1. PICK b \in Seq(Items) : Queue' = Queue \o b
    BY <1>4 DEF Accept
  <2>2. CASE Queue' = Queue
    BY <1>2, <1>4, <2>2 DEF Accept
  <2>3. CASE Queue' # Queue
    <3>1. OutQ!IsPrefix(Queue, Queue')
      BY <1>1, <2>1, AcceptPrefix
    <3>2. OutQ!IsStrictPrefix(Queue, Queue')
      BY <2>3, <3>1 DEF OutQ!IsStrictPrefix
    <3>3. OutQ!Accept
      BY <1>4, <3>2 DEF Accept, OutQ!Accept, Queue, Out
    <3> QED
      BY <3>3 DEF OutQ!Next
  <2> QED
    BY <2>2, <2>3
<1>5. CASE Fetch
  <2>1. OutQ!Take
    BY <1>5 DEF Fetch, OutQ!Take, Queue, Out
  <2> QED
    BY <2>1 DEF OutQ!Next
<1>6. CASE SendOne
  <2>1. /\ sent < Len(Out) /\ sent' = sent + 1 /\ log' = Append(log, Out[sent + 1])
        /\ UNCHANGED <<Queue, Out>>
    BY <1>6 DEF SendOne
  <2>2. Len(Out) \in Nat /\ sent + 1 \in 1..Len(Out) /\ sent < sent' /\ sent' <= Len(Out)
    BY <1>1, <2>1, LenProperties
  <2>3. Out[sent + 1] \in Items
    BY <1>1, <2>2, SeqElement
  <2>4. SubSeq(Out, sent + 1, sent + 1) = <<Out[sent + 1]>>
    <3>1. SubSeq(Out, sent + 1, sent + 1) = <<Out[sent + 1]>> \o SubSeq(Out, (sent + 1) + 1, sent + 1)
      <4>1. sent + 1 \in (sent + 1)..Len(Out)
        BY <1>1, <2>2
      <4> QED
        BY <1>1, <2>2, <4>1, SubSeqRecursiveFirst
    <3>2. SubSeq(Out, (sent + 1) + 1, sent + 1) = <<>>
      BY <1>1, SubSeqEmpty
    <3>3. <<Out[sent + 1]>> \o <<>> = <<Out[sent + 1]>>
      OBVIOUS
    <3> QED
      BY <3>1, <3>2, <3>3
  <2>5. Append(log, Out[sent + 1]) = log \o <<Out[sent + 1]>>
    BY <1>1, <2>3, AppendIsConcat
  <2>6. log' = log \o SubSeq(Out, sent + 1, sent')
    BY <2>1, <2>4, <2>5
  <2>7. OutQ!Send
    BY <2>1, <2>2, <2>6 DEF OutQ!Send, Queue, Out
  <2> QED
    BY <2>7 DEF OutQ!Next
<1>7. CASE Finish
  <2>1. OutQ!Done
    BY <1>7 DEF Finish, OutQ!Done, Queue, Out
  <2> QED
    BY <2>1 DEF OutQ!Next
<1> QED
  BY <1>3, <1>4, <1>5, <1>6, <1>7 DEF QueueStep

(* persistent_buffer_manager, with its nodes, locks and marker, behaves like *)
(* a queue that hands out everything it has when the last batch is done      *)
(* with: every step is one of OutQueue's or changes nothing of it.           *)
THEOREM NodesAreOutQueue == Spec => ImplementsOutQueue
<1>1. Init => Control /\ NodesOK /\ FilledOK
  BY InitControl, InitNodes, InitQueue
<1>2. Control /\ [Next]_vars => Control'
  BY ControlInductive
<1>3. Control /\ Control' /\ NodesOK /\ [Next]_vars => NodesOK'
  BY NodesInductive
<1>4. Control /\ Control' /\ NodesOK /\ FilledOK /\ [Next]_vars => FilledOK'
  BY FilledInductive
<1>5. Control /\ Control' /\ NodesOK /\ FilledOK /\ [Next]_vars => [OutQ!Next]_(OutQ!vars)
  BY EveryQueueStep, StepImplements DEF Control
<1>6. Init => OutQ!Init
  <2> SUFFICES ASSUME Init PROVE OutQ!Init
    OBVIOUS
  <2>1. Queue = <<>> /\ Out = <<>> /\ sent = 0 /\ log = <<>>
    BY InitQueue DEF Init
  <2> QED
    BY <2>1 DEF OutQ!Init, Queue, Out
<1> QED
  BY <1>1, <1>2, <1>3, <1>4, <1>5, <1>6, PTL DEF Spec, ImplementsOutQueue, OutQ!Spec
=============================================================================
