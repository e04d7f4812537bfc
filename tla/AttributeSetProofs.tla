------------------------- MODULE AttributeSetProofs -------------------------
(***************************************************************************)
(* Proofs about AttributeSet, for every number of threads, sets, keys and  *)
(* calls.                                                                  *)
(***************************************************************************)
EXTENDS AttributeSet, FiniteSetTheorems, TLAPS

----------------------------------------------------------------------------
(* Keys are in a strict total order.                                         *)

LEMMA LeastNat == ASSUME NEW S, S \subseteq Nat, S # {} PROVE \E n \in S : \A m \in S : ~(m < n)
<1> DEFINE R == {ss \in Nat \X Nat : ss[1] < ss[2]}
<1>1. IsWellFoundedOn(R, Nat)
  BY NatLessThanWellFounded DEF OpToRel
<1>2. \E x \in S : \A y \in S : ~(<<y, x>> \in R)
  <2> HIDE DEF R
  <2> QED
    BY <1>1, WFMin
<1> QED
  BY <1>2

(* Two keys agree before position n + 1.                                     *)
Agree(j, k, n) == n \in Nat /\ n <= Len(j) /\ n <= Len(k) /\ \A i \in 1..n : j[i] = k[i]

LEMMA LessMeans ==
  ASSUME NEW j \in Seq(Nat), NEW k \in Seq(Nat)
  PROVE  Less(j, k) <=> \E n \in Nat : /\ Agree(j, k, n) /\ n < Len(k)
                                       /\ n = Len(j) \/ j[n + 1] < k[n + 1]
  BY DEF Less, Agree

LEMMA LessIrreflexive == ASSUME NEW k \in Seq(Nat) PROVE ~Less(k, k)
<1>1. \A n \in 1..Len(k) : k[n] \in Nat
  OBVIOUS
<1> QED
  BY <1>1, LessMeans DEF Agree

LEMMA LessTransitive ==
  ASSUME NEW i \in Seq(Nat), NEW j \in Seq(Nat), NEW k \in Seq(Nat), Less(i, j), Less(j, k)
  PROVE  Less(i, k)
<1>1. PICK m \in Nat : Agree(i, j, m) /\ m < Len(j) /\ (m = Len(i) \/ i[m + 1] < j[m + 1])
  BY LessMeans
<1>2. PICK n \in Nat : Agree(j, k, n) /\ n < Len(k) /\ (n = Len(j) \/ j[n + 1] < k[n + 1])
  BY LessMeans
<1>3. /\ Len(i) \in Nat /\ Len(j) \in Nat /\ Len(k) \in Nat
      /\ \A x \in 1..Len(i) : i[x] \in Nat
      /\ \A x \in 1..Len(j) : j[x] \in Nat
      /\ \A x \in 1..Len(k) : k[x] \in Nat
  OBVIOUS
<1>4. CASE m <= n
  <2>1. m < Len(k) /\ \A x \in 1..m : i[x] = k[x]
    <3>1. \A x \in 1..m : x \in 1..n /\ i[x] = j[x]
      BY <1>1, <1>4 DEF Agree
    <3>2. \A x \in 1..n : j[x] = k[x]
      BY <1>2 DEF Agree
    <3>3. m < Len(k)
      BY <1>2, <1>3, <1>4
    <3> QED
      BY <3>1, <3>2, <3>3
  <2>2. Agree(i, k, m)
    BY <1>1, <1>3, <2>1 DEF Agree
  <2>3. m = Len(i) \/ i[m + 1] < k[m + 1]
    <3>1. CASE m = n
      <4>1. m + 1 \in 1..Len(j) /\ m + 1 \in 1..Len(k) /\ n # Len(j)
        BY <1>1, <1>2, <1>3, <3>1
      <4>2. j[m + 1] < k[m + 1] /\ j[m + 1] \in Nat /\ k[m + 1] \in Nat
        BY <1>2, <1>3, <3>1, <4>1
      <4>3. CASE m = Len(i)
        BY <4>3
      <4>4. CASE m # Len(i)
        <5>1. m + 1 \in 1..Len(i)
          BY <1>1, <1>3, <4>4 DEF Agree
        <5>2. i[m + 1] < j[m + 1] /\ i[m + 1] \in Nat
          BY <1>1, <1>3, <4>4, <5>1
        <5> QED
          BY <4>2, <5>2
      <4> QED
        BY <4>3, <4>4
    <3>2. CASE m < n
      <4>1. m + 1 \in 1..n
        BY <3>2
      <4>2. j[m + 1] = k[m + 1]
        BY <1>2, <4>1 DEF Agree
      <4> QED
        BY <1>1, <4>2
    <3> QED
      BY <1>4, <3>1, <3>2
  <2> QED
    BY <2>1, <2>2, <2>3, LessMeans
<1>5. CASE n < m
  <2>1. n + 1 \in 1..m /\ n < Len(i) /\ n # Len(j)
    BY <1>1, <1>3, <1>5 DEF Agree
  <2>2. i[n + 1] = j[n + 1] /\ \A x \in 1..n : x \in 1..m /\ i[x] = j[x]
    BY <1>1, <1>5, <2>1 DEF Agree
  <2>3. n < Len(k) /\ \A x \in 1..n : i[x] = k[x]
    <3>1. \A x \in 1..n : j[x] = k[x]
      BY <1>2, Zenon DEF Agree
    <3> QED
      BY <1>2, <2>2, <3>1, Zenon
  <2>4. Agree(i, k, n)
    <3>1. n <= Len(i) /\ n <= Len(k)
      BY <1>3, <2>1, <2>3
    <3> QED
      BY <2>3, <3>1, Zenon DEF Agree
  <2> QED
    BY <1>2, <2>1, <2>2, <2>3, <2>4, LessMeans
<1> QED
  BY <1>4, <1>5

LEMMA LessTotal ==
  ASSUME NEW j \in Seq(Nat), NEW k \in Seq(Nat), j # k
  PROVE  Less(j, k) \/ Less(k, j)
<1> DEFINE Differ == {n \in Nat : ~Agree(j, k, n + 1)}
<1>1. /\ Len(j) \in Nat /\ Len(k) \in Nat
      /\ \A x \in 1..Len(j) : j[x] \in Nat
      /\ \A x \in 1..Len(k) : k[x] \in Nat
  OBVIOUS
<1>2. Len(j) \in Differ
  BY <1>1 DEF Agree
<1>3. PICK n \in Differ : \A m \in Differ : ~(m < n)
  <2>1. Differ \subseteq Nat /\ Differ # {}
    BY <1>2
  <2> QED
    BY <2>1, LeastNat
<1>4. Agree(j, k, n)
  <2>1. CASE n = 0
    BY <1>1, <2>1 DEF Agree
  <2>2. CASE n # 0
    <3>1. n - 1 \in Nat /\ n - 1 < n /\ (n - 1) + 1 = n
      BY <2>2
    <3> QED
      BY <1>3, <3>1
  <2> QED
    BY <2>1, <2>2
<1>5. n \in Nat /\ (n = Len(j) \/ n = Len(k) \/ j[n + 1] # k[n + 1])
  BY <1>1, <1>4 DEF Agree
<1>6. ~(n = Len(j) /\ n = Len(k))
  BY <1>4 DEF Agree
<1>7. /\ Agree(k, j, n) /\ n <= Len(j) /\ n <= Len(k)
      /\ n < Len(j) => j[n + 1] \in Nat
      /\ n < Len(k) => k[n + 1] \in Nat
  BY <1>1, <1>4, <1>5 DEF Agree
<1>8. CASE n = Len(j)
  BY <1>1, <1>4, <1>6, <1>7, <1>8, LessMeans
<1>9. CASE n = Len(k)
  BY <1>1, <1>4, <1>6, <1>7, <1>9, LessMeans
<1>10. CASE n < Len(j) /\ n < Len(k) /\ j[n + 1] < k[n + 1]
  BY <1>4, <1>5, <1>10, LessMeans
<1>11. CASE n < Len(j) /\ n < Len(k) /\ k[n + 1] < j[n + 1]
  BY <1>5, <1>7, <1>11, LessMeans
<1> QED
  BY <1>1, <1>5, <1>7, <1>8, <1>9, <1>10, <1>11

(* Keys with a prefix are next to each other.                                *)
LEMMA PrefixConvex ==
  ASSUME NEW p \in Seq(Nat), NEW j \in Seq(Nat), NEW k \in Seq(Nat),
         ~Less(j, p), Less(j, k), Agree(p, k, Len(p))
  PROVE  Agree(p, j, Len(p))
<1>1. CASE p = j
  BY <1>1, Len(p) \in Nat DEF Agree
<1>2. CASE p # j
  <2>1. PICK n \in Nat : Agree(p, j, n) /\ n < Len(j) /\ (n = Len(p) \/ p[n + 1] < j[n + 1])
    BY <1>2, LessTotal, LessMeans
  <2>2. CASE n = Len(p)
    BY <2>1, <2>2
  <2>3. CASE n # Len(p)
    <3>1. Agree(k, j, n) /\ n < Len(j) /\ k[n + 1] < j[n + 1]
      <4> Len(p) \in Nat /\ Len(j) \in Nat /\ Len(k) \in Nat
        OBVIOUS
      <4>1. n <= Len(p) /\ n <= Len(j) /\ Len(p) <= Len(k)
        BY <2>1 DEF Agree
      <4>2. (\A x \in 1..n : p[x] = j[x]) /\ \A x \in 1..Len(p) : p[x] = k[x]
        BY <2>1, Zenon DEF Agree
      <4>3. n <= Len(k) /\ n + 1 \in 1..Len(p) /\ \A x \in 1..n : x \in 1..Len(p)
        BY <2>3, <4>1
      <4>4. p[n + 1] = k[n + 1] /\ \A x \in 1..n : k[x] = j[x]
        BY <4>2, <4>3, Zenon
      <4> QED
        BY <2>1, <2>3, <4>1, <4>3, <4>4 DEF Agree
    <3>2. Less(k, j)
      BY <3>1, LessMeans
    <3> QED
      BY <3>2, LessTransitive, LessIrreflexive
  <2> QED
    BY <2>2, <2>3
<1> QED
  BY <1>1, <1>2

LEMMA PrefixMeans ==
  ASSUME NEW r, NEW k \in Seq(Nat), r.min \in Seq(Nat), r.mode = "prefix"
  PROVE  /\ InRange(r, k) <=> Agree(r.min, k, Len(r.min))
         /\ ~PrefixEnd(r, k) <=> Agree(r.min, k, Len(r.min))
<1>1. InRange(r, k) <=> Agree(r.min, k, Len(r.min))
  BY DEF InRange, Agree, Seqs!IsPrefix
<1>2. ~PrefixEnd(r, k) <=> Agree(r.min, k, Len(r.min))
  <2> DEFINE p == r.min
  <2>1. Len(k) \in Nat /\ Len(p) \in Nat
    OBVIOUS
  <2>2. Min({Len(k), Len(p)}) = IF Len(k) < Len(p) THEN Len(k) ELSE Len(p)
    BY <2>1 DEF Min
  <2>3. CASE Len(k) < Len(p)
    <3>1. Len(SubSeq(k, 1, Len(k))) = Len(k)
      BY <2>1
    <3>2. PrefixEnd(r, k)
      BY <2>1, <2>2, <2>3, <3>1 DEF PrefixEnd
    <3> QED
      BY <2>1, <2>3, <3>2 DEF Agree
  <2>4. CASE ~(Len(k) < Len(p))
    <3>1. /\ SubSeq(k, 1, Len(p)) \in Seq(Nat) /\ Len(SubSeq(k, 1, Len(p))) = Len(p)
          /\ \A i \in 1..Len(p) : SubSeq(k, 1, Len(p))[i] = k[i]
      BY <2>1, <2>4
    <3>2. SubSeq(k, 1, Len(p)) = p <=> \A i \in 1..Len(p) : p[i] = k[i]
      BY <2>1, <3>1
    <3>3. Min({Len(k), Len(p)}) = Len(p)
      BY <2>2, <2>4
    <3>4. PrefixEnd(r, k) <=> SubSeq(k, 1, Len(p)) # p
      BY <3>3 DEF PrefixEnd
    <3>5. Agree(p, k, Len(p)) <=> \A i \in 1..Len(p) : p[i] = k[i]
      BY <2>1, <2>4 DEF Agree
    <3> QED
      BY <3>2, <3>4, <3>5
  <2> QED
    BY <2>3, <2>4
<1> QED
  BY <1>1, <1>2

(* A set of keys that is not empty has a first key.                          *)
LEMMA FirstKey ==
  ASSUME NEW S, S \subseteq Keys, S # {}
  PROVE  \E k \in S : \A j \in S : ~Less(j, k)
<1> DEFINE Below(k) == {j \in S : Less(j, k)}
<1>1. IsFiniteSet(S) /\ S \subseteq Seq(Nat)
  BY FS_Subset, SetAssumption
<1>2. \A k \in S : IsFiniteSet(Below(k)) /\ Cardinality(Below(k)) \in Nat
  <2> SUFFICES ASSUME NEW k \in S PROVE IsFiniteSet(Below(k)) /\ Cardinality(Below(k)) \in Nat
    OBVIOUS
  <2>1. IsFiniteSet(Below(k))
    BY <1>1, FS_Subset
  <2> QED
    BY <2>1, FS_CardinalityType
<1> DEFINE Sizes == {Cardinality(Below(k)) : k \in S}
<1>3. Sizes \subseteq Nat /\ Sizes # {}
  BY <1>2
<1>4. PICK n \in Sizes : \A m \in Sizes : ~(m < n)
  BY <1>3, LeastNat
<1>5. PICK k \in S : n = Cardinality(Below(k))
  BY <1>4
<1>6. \A j \in S : ~Less(j, k)
  <2> SUFFICES ASSUME NEW j \in S, Less(j, k) PROVE FALSE
    OBVIOUS
  <2>1. Below(j) \subseteq Below(k)
    BY <1>1, LessTransitive
  <2>2. j \in Below(k) /\ j \notin Below(j)
    BY <1>1, LessIrreflexive
  <2>3. Cardinality(Below(j)) < Cardinality(Below(k))
    <3>1. Below(j) # Below(k)
      BY <2>2
    <3> HIDE DEF Below
    <3> QED
      BY <1>2, <2>1, <3>1, FS_Subset
  <2>4. Cardinality(Below(j)) \in Sizes
    OBVIOUS
  <2> QED
    BY <1>4, <1>5, <2>3, <2>4
<1> QED
  BY <1>6

----------------------------------------------------------------------------
(* The inductive invariant of the calls.                                     *)

(* Every call that is not done can still create an object.                   *)
Open     == {t \in Threads : pc[t] \notin {"idle", "done"}}
BudgetOK == IsFiniteSet(Open) /\ made + Cardinality(Open) <= calls

FrameOK(t) ==
  /\ pc[t] # "idle" => req[t] \in Requests
  /\ pc[t] = "compute" =>
       /\ req[t].op = "compute" /\ guard[req[t].set] = t
       /\ arg[t] = <<req[t].key, Value(Cur(t))>>
  /\ pc[t] = "swap_try" => req[t].op = "swap"
  /\ pc[t] = "visit" => req[t].op = "foreach" /\ arg[t] \in Keys \X (Objects \cup {Null})
  /\ visited[t] # <<>> => req[t].op = "foreach" /\ pc[t] \in {"lock", "visit", "done"}

CallsOK ==
  /\ BudgetOK
  /\ DOMAIN res = Threads /\ DOMAIN arg = Threads
  /\ \A t \in Threads : FrameOK(t)

(* What a critical section of one operation does to the calls, ...           *)
Served(t) ==
  /\ pc[t] = "lock" /\ pc' = [pc EXCEPT ![t] = "done"]
  /\ req[t].op \notin {"compute", "swap", "foreach"} /\ guard[req[t].set] = NoThread
  /\ made' \in {made, made + 1}
  /\ \E out : res' = [res EXCEPT ![t] = out]
  /\ UNCHANGED <<guard, req, arg, visited, calls, given>>

(* ... and to the map: it changes one set, and an object that leaves the set *)
(* has been displaced.                                                       *)
Values == Objects \cup {Null, Absent}
Wrote(t) ==
  /\ map' \in [Sets -> [Keys -> Values]]
  /\ \A s \in Sets : s # req[t].set => map'[s] = map[s]
  /\ departed \subseteq departed' /\ departed' \subseteq Values
  /\ (map' = map /\ must' = must) \/ Attend
  /\ \A k \in Keys :
       \/ map[req[t].set][k] \in departed' \cup {Null, Absent}
       \/ \E j \in Keys : map'[req[t].set][j] = map[req[t].set][k]

LEMMA Requested ==
  ASSUME NEW r \in Requests
  PROVE  /\ r.set \in Sets
         /\ r.op \notin {"swap", "move", "foreach"} => r.key \in Keys
         /\ r.op \in {"set", "servlet_set", "emplace", "replace", "replace_if"} =>
              r.val \in {New, Raw, Null}
         /\ r.op = "swap" => r.other \in Sets /\ r.other # r.set
  BY SetAssumption

LEMMA ObjectLeft ==
  ASSUME TypeOK, BudgetOK, NEW t \in Open
  PROVE  made + 1 \in Objects /\ made + 1 <= calls
<1>1. made \in Nat /\ calls \in Nat /\ calls <= MaxCalls /\ MaxCalls \in Nat
  BY SetAssumption DEF TypeOK, Objects
<1>2. Cardinality(Open) \in Nat /\ Cardinality(Open) # 0
  BY FS_EmptySet, FS_CardinalityType DEF BudgetOK
<1> QED
  BY <1>1, <1>2 DEF BudgetOK, Objects

LEMMA StoreDoes ==
  ASSUME TypeOK, NEW t \in Threads, req[t] \in Requests,
         req[t].op \notin {"swap", "move", "foreach"},
         NEW v \in Values, Store(t, v),
         Displaces(req[t]) \/ Cur(t) \in {Null, Absent, v}
  PROVE  Wrote(t)
<1> DEFINE s == req[t].set
           k == req[t].key
<1>1. s \in Sets /\ k \in Keys
  BY Requested
<1>2. map \in [Sets -> [Keys -> Values]] /\ departed \subseteq Values
  BY DEF TypeOK, Values
<1>3. map' = [map EXCEPT ![s][k] = v] /\ Attend
  BY DEF Store
<1>4. departed' = IF Displaces(req[t]) THEN departed \cup {map[s][k]} ELSE departed
  BY DEF Store, Cur
<1>5. Displaces(req[t]) \/ map[s][k] \in {Null, Absent, v}
  BY DEF Cur
<1> HIDE DEF s, k
<1>6. map' \in [Sets -> [Keys -> Values]] /\ map'[s][k] = v
  BY <1>1, <1>2, <1>3
<1>7. \A j \in Keys : j # k => map'[s][j] = map[s][j]
  BY <1>1, <1>2, <1>3
<1>8. \A u \in Sets : u # s => map'[u] = map[u]
  BY <1>1, <1>2, <1>3
<1>9. departed \subseteq departed' /\ departed' \subseteq Values
  <2>1. map[s][k] \in Values
    BY <1>1, <1>2
  <2> QED
    BY <1>2, <1>4, <2>1
<1>10. \A j \in Keys : map[s][j] \in departed' \cup {Null, Absent} \/ \E i \in Keys : map'[s][i] = map[s][j]
  <2> SUFFICES ASSUME NEW j \in Keys
               PROVE  map[s][j] \in departed' \cup {Null, Absent} \/ \E i \in Keys : map'[s][i] = map[s][j]
    OBVIOUS
  <2>1. CASE j # k
    BY <1>7, <2>1
  <2>2. CASE j = k
    BY <1>1, <1>4, <1>5, <1>6, <2>2
  <2> QED
    BY <2>1, <2>2
<1> QED
  BY <1>3, <1>6, <1>8, <1>9, <1>10 DEF Wrote, s

OneSection(t) ==
  \/ Contains(t) \/ Get(t) \/ Remove(t) \/ RemoveIf(t) \/ Set(t) \/ ServletSet(t)
  \/ Emplace(t) \/ Replace(t) \/ ReplaceIf(t) \/ MoveOut(t)

LEMMA SectionServes ==
  ASSUME NEW t \in Threads, OneSection(t)
  PROVE  Served(t)
<1> USE DEF Served, Section, Made, hist
<1>1. CASE Contains(t) \/ Get(t) \/ Remove(t) \/ RemoveIf(t)
  BY <1>1 DEF Contains, Get, Remove, RemoveIf
<1>2. CASE Set(t) \/ ServletSet(t) \/ Emplace(t) \/ Replace(t)
  BY <1>2 DEF Set, ServletSet, Emplace, Replace
<1>3. CASE ReplaceIf(t) \/ MoveOut(t)
  BY <1>3 DEF ReplaceIf, MoveOut
<1> QED
  BY <1>1, <1>2, <1>3 DEF OneSection

LEMMA SectionWrites ==
  ASSUME TypeOK, BudgetOK, NEW t \in Threads, FrameOK(t), OneSection(t)
  PROVE  Wrote(t)
<1>1. pc[t] = "lock" /\ req[t].op \notin {"compute", "swap", "foreach"}
  BY SectionServes DEF Served
<1>2. req[t] \in Requests /\ t \in Open
  BY <1>1 DEF FrameOK, Open
<1>3. made + 1 \in Objects
  BY <1>2, ObjectLeft
<1>4. /\ Null \in Values /\ Absent \in Values /\ Raw \in Values
      /\ map \in [Sets -> [Keys -> Values]] /\ departed \subseteq Values
  BY SetAssumption DEF Values, Objects, Raw, TypeOK
<1>5. Displaces(req[t])
  BY <1>1 DEF Displaces
<1>6. Same => Wrote(t)
  <2>1. req[t].set \in Sets
    BY <1>2, Requested
  <2> QED
    BY <1>4, <2>1 DEF Same, Wrote
<1>7. ASSUME req[t].op \notin {"swap", "move", "foreach"}, NEW v \in Values, Store(t, v)
      PROVE  Wrote(t)
  BY <1>2, <1>5, <1>7, StoreDoes
<1>8. req[t].op \in {"set", "servlet_set", "emplace", "replace", "replace_if"} => Given(t) \in Values
  BY <1>2, <1>3, <1>4, Requested DEF Given, Values
<1>9. CASE Contains(t) \/ Get(t)
  BY <1>6, <1>9 DEF Contains, Get
<1>10. CASE Remove(t) \/ RemoveIf(t)
  BY <1>4, <1>6, <1>7, <1>10 DEF Remove, RemoveIf, Section
<1>11. CASE Set(t) \/ ServletSet(t) \/ Emplace(t) \/ Replace(t) \/ ReplaceIf(t)
  BY <1>6, <1>7, <1>8, <1>11 DEF Set, ServletSet, Emplace, Replace, ReplaceIf, Section
<1>12. CASE MoveOut(t)
  <2>1. req[t].set \in Sets
    BY <1>2, Requested
  <2>2. /\ map' = [map EXCEPT ![req[t].set] = [k \in Keys |-> Absent]] /\ Attend
        /\ departed' = departed \cup {map[req[t].set][k] : k \in Keys}
    BY <1>12 DEF MoveOut
  <2>3. map' \in [Sets -> [Keys -> Values]] /\ \A s \in Sets : s # req[t].set => map'[s] = map[s]
    BY <1>4, <2>1, <2>2
  <2>4. \A k \in Keys : map[req[t].set][k] \in Values
    BY <1>4, <2>1
  <2> QED
    BY <1>4, <2>2, <2>3, <2>4 DEF Wrote
<1> QED
  BY <1>9, <1>10, <1>11, <1>12 DEF OneSection

(* The end of compute().                                                     *)
Computed(t) ==
  /\ pc[t] = "compute" /\ pc' = [pc EXCEPT ![t] = "done"]
  /\ guard' = [guard EXCEPT ![req[t].set] = NoThread]
  /\ made' \in {made, made + 1}
  /\ \E out : res' = [res EXCEPT ![t] = out]
  /\ arg' = [arg EXCEPT ![t] = Null]
  /\ UNCHANGED <<req, visited, calls>>

LEMMA ComputeEnds ==
  ASSUME NEW t \in Threads, ComputeEnd(t)
  PROVE  Computed(t)
  BY DEF ComputeEnd, Computed

(* What the function given to compute() can do, as far as the map can tell:  *)
(* it throws, or it leaves what it was given or a new object, or it takes    *)
(* the object out, which displaces it; who gets an object from it gets the   *)
(* one that is mapped then.                                                  *)
LEMMA TransformDoes ==
  ASSUME NEW r \in Requests, r.op = "compute", NEW v, NEW new
  PROVE  LET out == Transform(r, v, new)
         IN  /\ out.thrown \in BOOLEAN
             /\ out.val \in {Null, v, new}
             /\ ~out.thrown => out.val = v \/ v = Null \/ Displaces(r)
             /\ out.thrown => Finish(r, out).kind # "ok"
<1>1. /\ r.f \in {"ret", "add", "op", "clear", "throw"} /\ r.built \in BOOLEAN
      /\ r.ops \in {"get", "set", "del", "ret", "add"}
  BY SetAssumption
<1>2. CASE r.f = "ret"
  BY <1>2 DEF Transform, RetF, Leave, Finish, Displaces
<1>3. CASE r.f = "add"
  BY <1>3 DEF Transform, AddF, Leave, Finish, Displaces
<1>4. CASE r.f = "op"
  <2>1. Transform(r, v, new) = OpF(r.ops, v, new, r.built)
    BY <1>4 DEF Transform
  <2>2. CASE r.ops \in {"get", "del"}
    BY <2>1, <2>2, <1>4 DEF OpF, Leave, Throw, Finish, Fail, Displaces
  <2>3. CASE r.ops \in {"set", "ret", "add"}
    BY <1>1, <2>1, <2>3, <1>4 DEF OpF, Leave, Throw, Finish, Fail, Displaces
  <2> QED
    BY <1>1, <2>2, <2>3
<1>5. CASE r.f = "clear"
  <2>1. Transform(r, v, new) = Leave(Null, Null)
    BY <1>5 DEF Transform
  <2> QED
    BY <1>5, <2>1 DEF Leave, Displaces
<1>6. CASE r.f = "throw"
  <2>1. Transform(r, v, new) = Throw("thrown")
    BY <1>6 DEF Transform
  <2> QED
    BY <2>1 DEF Throw, Finish, Fail
<1> QED
  BY <1>1, <1>2, <1>3, <1>4, <1>5, <1>6

LEMMA ComputeWrites ==
  ASSUME TypeOK, BudgetOK, NEW t \in Threads, FrameOK(t), ComputeEnd(t)
  PROVE  Wrote(t) /\ given' \subseteq Objects
<1> DEFINE v   == arg[t][2]
           out == Transform(req[t], v, made + 1)
<1>1. req[t] \in Requests /\ req[t].op = "compute" /\ t \in Open /\ v = Value(Cur(t))
  BY DEF ComputeEnd, FrameOK, Open
<1>2. made + 1 \in Objects /\ req[t].set \in Sets /\ req[t].key \in Keys
  BY <1>1, ObjectLeft, Requested
<1>3. /\ Null \in Values /\ Absent \in Values /\ Null \notin Objects
      /\ map \in [Sets -> [Keys -> Values]] /\ departed \subseteq Values /\ given \subseteq Objects
  BY SetAssumption DEF Values, Objects, TypeOK
<1>4. Cur(t) \in Values
  BY <1>2, <1>3 DEF Cur
<1>5. v \in Objects \cup {Null} /\ (v = Cur(t) \/ (v = Null /\ Cur(t) = Absent))
  BY <1>1, <1>4 DEF Value, Values
<1> HIDE DEF v
<1>6. /\ out.thrown \in BOOLEAN /\ out.val \in {Null, v, made + 1}
      /\ ~out.thrown => out.val = v \/ v = Null \/ Displaces(req[t])
  BY <1>1, TransformDoes
<1>7. /\ IF out.thrown THEN Same ELSE Store(t, IF out.val = Null THEN Absent ELSE out.val)
      /\ given' = IF Finish(req[t], out).kind = "ok" /\ out.val # Null THEN given \cup {out.val} ELSE given
  BY DEF ComputeEnd, v
<1> HIDE DEF out
<1>8. given' \subseteq Objects
  BY <1>2, <1>3, <1>5, <1>6, <1>7
<1>9. CASE out.thrown
  <2>1. Same
    BY <1>7, <1>9
  <2>2. UNCHANGED <<map, departed, must>>
    BY <2>1 DEF Same
  <2>3. \A k \in Keys : \E j \in Keys : map'[req[t].set][j] = map[req[t].set][k]
    BY <2>2
  <2> QED
    BY <1>3, <1>8, <2>2, <2>3 DEF Wrote
<1>10. CASE ~out.thrown
  <2> DEFINE w == IF out.val = Null THEN Absent ELSE out.val
  <2>1. w \in Values /\ Store(t, w)
    BY <1>2, <1>3, <1>5, <1>6, <1>7, <1>10 DEF Values
  <2>2. Displaces(req[t]) \/ Cur(t) \in {Null, Absent, w}
    BY <1>5, <1>6, <1>10
  <2>3. req[t].op \notin {"swap", "move", "foreach"}
    BY <1>1
  <2> HIDE DEF w
  <2> QED
    BY <1>1, <1>8, <2>1, <2>2, <2>3, StoreDoes
<1> QED
  BY <1>6, <1>8, <1>9, <1>10

----------------------------------------------------------------------------
(* Types.                                                                    *)

LocksOK ==
  \A s \in Sets : guard[s] # NoThread =>
    /\ pc[guard[s]] \in {"compute", "swap_try"}
    /\ s = req[guard[s]].set \/ (pc[guard[s]] = "swap_try" /\ s = req[guard[s]].other)

LEMMA TypeInductive == TypeOK /\ CallsOK /\ [Next]_vars => TypeOK'
<1> SUFFICES ASSUME TypeOK, CallsOK, [Next]_vars PROVE TypeOK'
  OBVIOUS
<1>guard. guard \in [Sets -> Threads \cup {NoThread}] /\ NoThread \notin Threads
  BY SetAssumption DEF TypeOK
<1>map. map \in [Sets -> [Keys -> Values]] /\ departed \subseteq Values
  BY DEF TypeOK, Values
<1>pc. pc \in [Threads -> Labels] /\ req \in [Threads -> Requests \cup {NoReq}]
  BY DEF TypeOK
<1>visited. visited \in [Threads -> Seq(Keys)]
  BY DEF TypeOK
<1>must. must \in [Threads -> SUBSET Keys]
  BY DEF TypeOK
<1>made. made \in Nat /\ calls \in Nat /\ calls <= MaxCalls /\ made <= calls /\ MaxCalls \in Nat
  BY SetAssumption DEF TypeOK, Objects
<1>given. given \subseteq Objects
  BY DEF TypeOK
<1>locks. LocksOK
  BY DEF TypeOK, LocksOK
<1>frame. BudgetOK /\ \A t \in Threads : FrameOK(t)
  BY DEF CallsOK
<1>type. ASSUME guard' \in [Sets -> Threads \cup {NoThread}],
                map' \in [Sets -> [Keys -> Values]], departed' \subseteq Values,
                pc' \in [Threads -> Labels], req' \in [Threads -> Requests \cup {NoReq}],
                visited' \in [Threads -> Seq(Keys)], must' \in [Threads -> SUBSET Keys],
                made' \in Nat, calls' \in Nat, calls' <= MaxCalls, made' <= calls',
                given' \subseteq Objects, LocksOK'
         PROVE  TypeOK'
  BY <1>made, <1>type DEF TypeOK, LocksOK, Values, Objects
(* A step after which the thread has no lock.                                *)
<1>free. ASSUME NEW t \in Threads,
                \A s \in Sets : guard'[s] \in {guard[s], NoThread} /\ guard'[s] # t,
                \A u \in Threads : u # t => pc'[u] = pc[u] /\ req'[u] = req[u]
         PROVE  LocksOK'
  BY <1>free, <1>guard, <1>locks DEF LocksOK
<1>none. ASSUME NEW t \in Threads, pc[t] \notin {"compute", "swap_try"}
         PROVE  \A s \in Sets : guard[s] # t
  BY <1>none, <1>guard, <1>locks DEF LocksOK
<1>wrote. ASSUME NEW t \in Threads, Wrote(t)
          PROVE  map' \in [Sets -> [Keys -> Values]] /\ departed' \subseteq Values
                 /\ must' \in [Threads -> SUBSET Keys]
  BY <1>wrote, <1>must DEF Wrote, Attend
<1>1. CASE UNCHANGED vars \/ Finished
  BY <1>1 DEF TypeOK, vars, hist, frame, Finished
<1>2. ASSUME NEW t \in Threads, Call(t) PROVE TypeOK'
  <2>1. /\ pc[t] = "idle" /\ pc' = [pc EXCEPT ![t] = "lock"] /\ calls < MaxCalls /\ calls' = calls + 1
        /\ UNCHANGED <<guard, map, visited, made, given, departed>>
    BY <1>2 DEF Call
  <2>2. \E r \in Requests : req' = [req EXCEPT ![t] = r]
    BY <1>2 DEF Call
  <2>3. \E K : K \subseteq Keys /\ must' = [must EXCEPT ![t] = K]
    <3>1. PICK r \in Requests : must' = [must EXCEPT ![t] =
            IF r.op = "foreach" THEN {k \in Keys : InRange(r, k) /\ map[r.set][k] # Absent} ELSE {}]
      BY <1>2 DEF Call
    <3> QED
      BY <3>1
  <2>4. LocksOK'
    BY <1>pc, <1>none, <1>free, <2>1, <2>2
  <2>5. pc' \in [Threads -> Labels] /\ req' \in [Threads -> Requests \cup {NoReq}]
    BY <1>pc, <2>1, <2>2 DEF Labels
  <2> QED
    BY <1>guard, <1>map, <1>visited, <1>must, <1>made, <1>given, <1>type, <2>1, <2>3, <2>4, <2>5
<1>3. ASSUME NEW t \in Threads, Return(t) PROVE TypeOK'
  <2>1. /\ pc[t] = "done" /\ pc' = [pc EXCEPT ![t] = "idle"] /\ req' = [req EXCEPT ![t] = NoReq]
        /\ visited' = [visited EXCEPT ![t] = <<>>] /\ must' = [must EXCEPT ![t] = {}]
        /\ UNCHANGED <<guard, map, made, calls, given, departed>>
    BY <1>3 DEF Return, hist
  <2>2. LocksOK'
    BY <1>pc, <1>none, <1>free, <2>1
  <2>3. /\ pc' \in [Threads -> Labels] /\ req' \in [Threads -> Requests \cup {NoReq}]
        /\ visited' \in [Threads -> Seq(Keys)] /\ must' \in [Threads -> SUBSET Keys]
    BY <1>pc, <1>visited, <1>must, <2>1 DEF Labels
  <2> QED
    BY <1>guard, <1>map, <1>made, <1>given, <1>type, <2>1, <2>2, <2>3
<1>4. ASSUME NEW t \in Threads, OneSection(t) PROVE TypeOK'
  <2>1. Served(t) /\ Wrote(t)
    BY <1>4, <1>frame, SectionServes, SectionWrites
  <2>2. /\ pc[t] = "lock" /\ pc' = [pc EXCEPT ![t] = "done"] /\ made' \in {made, made + 1}
        /\ UNCHANGED <<guard, req, visited, calls, given>>
    BY <2>1 DEF Served
  <2>3. made + 1 <= calls
    BY <1>frame, <2>2, ObjectLeft DEF Open
  <2>4. LocksOK'
    BY <1>pc, <1>none, <1>free, <2>2
  <2>5. pc' \in [Threads -> Labels]
    BY <1>pc, <2>2 DEF Labels
  <2> QED
    BY <1>guard, <1>pc, <1>visited, <1>made, <1>given, <1>wrote, <1>type, <2>1, <2>2, <2>3, <2>4, <2>5
<1>5. ASSUME NEW t \in Threads, ComputeBegin(t) PROVE TypeOK'
  <2>1. /\ pc[t] = "lock" /\ pc' = [pc EXCEPT ![t] = "compute"]
        /\ guard' = [guard EXCEPT ![req[t].set] = t]
        /\ UNCHANGED <<map, req, visited, made, calls, given, departed, must>>
    BY <1>5 DEF ComputeBegin, hist
  <2>2. \A s \in Sets : (guard'[s] = guard[s] /\ guard[s] # t) \/ (guard'[s] = t /\ s = req[t].set)
    BY <1>guard, <1>none, <2>1
  <2>3. LocksOK'
    BY <1>guard, <1>pc, <1>locks, <2>1, <2>2 DEF LocksOK
  <2>4. pc' \in [Threads -> Labels] /\ guard' \in [Sets -> Threads \cup {NoThread}]
    BY <1>pc, <1>guard, <2>1 DEF Labels
  <2> QED
    BY <1>map, <1>pc, <1>visited, <1>must, <1>made, <1>given, <1>type, <2>1, <2>3, <2>4
<1>6. ASSUME NEW t \in Threads, ComputeEnd(t) PROVE TypeOK'
  <2>1. Computed(t) /\ Wrote(t) /\ given' \subseteq Objects
    BY <1>6, <1>frame, ComputeEnds, ComputeWrites
  <2>2. /\ pc[t] = "compute" /\ pc' = [pc EXCEPT ![t] = "done"] /\ made' \in {made, made + 1}
        /\ guard' = [guard EXCEPT ![req[t].set] = NoThread] /\ UNCHANGED <<req, visited, calls>>
    BY <2>1 DEF Computed
  <2>3. made + 1 <= calls
    BY <1>frame, <2>2, ObjectLeft DEF Open
  <2>4. \A s \in Sets : guard'[s] \in {guard[s], NoThread} /\ guard'[s] # t
    BY <1>guard, <1>locks, <2>2 DEF LocksOK
  <2>5. LocksOK'
    BY <1>pc, <1>free, <2>2, <2>4
  <2>6. pc' \in [Threads -> Labels] /\ guard' \in [Sets -> Threads \cup {NoThread}]
    BY <1>pc, <1>guard, <2>2 DEF Labels
  <2> QED
    BY <1>pc, <1>visited, <1>made, <1>wrote, <1>type, <2>1, <2>2, <2>3, <2>5, <2>6
<1>7. ASSUME NEW t \in Threads, SwapFirst(t) PROVE TypeOK'
  <2>1. /\ pc[t] = "lock" /\ req[t].op = "swap" /\ pc' = [pc EXCEPT ![t] = "swap_try"]
        /\ \E s \in Pair(t) : guard[s] = NoThread /\ guard' = [guard EXCEPT ![s] = t]
        /\ UNCHANGED <<map, req, visited, made, calls, given, departed, must>>
    BY <1>7 DEF SwapFirst, hist
  <2>2. \A s \in Sets : (guard'[s] = guard[s] /\ guard[s] # t) \/ (guard'[s] = t /\ s \in Pair(t))
    BY <1>guard, <1>none, <2>1
  <2>3. LocksOK'
    BY <1>guard, <1>pc, <1>locks, <2>1, <2>2 DEF LocksOK, Pair
  <2>4. pc' \in [Threads -> Labels] /\ guard' \in [Sets -> Threads \cup {NoThread}]
    BY <1>pc, <1>guard, <2>1 DEF Labels
  <2> QED
    BY <1>map, <1>pc, <1>visited, <1>must, <1>made, <1>given, <1>type, <2>1, <2>3, <2>4
<1>8. ASSUME NEW t \in Threads, SwapBoth(t) PROVE TypeOK'
  <2>1. /\ pc[t] = "swap_try" /\ pc' = [pc EXCEPT ![t] = "done"]
        /\ guard' = [s \in Sets |-> IF s \in Pair(t) THEN NoThread ELSE guard[s]]
        /\ map' = [map EXCEPT ![req[t].set] = map[req[t].other], ![req[t].other] = map[req[t].set]]
        /\ Attend /\ UNCHANGED <<req, visited, made, calls, given, departed>>
    BY <1>8 DEF SwapBoth, hist
  <2>2. req[t].set \in Sets /\ req[t].other \in Sets
    BY <1>frame, <2>1, Requested DEF FrameOK
  <2>3. \A s \in Sets : guard'[s] \in {guard[s], NoThread} /\ guard'[s] # t
    BY <1>guard, <1>locks, <2>1 DEF LocksOK, Pair
  <2>4. LocksOK'
    BY <1>pc, <1>free, <2>1, <2>3
  <2>5. /\ pc' \in [Threads -> Labels] /\ guard' \in [Sets -> Threads \cup {NoThread}]
        /\ map' \in [Sets -> [Keys -> Values]] /\ must' \in [Threads -> SUBSET Keys]
    BY <1>pc, <1>guard, <1>map, <1>must, <2>1, <2>2 DEF Labels, Attend
  <2> QED
    BY <1>map, <1>pc, <1>visited, <1>made, <1>given, <1>type, <2>1, <2>4, <2>5
<1>9. ASSUME NEW t \in Threads, SwapBack(t) PROVE TypeOK'
  <2>1. /\ pc[t] = "swap_try" /\ pc' = [pc EXCEPT ![t] = "lock"]
        /\ guard' = [s \in Sets |-> IF guard[s] = t THEN NoThread ELSE guard[s]]
        /\ UNCHANGED <<map, req, visited, made, calls, given, departed, must>>
    BY <1>9 DEF SwapBack, hist
  <2>2. LocksOK'
    BY <1>guard, <1>pc, <1>free, <2>1
  <2>3. pc' \in [Threads -> Labels] /\ guard' \in [Sets -> Threads \cup {NoThread}]
    BY <1>pc, <1>guard, <2>1 DEF Labels
  <2> QED
    BY <1>map, <1>pc, <1>visited, <1>must, <1>made, <1>given, <1>type, <2>1, <2>2, <2>3
<1>10. ASSUME NEW t \in Threads, ForeachNext(t) PROVE TypeOK'
  <2>1. /\ pc[t] = "lock"
        /\ pc' = [pc EXCEPT ![t] = "done"] \/ pc' = [pc EXCEPT ![t] = "visit"]
        /\ UNCHANGED <<guard, map, req, visited, made, calls, given, departed, must>>
    BY <1>10 DEF ForeachNext, hist
  <2>2. LocksOK'
    BY <1>pc, <1>none, <1>free, <2>1
  <2>3. pc' \in [Threads -> Labels]
    BY <1>pc, <2>1 DEF Labels
  <2> QED
    BY <1>guard, <1>map, <1>pc, <1>visited, <1>must, <1>made, <1>given, <1>type, <2>1, <2>2, <2>3
<1>11. ASSUME NEW t \in Threads, Visit(t) PROVE TypeOK'
  <2>1. /\ pc[t] = "visit"
        /\ pc' = [pc EXCEPT ![t] = "done"] \/ pc' = [pc EXCEPT ![t] = "lock"]
        /\ visited' = [visited EXCEPT ![t] = Append(@, arg[t][1])]
        /\ UNCHANGED <<guard, map, req, made, calls, given, departed, must>>
    BY <1>11 DEF Visit, hist
  <2>2. arg[t][1] \in Keys
    BY <1>frame, <2>1 DEF FrameOK
  <2>3. LocksOK'
    BY <1>pc, <1>none, <1>free, <2>1
  <2>4. pc' \in [Threads -> Labels]
    BY <1>pc, <2>1 DEF Labels
  <2>5. visited' \in [Threads -> Seq(Keys)]
    BY <1>visited, <2>1, <2>2
  <2> QED
    BY <1>guard, <1>map, <1>pc, <1>must, <1>made, <1>given, <1>type, <2>1, <2>3, <2>4, <2>5
<1> QED
  BY <1>1, <1>2, <1>3, <1>4, <1>5, <1>6, <1>7, <1>8, <1>9, <1>10, <1>11
  DEF Next, Step, OneSection

----------------------------------------------------------------------------
(* Calls.                                                                    *)

(* A step of a thread leaves the sets alone that other threads have locked.  *)
Intact(t) ==
  \A s \in Sets : guard[s] \notin {t, NoThread} => guard'[s] = guard[s] /\ map'[s] = map[s]

LEMMA BudgetInductive == TypeOK /\ CallsOK /\ [Next]_vars => BudgetOK'
<1> SUFFICES ASSUME TypeOK, CallsOK, [Next]_vars PROVE BudgetOK'
  OBVIOUS
<1>pc. pc \in [Threads -> Labels]
  BY DEF TypeOK
<1>made. made \in Nat /\ calls \in Nat
  BY DEF TypeOK, Objects
<1>open. IsFiniteSet(Open) /\ Cardinality(Open) \in Nat /\ made + Cardinality(Open) <= calls
  BY FS_CardinalityType DEF CallsOK, BudgetOK
<1>stay. ASSUME Open' = Open, UNCHANGED <<made, calls>> PROVE BudgetOK'
  BY <1>open, <1>stay DEF BudgetOK
<1>begin. ASSUME NEW t \in Threads, pc[t] = "idle", pc' = [pc EXCEPT ![t] = "lock"],
                 made' = made, calls' = calls + 1
          PROVE  BudgetOK'
  <2>1. Open' = Open \cup {t}
    BY <1>begin, <1>pc DEF Open
  <2>2. t \notin Open
    BY <1>begin DEF Open
  <2>3. IsFiniteSet(Open') /\ Cardinality(Open') = Cardinality(Open) + 1
    BY <1>open, <2>1, <2>2, FS_AddElement
  <2> QED
    BY <1>begin, <1>made, <1>open, <2>3 DEF BudgetOK
<1>end. ASSUME NEW t \in Threads, t \in Open, pc' = [pc EXCEPT ![t] = "done"],
               made' \in {made, made + 1}, calls' = calls
        PROVE  BudgetOK'
  <2>1. Open' = Open \ {t}
    BY <1>end, <1>pc DEF Open
  <2>2. IsFiniteSet(Open') /\ Cardinality(Open') = Cardinality(Open) - 1
    BY <1>end, <1>open, <2>1, FS_RemoveElement
  <2> QED
    BY <1>end, <1>made, <1>open, <2>2 DEF BudgetOK
<1>inner. ASSUME NEW t \in Threads, NEW l \in {"lock", "compute", "swap_try", "visit"}, t \in Open,
                 pc' = [pc EXCEPT ![t] = l], UNCHANGED <<made, calls>>
          PROVE  BudgetOK'
  BY <1>inner, <1>pc, <1>stay DEF Open
<1>1. CASE UNCHANGED vars \/ Finished
  BY <1>1, <1>stay DEF vars, hist, frame, Finished, Open
<1>2. ASSUME NEW t \in Threads, Call(t) \/ Return(t) PROVE BudgetOK'
  <2>1. CASE Call(t)
    BY <1>begin, <2>1 DEF Call
  <2>2. CASE Return(t)
    BY <1>pc, <1>stay, <2>2 DEF Return, Open, hist
  <2> QED
    BY <1>2, <2>1, <2>2
<1>3. ASSUME NEW t \in Threads, OneSection(t) PROVE BudgetOK'
  BY <1>3, <1>end, SectionServes DEF Served, Open
<1>4. ASSUME NEW t \in Threads, ComputeEnd(t) PROVE BudgetOK'
  BY <1>4, <1>end, ComputeEnds DEF Computed, Open
<1>5. ASSUME NEW t \in Threads, SwapBoth(t) PROVE BudgetOK'
  BY <1>5, <1>end DEF SwapBoth, Open, hist
<1>6. ASSUME NEW t \in Threads, ComputeBegin(t) \/ SwapFirst(t) \/ SwapBack(t) PROVE BudgetOK'
  BY <1>6, <1>inner DEF ComputeBegin, SwapFirst, SwapBack, Open, hist
<1>7. ASSUME NEW t \in Threads, ForeachNext(t) \/ Visit(t) PROVE BudgetOK'
  <2>1. /\ t \in Open /\ UNCHANGED <<made, calls>>
        /\ \E l \in {"lock", "visit", "done"} : pc' = [pc EXCEPT ![t] = l]
    BY <1>7 DEF ForeachNext, Visit, Open, hist
  <2> QED
    BY <1>end, <1>inner, <2>1
<1> QED
  BY <1>1, <1>2, <1>3, <1>4, <1>5, <1>6, <1>7 DEF Next, Step, OneSection

LEMMA StepIntact == ASSUME TypeOK, CallsOK, NEW t \in Threads, Step(t) PROVE Intact(t)
<1>guard. guard \in [Sets -> Threads \cup {NoThread}] /\ NoThread \notin Threads
  BY SetAssumption DEF TypeOK
<1>map. map \in [Sets -> [Keys -> Values]]
  BY DEF TypeOK, Values
<1>frame. BudgetOK /\ FrameOK(t)
  BY DEF CallsOK
<1>1. CASE Call(t) \/ Return(t) \/ ForeachNext(t) \/ Visit(t)
  BY <1>1 DEF Call, Return, ForeachNext, Visit, Intact
<1>2. CASE OneSection(t)
  <2>1. Served(t) /\ Wrote(t)
    BY <1>2, <1>frame, SectionServes, SectionWrites
  <2> QED
    BY <2>1 DEF Served, Wrote, Intact
<1>3. CASE ComputeBegin(t)
  BY <1>3, <1>guard DEF ComputeBegin, Intact
<1>4. CASE ComputeEnd(t)
  <2>1. Computed(t) /\ Wrote(t)
    BY <1>4, <1>frame, ComputeEnds, ComputeWrites
  <2>2. guard[req[t].set] = t
    BY <1>frame, <2>1 DEF Computed, FrameOK
  <2> QED
    BY <1>guard, <2>1, <2>2 DEF Computed, Wrote, Intact
<1>5. CASE SwapFirst(t)
  BY <1>5, <1>guard DEF SwapFirst, Intact
<1>6. CASE SwapBoth(t)
  BY <1>6, <1>guard, <1>map DEF SwapBoth, Pair, Intact
<1>7. CASE SwapBack(t)
  BY <1>7, <1>guard DEF SwapBack, Intact
<1> QED
  BY <1>1, <1>2, <1>3, <1>4, <1>5, <1>6, <1>7 DEF Step, OneSection

LEMMA CallsInductive == TypeOK /\ CallsOK /\ [Next]_vars => CallsOK'
<1> SUFFICES ASSUME TypeOK, CallsOK, [Next]_vars
             PROVE  (DOMAIN res = Threads /\ DOMAIN arg = Threads /\ \A t \in Threads : FrameOK(t))'
  BY BudgetInductive DEF CallsOK
<1>guard. guard \in [Sets -> Threads \cup {NoThread}] /\ NoThread \notin Threads
  BY SetAssumption DEF TypeOK
<1>map. map \in [Sets -> [Keys -> Values]]
  BY DEF TypeOK, Values
<1>pc. pc \in [Threads -> Labels] /\ req \in [Threads -> Requests \cup {NoReq}]
  BY DEF TypeOK
<1>visited. visited \in [Threads -> Seq(Keys)]
  BY DEF TypeOK
<1>frame. DOMAIN res = Threads /\ DOMAIN arg = Threads /\ \A t \in Threads : FrameOK(t)
  BY DEF CallsOK
(* The other threads.                                                        *)
<1>other. ASSUME NEW t \in Threads, Step(t), NEW u \in Threads, u # t,
                 pc'[u] = pc[u], req'[u] = req[u], arg'[u] = arg[u], visited'[u] = visited[u]
          PROVE  FrameOK(u)'
  <2>1. Intact(t) /\ FrameOK(u)
    BY <1>other, <1>frame, StepIntact
  <2>2. pc[u] = "compute" => /\ guard[req[u].set] = u /\ guard'[req[u].set] = u
                             /\ map'[req[u].set] = map[req[u].set]
    <3>1. pc[u] = "compute" => guard[req[u].set] = u /\ req[u].set \in Sets
      BY <2>1, Requested DEF FrameOK
    <3> QED
      BY <1>other, <1>guard, <2>1, <3>1 DEF Intact
  <2> QED
    BY <1>other, <2>1, <2>2 DEF FrameOK, Cur, Value
<1>step. ASSUME NEW t \in Threads, Step(t), FrameOK(t)',
                DOMAIN res' = Threads, DOMAIN arg' = Threads,
                \A u \in Threads : u # t =>
                   /\ pc'[u] = pc[u] /\ req'[u] = req[u]
                   /\ arg'[u] = arg[u] /\ visited'[u] = visited[u]
         PROVE  (DOMAIN res = Threads /\ DOMAIN arg = Threads /\ \A u \in Threads : FrameOK(u))'
  BY <1>step, <1>other
<1> DEFINE Goal == (DOMAIN res = Threads /\ DOMAIN arg = Threads /\ \A t \in Threads : FrameOK(t))'
<1>1. CASE UNCHANGED vars \/ Finished
  BY <1>1, <1>frame DEF FrameOK, Cur, Value, vars, hist, frame, Finished
<1>2. ASSUME NEW t \in Threads, Call(t) PROVE Goal
  <2>1. PICK r \in Requests : req' = [req EXCEPT ![t] = r]
    BY <1>2 DEF Call
  <2>2. pc[t] = "idle" /\ pc' = [pc EXCEPT ![t] = "lock"] /\ UNCHANGED <<res, arg, visited>>
    BY <1>2 DEF Call
  <2>3. visited[t] = <<>>
    BY <1>frame, <2>2 DEF FrameOK
  <2>4. FrameOK(t)'
    BY <1>pc, <2>1, <2>2, <2>3 DEF FrameOK
  <2> QED
    BY <1>2, <1>pc, <1>frame, <1>step, <2>1, <2>2, <2>4 DEF Step
<1>3. ASSUME NEW t \in Threads, Return(t) PROVE Goal
  <2>1. /\ pc' = [pc EXCEPT ![t] = "idle"] /\ req' = [req EXCEPT ![t] = NoReq]
        /\ res' = [res EXCEPT ![t] = Ok(Null)] /\ visited' = [visited EXCEPT ![t] = <<>>]
        /\ arg' = arg
    BY <1>3 DEF Return
  <2>2. FrameOK(t)'
    BY <1>pc, <1>visited, <2>1 DEF FrameOK
  <2> QED
    BY <1>3, <1>pc, <1>visited, <1>frame, <1>step, <2>1, <2>2 DEF Step
<1>4. ASSUME NEW t \in Threads, OneSection(t) PROVE Goal
  <2>1. /\ pc[t] = "lock" /\ pc' = [pc EXCEPT ![t] = "done"] /\ UNCHANGED <<req, arg, visited>>
        /\ \E out : res' = [res EXCEPT ![t] = out]
    BY <1>4, SectionServes DEF Served
  <2>2. FrameOK(t)'
    BY <1>pc, <1>frame, <2>1 DEF FrameOK
  <2> QED
    BY <1>4, <1>pc, <1>frame, <1>step, <2>1, <2>2 DEF Step, OneSection
<1>5. ASSUME NEW t \in Threads, ComputeBegin(t) PROVE Goal
  <2>1. /\ pc[t] = "lock" /\ req[t].op = "compute" /\ pc' = [pc EXCEPT ![t] = "compute"]
        /\ guard' = [guard EXCEPT ![req[t].set] = t]
        /\ arg' = [arg EXCEPT ![t] = <<req[t].key, Value(Cur(t))>>]
        /\ UNCHANGED <<map, req, res, visited>>
    BY <1>5 DEF ComputeBegin
  <2>2. req[t] \in Requests /\ req[t].set \in Sets /\ (visited[t] # <<>> => req[t].op = "foreach")
    BY <1>frame, <2>1, Requested DEF FrameOK
  <2>3. pc'[t] = "compute" /\ guard'[req[t].set] = t /\ arg'[t] = <<req[t].key, Value(Cur(t))>>
    BY <1>pc, <1>guard, <1>frame, <2>1, <2>2
  <2>4. FrameOK(t)'
    BY <2>1, <2>2, <2>3 DEF FrameOK, Cur, Value
  <2> QED
    BY <1>5, <1>pc, <1>frame, <1>step, <2>1, <2>4 DEF Step
<1>6. ASSUME NEW t \in Threads, ComputeEnd(t) PROVE Goal
  <2>1. /\ pc[t] = "compute" /\ pc' = [pc EXCEPT ![t] = "done"] /\ UNCHANGED <<req, visited>>
        /\ arg' = [arg EXCEPT ![t] = Null] /\ \E out : res' = [res EXCEPT ![t] = out]
    BY <1>6, ComputeEnds DEF Computed
  <2>2. FrameOK(t)'
    BY <1>pc, <1>frame, <2>1 DEF FrameOK
  <2> QED
    BY <1>6, <1>pc, <1>frame, <1>step, <2>1, <2>2 DEF Step
<1>7. ASSUME NEW t \in Threads, SwapFirst(t) PROVE Goal
  <2>1. /\ pc[t] = "lock" /\ req[t].op = "swap" /\ pc' = [pc EXCEPT ![t] = "swap_try"]
        /\ UNCHANGED <<req, res, arg, visited>>
    BY <1>7 DEF SwapFirst
  <2>2. FrameOK(t)'
    BY <1>pc, <1>frame, <2>1 DEF FrameOK
  <2> QED
    BY <1>7, <1>pc, <1>frame, <1>step, <2>1, <2>2 DEF Step
<1>8. ASSUME NEW t \in Threads, SwapBoth(t) PROVE Goal
  <2>1. /\ pc[t] = "swap_try" /\ pc' = [pc EXCEPT ![t] = "done"]
        /\ res' = [res EXCEPT ![t] = Ok(Null)] /\ UNCHANGED <<req, arg, visited>>
    BY <1>8 DEF SwapBoth
  <2>2. FrameOK(t)'
    BY <1>pc, <1>frame, <2>1 DEF FrameOK
  <2> QED
    BY <1>8, <1>pc, <1>frame, <1>step, <2>1, <2>2 DEF Step
<1>9. ASSUME NEW t \in Threads, SwapBack(t) PROVE Goal
  <2>1. /\ pc[t] = "swap_try" /\ pc' = [pc EXCEPT ![t] = "lock"]
        /\ UNCHANGED <<req, res, arg, visited>>
    BY <1>9 DEF SwapBack
  <2>2. FrameOK(t)'
    BY <1>pc, <1>frame, <2>1 DEF FrameOK
  <2> QED
    BY <1>9, <1>pc, <1>frame, <1>step, <2>1, <2>2 DEF Step
<1>10. ASSUME NEW t \in Threads, ForeachNext(t) PROVE Goal
  <2>1. /\ pc[t] = "lock" /\ req[t].op = "foreach" /\ UNCHANGED <<map, req, visited>>
    BY <1>10 DEF ForeachNext
  <2>2. req[t] \in Requests /\ req[t].set \in Sets
    BY <1>frame, <2>1, Requested DEF FrameOK
  <2>3. CASE pc' = [pc EXCEPT ![t] = "done"] /\ UNCHANGED arg /\ \E out : res' = [res EXCEPT ![t] = out]
    <3>1. FrameOK(t)'
      BY <1>pc, <1>frame, <2>1, <2>3 DEF FrameOK
    <3> QED
      BY <1>10, <1>pc, <1>frame, <1>step, <2>1, <2>3, <3>1 DEF Step
  <2>4. ASSUME NEW k \in Onward(t), pc' = [pc EXCEPT ![t] = "visit"], UNCHANGED res,
               arg' = [arg EXCEPT ![t] = <<k, map[req[t].set][k]>>]
        PROVE  Goal
    <3>1. k \in Keys /\ map[req[t].set][k] # Absent
      BY DEF Onward, Mapped
    <3>2. <<k, map[req[t].set][k]>> \in Keys \X (Objects \cup {Null})
      <4>1. map[req[t].set][k] \in Objects \cup {Null}
        BY <1>map, <2>2, <3>1 DEF Values
      <4> QED
        BY <3>1, <4>1
    <3>3. arg'[t] \in Keys \X (Objects \cup {Null})
      BY <1>frame, <2>4, <3>2
    <3>4. FrameOK(t)'
      BY <1>pc, <2>1, <2>2, <2>4, <3>3 DEF FrameOK
    <3> QED
      BY <1>10, <1>pc, <1>frame, <1>step, <2>1, <2>4, <3>4 DEF Step
  <2> QED
    BY <1>10, <2>3, <2>4 DEF ForeachNext
<1>11. ASSUME NEW t \in Threads, Visit(t) PROVE Goal
  <2>1. /\ pc[t] = "visit" /\ UNCHANGED req /\ arg' = [arg EXCEPT ![t] = Null]
        /\ visited' = [visited EXCEPT ![t] = Append(@, arg[t][1])]
        /\ \E l \in {"lock", "done"} : pc' = [pc EXCEPT ![t] = l]
        /\ res' = res \/ \E out : res' = [res EXCEPT ![t] = out]
    BY <1>11 DEF Visit
  <2>2. req[t] \in Requests /\ req[t].op = "foreach"
    BY <1>frame, <2>1 DEF FrameOK
  <2>3. pc'[t] \in {"lock", "done"}
    BY <1>pc, <2>1
  <2>4. FrameOK(t)'
    BY <2>1, <2>2, <2>3 DEF FrameOK
  <2>5. \A u \in Threads : u # t => visited'[u] = visited[u]
    BY <1>visited, <2>1
  <2>6. \A u \in Threads : u # t => pc'[u] = pc[u] /\ req'[u] = req[u] /\ arg'[u] = arg[u]
    BY <1>pc, <1>frame, <2>1
  <2>7. DOMAIN res' = Threads /\ DOMAIN arg' = Threads
    BY <1>frame, <2>1
  <2> QED
    BY <1>11, <1>step, <2>4, <2>5, <2>6, <2>7 DEF Step
<1> QED
  BY <1>1, <1>2, <1>3, <1>4, <1>5, <1>6, <1>7, <1>8, <1>9, <1>10, <1>11
  DEF Next, Step, OneSection

LEMMA ListValues ==
  ASSUME NEW l \in Seq(Keys \X {Raw, Null})
  PROVE  FromList(l) \in [Keys -> {Raw, Null, Absent}]
<1> DEFINE I(k) == {i \in DOMAIN l : l[i][1] = k}
<1> SUFFICES ASSUME NEW k \in Keys, I(k) # {} PROVE l[Min(I(k))][2] \in {Raw, Null}
  BY DEF FromList
<1>1. I(k) \subseteq Nat
  OBVIOUS
<1>2. PICK n \in I(k) : \A m \in I(k) : ~(m < n)
  <2> HIDE DEF I
  <2> QED
    BY <1>1, LeastNat
<1>3. \A m \in I(k) : n <= m
  BY <1>1, <1>2
<1>4. Min(I(k)) \in I(k)
  <2> HIDE DEF I
  <2> QED
    BY <1>3 DEF Min
<1>5. \A i \in DOMAIN l : l[i] \in Keys \X {Raw, Null}
  OBVIOUS
<1> QED
  BY <1>4, <1>5

LEMMA CallsInit == Init => TypeOK /\ CallsOK
<1> SUFFICES ASSUME Init PROVE TypeOK /\ CallsOK
  OBVIOUS
<1>1. /\ guard = [s \in Sets |-> NoThread] /\ pc = [t \in Threads |-> "idle"]
      /\ req = [t \in Threads |-> NoReq] /\ res = [t \in Threads |-> Ok(Null)]
      /\ arg = [t \in Threads |-> Null] /\ visited = [t \in Threads |-> <<>>]
      /\ must = [t \in Threads |-> {}]
      /\ made = 0 /\ calls = 0 /\ given = {} /\ departed = {}
  BY DEF Init
<1>2. map \in [Sets -> [Keys -> Values]]
  <2>1. Raw \in Values /\ Null \in Values /\ Absent \in Values
    BY SetAssumption DEF Raw, Values, Objects
  <2>2. \A s \in Sets : FromList(Lists[s]) \in [Keys -> Values]
    <3> SUFFICES ASSUME NEW s \in Sets PROVE FromList(Lists[s]) \in [Keys -> Values]
      OBVIOUS
    <3>1. Lists[s] \in Seq(Keys \X {Raw, Null})
      BY SetAssumption
    <3>2. FromList(Lists[s]) \in [Keys -> {Raw, Null, Absent}]
      BY <3>1, ListValues
    <3> QED
      BY <2>1, <3>2
  <2> QED
    BY <2>2 DEF Init
<1>3. TypeOK
  BY <1>1, <1>2, SetAssumption DEF TypeOK, Labels, Objects, Values
<1>4. Open = {}
  BY <1>1 DEF Open
<1>5. BudgetOK
  BY <1>1, <1>4, FS_EmptySet DEF BudgetOK
<1>6. \A t \in Threads : FrameOK(t)
  BY <1>1 DEF FrameOK
<1> QED
  BY <1>1, <1>3, <1>5, <1>6 DEF CallsOK

LEMMA CallsInvariant == Spec => [](TypeOK /\ CallsOK)
<1> QED
  BY CallsInit, TypeInductive, CallsInductive, PTL DEF Spec

(* Whatever threads do to a set at the same time, its values stay objects,   *)
(* and a spinlock that is taken belongs to the compute() or the swap() of    *)
(* the thread that took it, which is still inside (spinlock, std::lock).     *)
THEOREM SetTypes == Spec => []TypeOK
  BY CallsInvariant, PTL

----------------------------------------------------------------------------
(* Servlets.                                                                 *)

(* An object that a caller was given is mapped, or has been displaced.       *)
LEMMA WroteKeeps ==
  ASSUME NEW t \in Threads, Wrote(t), NEW v, v \notin departed', v \notin {Null, Absent},
         \E s \in Sets, k \in Keys : map[s][k] = v
  PROVE  \E s \in Sets, k \in Keys : map'[s][k] = v
<1>1. PICK s \in Sets, k \in Keys : map[s][k] = v
  OBVIOUS
<1>2. CASE s # req[t].set
  BY <1>1, <1>2 DEF Wrote
<1>3. CASE s = req[t].set
  BY <1>1, <1>3 DEF Wrote
<1> QED
  BY <1>2, <1>3

LEMMA GivenIsMapped ==
  ASSUME TypeOK, CallsOK, NEW t \in Threads, ComputeEnd(t), NEW v \in given', v \notin given
  PROVE  \E s \in Sets, k \in Keys : map'[s][k] = v
<1> DEFINE out == Transform(req[t], arg[t][2], made + 1)
<1>1. req[t] \in Requests /\ req[t].op = "compute"
  BY DEF ComputeEnd, CallsOK, FrameOK
<1>2. req[t].set \in Sets /\ req[t].key \in Keys
  BY <1>1, Requested
<1>3. out.thrown => Finish(req[t], out).kind # "ok"
  BY <1>1, TransformDoes
<1>4. /\ IF out.thrown THEN Same ELSE Store(t, IF out.val = Null THEN Absent ELSE out.val)
      /\ given' = IF Finish(req[t], out).kind = "ok" /\ out.val # Null THEN given \cup {out.val} ELSE given
  BY DEF ComputeEnd
<1> HIDE DEF out
<1>5. v = out.val /\ out.val # Null /\ ~out.thrown
  BY <1>3, <1>4
<1>6. map' = [map EXCEPT ![req[t].set][req[t].key] = v]
  BY <1>4, <1>5 DEF Store
<1>7. map'[req[t].set][req[t].key] = v
  BY <1>2, <1>6 DEF TypeOK
<1> QED
  BY <1>2, <1>7

LEMMA OneServletInductive == TypeOK /\ CallsOK /\ OneServlet /\ [Next]_vars => OneServlet'
<1> SUFFICES ASSUME TypeOK, CallsOK, OneServlet, [Next]_vars,
                    NEW v \in given', v \notin departed'
             PROVE  \E s \in Sets, k \in Keys : map'[s][k] = v
  BY DEF OneServlet
<1>frame. BudgetOK /\ \A t \in Threads : FrameOK(t)
  BY DEF CallsOK
<1>old. v \in given /\ v \notin departed => \E s \in Sets, k \in Keys : map[s][k] = v
  BY DEF OneServlet
<1>value. v \in given => v \notin {Null, Absent}
  <2>1. given \subseteq Nat
    BY SetAssumption DEF TypeOK, Objects
  <2>2. Null \notin Nat /\ Absent \notin Nat
    BY SetAssumption
  <2> QED
    BY <2>1, <2>2
<1>same. UNCHANGED <<map, given, departed>> => \E s \in Sets, k \in Keys : map'[s][k] = v
  BY <1>old
<1>1. CASE UNCHANGED vars \/ Finished
  BY <1>1, <1>same DEF vars, hist, Finished
<1>2. ASSUME NEW t \in Threads,
             \/ Call(t) \/ Return(t) \/ ComputeBegin(t) \/ SwapFirst(t) \/ SwapBack(t)
             \/ ForeachNext(t) \/ Visit(t)
      PROVE  \E s \in Sets, k \in Keys : map'[s][k] = v
  BY <1>2, <1>same DEF Call, Return, ComputeBegin, SwapFirst, SwapBack, ForeachNext, Visit, hist
<1>3. ASSUME NEW t \in Threads, OneSection(t)
      PROVE  \E s \in Sets, k \in Keys : map'[s][k] = v
  <2>1. Served(t) /\ Wrote(t)
    BY <1>3, <1>frame, SectionServes, SectionWrites
  <2>2. given' = given /\ departed \subseteq departed'
    BY <2>1 DEF Served, Wrote
  <2> QED
    BY <1>old, <1>value, <2>1, <2>2, WroteKeeps
<1>4. ASSUME NEW t \in Threads, ComputeEnd(t)
      PROVE  \E s \in Sets, k \in Keys : map'[s][k] = v
  <2>1. Wrote(t)
    BY <1>4, <1>frame, ComputeWrites
  <2>2. departed \subseteq departed'
    BY <2>1 DEF Wrote
  <2>3. CASE v \in given
    BY <1>old, <1>value, <2>1, <2>2, <2>3, WroteKeeps
  <2>4. CASE v \notin given
    BY <1>4, <2>4, GivenIsMapped
  <2> QED
    BY <2>3, <2>4
<1>5. ASSUME NEW t \in Threads, SwapBoth(t)
      PROVE  \E s \in Sets, k \in Keys : map'[s][k] = v
  <2> DEFINE a == req[t].set
             b == req[t].other
  <2>1. a \in Sets /\ b \in Sets /\ a # b
    BY <1>5, <1>frame, Requested DEF SwapBoth, FrameOK
  <2>2. map' = [map EXCEPT ![a] = map[b], ![b] = map[a]] /\ UNCHANGED <<given, departed>>
    BY <1>5 DEF SwapBoth, hist
  <2> HIDE DEF a, b
  <2>3. PICK s \in Sets, k \in Keys : map[s][k] = v
    BY <1>old, <2>2
  <2>4. map'[a] = map[b] /\ map'[b] = map[a] /\ \A u \in Sets : u \notin {a, b} => map'[u] = map[u]
    BY <2>1, <2>2 DEF TypeOK
  <2> QED
    BY <2>1, <2>3, <2>4
<1> QED
  BY <1>1, <1>2, <1>3, <1>4, <1>5 DEF Next, Step, OneSection

(* Callers of ret() and add() agree: the object that one of them was given   *)
(* stays mapped until a set(), a remove(), a replace() or the like takes it  *)
(* out, for any number of threads (servlets::ret, servlets::add, compute).   *)
THEOREM ServletsAgree == Spec => []OneServlet
<1>1. Init => OneServlet
  BY DEF Init, OneServlet
<1> QED
  BY <1>1, OneServletInductive, CallsInvariant, PTL DEF Spec

----------------------------------------------------------------------------
(* foreach(): where it starts and where it ends, for one request.            *)

Starts(r, k) ==
  \/ r.mode = "all"
  \/ r.mode = "prefix" /\ ~Less(k, r.min)
  \/ r.mode = "range" /\ r.include_min /\ ~Less(k, r.min)
  \/ r.mode = "range" /\ ~r.include_min /\ Less(r.min, k)
Stops(r, k) ==
  \/ r.mode = "prefix" /\ PrefixEnd(r, k)
  \/ r.mode = "range" /\ RangeEnd(r, k)

LEMMA ForeachRequest ==
  ASSUME NEW r \in Requests, r.op = "foreach"
  PROVE  /\ r.set \in Sets /\ r.mode \in {"all", "prefix", "range"}
         /\ r.min \in Seq(Nat) /\ r.max \in Seq(Nat)
         /\ r.include_min \in BOOLEAN /\ r.include_max \in BOOLEAN
  BY SetAssumption

LEMMA InRangeStarts ==
  ASSUME NEW r \in Requests, r.op = "foreach", NEW k \in Seq(Nat), InRange(r, k)
  PROVE  Starts(r, k)
<1>1. /\ r.mode \in {"all", "prefix", "range"} /\ r.min \in Seq(Nat)
      /\ r.include_min \in BOOLEAN
  BY ForeachRequest
<1>2. CASE r.mode = "all"
  BY <1>2 DEF Starts
<1>3. CASE r.mode = "prefix"
  <2>1. Agree(r.min, k, Len(r.min))
    BY <1>1, <1>3, PrefixMeans
  <2>2. ASSUME NEW n \in Nat, Agree(k, r.min, n), n < Len(r.min), n = Len(k) \/ k[n + 1] < r.min[n + 1]
        PROVE  FALSE
    <3>1. n + 1 \in 1..Len(r.min) /\ n # Len(k) /\ r.min[n + 1] = k[n + 1] /\ k[n + 1] \in Nat
      <4>1. n + 1 \in 1..Len(r.min) /\ Len(k) \in Nat /\ Len(r.min) <= Len(k)
        <5>1. Len(r.min) \in Nat /\ Len(k) \in Nat
          BY <1>1
        <5>2. Len(r.min) <= Len(k)
          BY <2>1, Zenon DEF Agree
        <5> QED
          BY <2>2, <5>1, <5>2
      <4>2. n + 1 \in 1..Len(k)
        BY <1>1, <4>1
      <4> QED
        BY <2>1, <4>1, <4>2 DEF Agree
    <3> QED
      BY <2>2, <3>1
  <2>3. ~Less(k, r.min)
    BY <1>1, <2>2, LessMeans
  <2> QED
    BY <1>3, <2>3 DEF Starts
<1>4. CASE r.mode = "range"
  <2>1. Less(r.min, k) \/ (r.include_min /\ k = r.min)
    BY <1>4 DEF InRange
  <2>2. ~Less(k, r.min)
    BY <1>1, <2>1, LessIrreflexive, LessTransitive
  <2> QED
    BY <1>1, <1>4, <2>1, <2>2 DEF Starts
<1> QED
  BY <1>1, <1>2, <1>3, <1>4

LEMMA StartsOnward ==
  ASSUME NEW r \in Requests, r.op = "foreach", NEW j \in Seq(Nat), NEW k \in Seq(Nat),
         Starts(r, j), Less(j, k)
  PROVE  Starts(r, k)
<1>1. r.min \in Seq(Nat)
  BY ForeachRequest
<1>2. ~Less(j, r.min) => ~Less(k, r.min)
  BY <1>1, LessTransitive
<1>3. Less(r.min, j) => Less(r.min, k)
  BY <1>1, LessTransitive
<1> QED
  BY <1>2, <1>3 DEF Starts

LEMMA BetweenIsInRange ==
  ASSUME NEW r \in Requests, r.op = "foreach", NEW k \in Seq(Nat), Starts(r, k), ~Stops(r, k)
  PROVE  InRange(r, k)
<1>1. /\ r.mode \in {"all", "prefix", "range"} /\ r.min \in Seq(Nat) /\ r.max \in Seq(Nat)
      /\ r.include_min \in BOOLEAN /\ r.include_max \in BOOLEAN
  BY ForeachRequest
<1>2. CASE r.mode = "all"
  BY <1>2 DEF InRange
<1>3. CASE r.mode = "prefix"
  BY <1>1, <1>3, PrefixMeans DEF Stops
<1>4. CASE r.mode = "range"
  <2>1. Less(r.min, k) \/ (r.include_min /\ k = r.min)
    BY <1>1, <1>4, LessTotal DEF Starts
  <2>2. Less(k, r.max) \/ (r.include_max /\ k = r.max)
    BY <1>1, <1>4, LessTotal DEF Stops, RangeEnd
  <2> QED
    BY <1>4, <2>1, <2>2 DEF InRange
<1> QED
  BY <1>1, <1>2, <1>3, <1>4

LEMMA NothingAfterStop ==
  ASSUME NEW r \in Requests, r.op = "foreach", NEW j \in Seq(Nat), NEW k \in Seq(Nat),
         Starts(r, j), Stops(r, j), InRange(r, k)
  PROVE  j # k /\ ~Less(j, k)
<1>1. r.min \in Seq(Nat) /\ r.max \in Seq(Nat)
  BY ForeachRequest
<1>2. CASE r.mode = "prefix"
  <2>1. Agree(r.min, k, Len(r.min)) /\ ~Agree(r.min, j, Len(r.min))
    BY <1>1, <1>2, PrefixMeans DEF Stops
  <2>2. ~Less(j, r.min)
    BY <1>2 DEF Starts
  <2> QED
    BY <1>1, <2>1, <2>2, PrefixConvex
<1>3. CASE r.mode = "range"
  <2>1. Less(k, r.max) \/ (r.include_max /\ k = r.max)
    BY <1>3 DEF InRange
  <2>2. Less(r.max, j) \/ (~r.include_max /\ j = r.max)
    BY <1>3 DEF Stops, RangeEnd
  <2> QED
    BY <1>1, <2>1, <2>2, LessIrreflexive, LessTransitive
<1> QED
  BY <1>2, <1>3 DEF Stops

----------------------------------------------------------------------------
(* foreach(): the calls of f.                                                *)

(* A key that stays in the map has been visited, or is still ahead.          *)
Ahead(t, k) ==
  \/ k \in Range(visited[t])
  \/ pc[t] = "visit" /\ (k = arg[t][1] \/ Less(arg[t][1], k))
  \/ pc[t] # "visit" /\ \A i \in DOMAIN visited[t] : Less(visited[t][i], k)

ForeachOK(t) ==
  req[t].op = "foreach" =>
    /\ \A i \in DOMAIN visited[t] : InRange(req[t], visited[t][i])
    /\ \A i, j \in DOMAIN visited[t] : i < j => Less(visited[t][i], visited[t][j])
    /\ pc[t] = "visit" => /\ InRange(req[t], arg[t][1])
                          /\ \A i \in DOMAIN visited[t] : Less(visited[t][i], arg[t][1])
    /\ \A k \in must[t] : /\ InRange(req[t], k) /\ map[req[t].set][k] # Absent
                          /\ Ahead(t, k)
    /\ pc[t] = "done" /\ res[t].kind = "end" => must[t] \subseteq Range(visited[t])

(* Where the loop is when it has the lock again.                             *)
LEMMA OnwardMeans ==
  ASSUME TypeOK, CallsOK, NEW t \in Threads, req[t] \in Requests, req[t].op = "foreach",
         pc[t] = "lock", ForeachOK(t)
  PROVE  /\ Onward(t) \subseteq Keys
         /\ \A k \in Onward(t) : /\ Starts(req[t], k)
                                 /\ \A i \in DOMAIN visited[t] : Less(visited[t][i], k)
         /\ \A k \in must[t] : k \in Range(visited[t]) \/ k \in Onward(t)
<1> DEFINE r == req[t]
           w == visited[t]
<1>1. w \in Seq(Keys) /\ Keys \subseteq Seq(Nat) /\ must[t] \subseteq Keys
  BY SetAssumption DEF TypeOK
<1>2. /\ \A i \in DOMAIN w : InRange(r, w[i])
      /\ \A i, j \in DOMAIN w : i < j => Less(w[i], w[j])
      /\ \A k \in must[t] : /\ InRange(r, k) /\ map[r.set][k] # Absent
                            /\ k \in Range(w) \/ \A i \in DOMAIN w : Less(w[i], k)
  BY DEF ForeachOK, Ahead
<1>3. Onward(t) \subseteq Keys
  BY DEF Onward, Mapped
<1>4. /\ Len(w) \in Nat /\ DOMAIN w = 1..Len(w) /\ (w # <<>> => Len(w) \in DOMAIN w)
      /\ \A i \in DOMAIN w : w[i] \in Keys
  BY <1>1
<1>5. CASE w = <<>>
  <2>1. Onward(t) = {k \in Mapped(t) : Starts(r, k)}
    BY <1>5, ForeachRequest DEF Onward, Starts
  <2>2. \A k \in must[t] : Starts(r, k) /\ k \in Mapped(t)
    BY <1>1, <1>2, InRangeStarts DEF Mapped
  <2> QED
    BY <1>3, <1>4, <1>5, <2>1, <2>2
<1>6. CASE w # <<>>
  <2> DEFINE last == w[Len(w)]
  <2>1. Onward(t) = {k \in Mapped(t) : Less(last, k)}
    BY <1>6 DEF Onward
  <2>2. last \in Keys /\ InRange(r, last) /\ last \in Seq(Nat)
    BY <1>1, <1>2, <1>4, <1>6
  <2>3. \A i \in DOMAIN w : w[i] = last \/ Less(w[i], last)
    <3>1. \A i \in DOMAIN w : i = Len(w) \/ i < Len(w)
      BY <1>4
    <3> QED
      BY <1>2, <1>4, <1>6, <3>1
  <2>4. \A k \in must[t] : k \in Range(w) \/ Less(last, k)
    BY <1>2, <1>4, <1>6
  <2> HIDE DEF last
  <2>5. \A k \in Onward(t) : Starts(r, k)
    BY <1>1, <1>3, <2>1, <2>2, InRangeStarts, StartsOnward
  <2>6. ASSUME NEW k \in Onward(t), NEW i \in DOMAIN w PROVE Less(w[i], k)
    <3>1. k \in Seq(Nat) /\ w[i] \in Seq(Nat) /\ Less(last, k)
      BY <1>1, <1>3, <1>4, <2>1
    <3> QED
      BY <2>2, <2>3, <3>1, LessTransitive
  <2>7. \A k \in must[t] : k \in Range(w) \/ k \in Onward(t)
    BY <1>1, <1>2, <2>1, <2>4 DEF Mapped
  <2> QED
    BY <1>3, <2>5, <2>6, <2>7
<1> QED
  BY <1>5, <1>6

LEMMA NextEntry ==
  ASSUME TypeOK, CallsOK, NEW t \in Threads, req[t] \in Requests, req[t].op = "foreach",
         pc[t] = "lock", ForeachOK(t), NEW k \in Onward(t), \A j \in Onward(t) : ~Less(j, k),
         ~Beyond(t, k)
  PROVE  /\ InRange(req[t], k)
         /\ \A i \in DOMAIN visited[t] : Less(visited[t][i], k)
         /\ \A j \in must[t] : j \in Range(visited[t]) \/ j = k \/ Less(k, j)
<1>1. Keys \subseteq Seq(Nat) /\ must[t] \subseteq Keys /\ Onward(t) \subseteq Keys
  BY OnwardMeans, SetAssumption DEF TypeOK
<1>2. Starts(req[t], k) /\ \A i \in DOMAIN visited[t] : Less(visited[t][i], k)
  BY OnwardMeans
<1>3. InRange(req[t], k)
  BY <1>1, <1>2, BetweenIsInRange DEF Beyond, Stops
<1>4. ASSUME NEW j \in must[t], j \notin Range(visited[t]) PROVE j = k \/ Less(k, j)
  <2>1. j \in Onward(t)
    BY <1>4, OnwardMeans
  <2> QED
    BY <1>1, <2>1, LessTotal
<1> QED
  BY <1>2, <1>3, <1>4

LEMMA LoopEnd ==
  ASSUME TypeOK, CallsOK, NEW t \in Threads, req[t] \in Requests, req[t].op = "foreach",
         pc[t] = "lock", ForeachOK(t),
         \A k \in Onward(t) : (\A j \in Onward(t) : ~Less(j, k)) => Beyond(t, k)
  PROVE  must[t] \subseteq Range(visited[t])
<1> SUFFICES ASSUME NEW k \in must[t], k \notin Range(visited[t]) PROVE FALSE
  OBVIOUS
<1>1. k \in Onward(t) /\ Onward(t) \subseteq Keys /\ Keys \subseteq Seq(Nat)
  BY OnwardMeans, SetAssumption
<1>2. PICK j \in Onward(t) : \A i \in Onward(t) : ~Less(i, j)
  BY <1>1, FirstKey
<1>3. Starts(req[t], j) /\ Stops(req[t], j)
  BY <1>2, OnwardMeans DEF Beyond, Stops
<1>4. InRange(req[t], k)
  BY DEF ForeachOK
<1>5. j # k /\ ~Less(j, k)
  BY <1>1, <1>3, <1>4, NothingAfterStop
<1> QED
  BY <1>1, <1>2, <1>5, LessTotal

LEMMA ForeachStep ==
  ASSUME TypeOK, CallsOK, \A u \in Threads : ForeachOK(u), NEW t \in Threads, Step(t),
         NEW u \in Threads, req[u].op = "foreach", u # t \/ (~Call(t) /\ ~Return(t))
  PROVE  must'[u] \subseteq must[u] /\ \A k \in must'[u] : map'[req[u].set][k] # Absent
<1>1. \A k \in must[u] : map[req[u].set][k] # Absent
  BY DEF ForeachOK
<1>2. must \in [Threads -> SUBSET Keys] /\ BudgetOK /\ FrameOK(t)
  BY DEF TypeOK, CallsOK
<1>3. (map' = map /\ must' = must) \/ Attend => 
        must'[u] \subseteq must[u] /\ \A k \in must'[u] : map'[req[u].set][k] # Absent
  BY <1>1 DEF Attend
<1>4. CASE Call(t) \/ Return(t)
  BY <1>1, <1>2, <1>4 DEF Call, Return
<1>5. CASE OneSection(t) \/ ComputeEnd(t)
  BY <1>2, <1>3, <1>5, SectionWrites, ComputeWrites DEF Wrote
<1>6. CASE ComputeBegin(t) \/ SwapFirst(t) \/ SwapBack(t) \/ ForeachNext(t) \/ Visit(t)
  BY <1>3, <1>6 DEF ComputeBegin, SwapFirst, SwapBack, ForeachNext, Visit
<1>7. CASE SwapBoth(t)
  BY <1>3, <1>7 DEF SwapBoth
<1> QED
  BY <1>4, <1>5, <1>6, <1>7 DEF Step, OneSection

LEMMA ForeachInductive ==
  TypeOK /\ CallsOK /\ (\A t \in Threads : ForeachOK(t)) /\ [Next]_vars
    => (\A t \in Threads : ForeachOK(t))'
<1> SUFFICES ASSUME TypeOK, CallsOK, \A t \in Threads : ForeachOK(t), [Next]_vars
             PROVE  \A t \in Threads : ForeachOK(t)'
  OBVIOUS
<1>pc. pc \in [Threads -> Labels] /\ req \in [Threads -> Requests \cup {NoReq}]
  BY DEF TypeOK
<1>visited. visited \in [Threads -> Seq(Keys)] /\ must \in [Threads -> SUBSET Keys]
  BY DEF TypeOK
<1>frame. DOMAIN res = Threads /\ DOMAIN arg = Threads /\ \A t \in Threads : FrameOK(t)
  BY DEF CallsOK
(* A thread whose foreach() does not move.                                   *)
<1>rest. ASSUME NEW t \in Threads, Step(t), NEW u \in Threads, u # t \/ (~Call(t) /\ ~Return(t)),
                req'[u] = req[u], visited'[u] = visited[u],
                req[u].op = "foreach" => pc'[u] = pc[u] /\ arg'[u] = arg[u] /\ res'[u] = res[u]
         PROVE  ForeachOK(u)'
  <2>1. ForeachOK(u)
    OBVIOUS
  <2>2. req[u].op = "foreach" =>
          must'[u] \subseteq must[u] /\ \A k \in must'[u] : map'[req[u].set][k] # Absent
    BY <1>rest, ForeachStep
  <2> QED
    BY <1>rest, <2>1, <2>2 DEF ForeachOK, Ahead, Range
<1>step. ASSUME NEW t \in Threads, Step(t), ForeachOK(t)',
                \A u \in Threads : u # t =>
                  /\ pc'[u] = pc[u] /\ req'[u] = req[u] /\ arg'[u] = arg[u]
                  /\ visited'[u] = visited[u] /\ res'[u] = res[u]
         PROVE  \A u \in Threads : ForeachOK(u)'
  BY <1>step, <1>rest
<1> DEFINE Goal == \A t \in Threads : ForeachOK(t)'
<1>1. CASE UNCHANGED vars \/ Finished
  BY <1>1 DEF ForeachOK, Ahead, Range, vars, hist, frame, Finished
<1>2. ASSUME NEW t \in Threads, Call(t) PROVE Goal
  <2>1. PICK r \in Requests :
          /\ req' = [req EXCEPT ![t] = r]
          /\ must' = [must EXCEPT ![t] =
               IF r.op = "foreach" THEN {k \in Keys : InRange(r, k) /\ map[r.set][k] # Absent} ELSE {}]
    BY <1>2 DEF Call
  <2>2. pc[t] = "idle" /\ pc' = [pc EXCEPT ![t] = "lock"] /\ UNCHANGED <<map, res, arg, visited>>
    BY <1>2 DEF Call
  <2>3. visited[t] = <<>>
    BY <1>frame, <2>2 DEF FrameOK
  <2>4. pc'[t] = "lock" /\ req'[t] = r /\ visited'[t] = <<>> /\ map' = map
    BY <1>pc, <2>1, <2>2, <2>3
  <2>5. r.op = "foreach" => \A k \in must'[t] : InRange(r, k) /\ map[r.set][k] # Absent
    BY <1>visited, <2>1
  <2>6. ForeachOK(t)'
    BY <2>4, <2>5 DEF ForeachOK, Ahead
  <2> QED
    BY <1>2, <1>pc, <1>step, <2>1, <2>2, <2>6 DEF Step
<1>3. ASSUME NEW t \in Threads, Return(t) PROVE Goal
  <2>1. /\ pc' = [pc EXCEPT ![t] = "idle"] /\ req' = [req EXCEPT ![t] = NoReq]
        /\ res' = [res EXCEPT ![t] = Ok(Null)] /\ visited' = [visited EXCEPT ![t] = <<>>]
        /\ arg' = arg
    BY <1>3 DEF Return
  <2>2. req'[t].op = "none"
    BY <1>pc, <2>1 DEF NoReq
  <2>3. ForeachOK(t)'
    BY <2>2 DEF ForeachOK
  <2> QED
    BY <1>3, <1>pc, <1>visited, <1>frame, <1>step, <2>1, <2>3 DEF Step
<1>4. ASSUME NEW t \in Threads, OneSection(t) \/ ComputeBegin(t) \/ ComputeEnd(t) \/ SwapFirst(t)
                                \/ SwapBoth(t) \/ SwapBack(t)
      PROVE  Goal
  <2>1. /\ req' = req /\ visited' = visited /\ req[t].op # "foreach"
        /\ \E l : pc' = [pc EXCEPT ![t] = l]
        /\ arg' = arg \/ \E a : arg' = [arg EXCEPT ![t] = a]
        /\ res' = res \/ \E out : res' = [res EXCEPT ![t] = out]
    <3>1. CASE OneSection(t)
      BY <3>1, SectionServes DEF Served
    <3>2. CASE ComputeEnd(t)
      BY <1>frame, <3>2, ComputeEnds DEF Computed, FrameOK
    <3>3. CASE ComputeBegin(t)
      BY <3>3 DEF ComputeBegin
    <3>4. CASE SwapFirst(t) \/ SwapBoth(t)
      BY <1>frame, <3>4 DEF SwapFirst, SwapBoth, FrameOK
    <3>5. CASE SwapBack(t)
      BY <1>frame, <3>5 DEF SwapBack, FrameOK
    <3> QED
      BY <1>4, <3>1, <3>2, <3>3, <3>4, <3>5
  <2>2. ForeachOK(t)'
    BY <2>1 DEF ForeachOK
  <2>3. \A u \in Threads : u # t => pc'[u] = pc[u] /\ arg'[u] = arg[u] /\ res'[u] = res[u]
    BY <1>pc, <1>frame, <2>1
  <2> QED
    BY <1>4, <1>step, <2>1, <2>2, <2>3 DEF Step, OneSection
<1>5. ASSUME NEW t \in Threads, ForeachNext(t) PROVE Goal
  <2> DEFINE next == {k \in Onward(t) : \A j \in Onward(t) : ~Less(j, k)}
  <2>1. /\ pc[t] = "lock" /\ req[t].op = "foreach" /\ UNCHANGED <<map, req, visited, must>>
        /\ \/ /\ \A k \in next : Beyond(t, k)
              /\ pc' = [pc EXCEPT ![t] = "done"] /\ UNCHANGED arg
              /\ \E out : res' = [res EXCEPT ![t] = out]
           \/ \E k \in next :
              /\ ~Beyond(t, k) /\ pc' = [pc EXCEPT ![t] = "visit"] /\ UNCHANGED res
              /\ arg' = [arg EXCEPT ![t] = <<k, map[req[t].set][k]>>]
    BY <1>5 DEF ForeachNext
  <2>2. req[t] \in Requests /\ ForeachOK(t)
    BY <1>frame, <2>1 DEF FrameOK
  <2>3. CASE /\ \A k \in next : Beyond(t, k)
             /\ pc' = [pc EXCEPT ![t] = "done"] /\ UNCHANGED arg
             /\ \E out : res' = [res EXCEPT ![t] = out]
    <3>1. must[t] \subseteq Range(visited[t])
      BY <2>1, <2>2, <2>3, LoopEnd
    <3>2. pc'[t] = "done" /\ visited'[t] = visited[t] /\ must'[t] = must[t] /\ map' = map /\ req' = req
      BY <1>pc, <2>1, <2>3
    <3>3. ForeachOK(t)'
      BY <2>1, <2>2, <3>1, <3>2 DEF ForeachOK, Ahead, Range
    <3> QED
      BY <1>5, <1>pc, <1>frame, <1>step, <2>1, <2>3, <3>3 DEF Step
  <2>4. ASSUME NEW k \in next, ~Beyond(t, k), pc' = [pc EXCEPT ![t] = "visit"], UNCHANGED res,
               arg' = [arg EXCEPT ![t] = <<k, map[req[t].set][k]>>]
        PROVE  Goal
    <3>1. /\ InRange(req[t], k)
          /\ \A i \in DOMAIN visited[t] : Less(visited[t][i], k)
          /\ \A j \in must[t] : j \in Range(visited[t]) \/ j = k \/ Less(k, j)
      BY <2>1, <2>2, <2>4, NextEntry
    <3>2. /\ pc'[t] = "visit" /\ arg'[t][1] = k
          /\ visited'[t] = visited[t] /\ must'[t] = must[t] /\ map' = map /\ req' = req
      BY <1>pc, <1>frame, <2>1, <2>4
    <3>3. ForeachOK(t)'
      BY <2>1, <2>2, <3>1, <3>2 DEF ForeachOK, Ahead, Range
    <3> QED
      BY <1>5, <1>pc, <1>frame, <1>step, <2>1, <2>4, <3>3 DEF Step
  <2> QED
    BY <2>1, <2>3, <2>4
<1>6. ASSUME NEW t \in Threads, Visit(t) PROVE Goal
  <2> DEFINE w == visited[t]
             a == arg[t][1]
  <2>1. /\ pc[t] = "visit" /\ UNCHANGED <<req, map, must>>
        /\ arg' = [arg EXCEPT ![t] = Null] /\ visited' = [visited EXCEPT ![t] = Append(w, a)]
        /\ \/ pc' = [pc EXCEPT ![t] = "lock"] /\ UNCHANGED res
           \/ /\ pc' = [pc EXCEPT ![t] = "done"]
              /\ res' = [res EXCEPT ![t] = [kind |-> "stopped", val |-> Len(visited[t])]]
    BY <1>6 DEF Visit
  <2>2. req[t].op = "foreach" /\ a \in Keys /\ w \in Seq(Keys) /\ Keys \subseteq Seq(Nat) /\ must[t] \subseteq Keys
    BY <1>frame, <1>visited, <2>1, SetAssumption DEF FrameOK
  <2>3. /\ \A i \in DOMAIN w : InRange(req[t], w[i]) /\ Less(w[i], a)
        /\ \A i, j \in DOMAIN w : i < j => Less(w[i], w[j])
        /\ InRange(req[t], a)
        /\ \A k \in must[t] : /\ InRange(req[t], k) /\ map[req[t].set][k] # Absent
                              /\ k \in Range(w) \/ k = a \/ Less(a, k)
    BY <2>1, <2>2 DEF ForeachOK, Ahead
  <2>4. /\ pc'[t] # "visit" /\ visited'[t] = Append(w, a) /\ req' = req /\ map' = map /\ must' = must
        /\ pc'[t] = "done" => res'[t].kind = "stopped"
    BY <1>pc, <1>visited, <1>frame, <2>1
  <2> HIDE DEF w, a
  <2>5. /\ Len(w) \in Nat /\ DOMAIN w = 1..Len(w) /\ DOMAIN Append(w, a) = 1..(Len(w) + 1)
        /\ \A i \in DOMAIN w : w[i] \in Keys /\ Append(w, a)[i] = w[i]
        /\ Append(w, a)[Len(w) + 1] = a
    BY <2>2
  <2>6. \A i \in DOMAIN Append(w, a) : i \in DOMAIN w \/ i = Len(w) + 1
    BY <2>5
  <2>7. \A i \in DOMAIN Append(w, a) : InRange(req[t], Append(w, a)[i])
    BY <2>3, <2>5, <2>6
  <2>8. ASSUME NEW i \in DOMAIN Append(w, a), NEW j \in DOMAIN Append(w, a), i < j
        PROVE  Less(Append(w, a)[i], Append(w, a)[j])
    <3>1. i \in DOMAIN w
      BY <2>5, <2>8
    <3> QED
      BY <2>3, <2>5, <2>6, <2>8, <3>1
  <2>9. ASSUME NEW k \in must[t]
        PROVE  k \in Range(Append(w, a)) \/ \A i \in DOMAIN Append(w, a) : Less(Append(w, a)[i], k)
    <3>1. CASE k \in Range(w) \/ k = a
      BY <2>5, <2>6, <3>1 DEF Range
    <3>2. CASE Less(a, k)
      <4>1. \A i \in DOMAIN w : Less(w[i], k)
        BY <2>2, <2>3, <2>5, <3>2, LessTransitive
      <4> QED
        BY <2>5, <2>6, <3>2, <4>1
    <3> QED
      BY <2>3, <3>1, <3>2
  <2>10. ForeachOK(t)'
    BY <2>3, <2>4, <2>7, <2>8, <2>9 DEF ForeachOK, Ahead
  <2>11. \A u \in Threads : u # t => visited'[u] = visited[u]
    BY <1>visited, <2>1
  <2>12. \A u \in Threads : u # t => pc'[u] = pc[u] /\ arg'[u] = arg[u] /\ res'[u] = res[u]
    BY <1>pc, <1>frame, <2>1
  <2> QED
    BY <1>6, <1>step, <2>4, <2>10, <2>11, <2>12 DEF Step
<1> QED
  BY <1>1, <1>2, <1>3, <1>4, <1>5, <1>6 DEF Next, Step, OneSection

(* foreach() calls f in strictly ascending order of keys, only for keys it   *)
(* was asked for, and at its end for all of them that stayed mapped, however *)
(* many threads and f itself change the set between the calls of f: going on *)
(* at upper_bound of the last key skips nothing (attribute_set::foreach).    *)
THEOREM ForeachMissesNothing == Spec => []ForeachComplete
<1>1. Init => \A t \in Threads : ForeachOK(t)
  <2> SUFFICES ASSUME Init, NEW t \in Threads PROVE req[t].op # "foreach"
    BY DEF ForeachOK
  <2> QED
    BY DEF Init, NoReq
<1>2. CallsOK /\ (\A t \in Threads : ForeachOK(t)) => ForeachComplete
  <2> SUFFICES ASSUME CallsOK, NEW t \in Threads, ForeachOK(t)
               PROVE  /\ \A i \in DOMAIN visited[t] : InRange(req[t], visited[t][i])
                      /\ \A i, j \in DOMAIN visited[t] : i < j => Less(visited[t][i], visited[t][j])
                      /\ pc[t] = "done" /\ req[t].op = "foreach" /\ res[t].kind = "end" =>
                           must[t] \subseteq Range(visited[t])
    BY DEF ForeachComplete
  <2>1. CASE req[t].op = "foreach"
    BY <2>1 DEF ForeachOK
  <2>2. CASE req[t].op # "foreach"
    <3>1. visited[t] = <<>>
      BY <2>2 DEF CallsOK, FrameOK
    <3> QED
      BY <2>2, <3>1
  <2> QED
    BY <2>1, <2>2
<1> QED
  BY <1>1, <1>2, ForeachInductive, CallsInvariant, PTL DEF Spec

----------------------------------------------------------------------------
(* attribute_set implements the map.                                         *)

(* Both modules speak of keys and values in the same words.                  *)
LEMMA SameWords ==
  /\ Map!Raw = Raw /\ Map!NoReq = NoReq /\ \A v : Map!Ok(v) = Ok(v) /\ Map!AsRef(v) = AsRef(v)
  /\ \A as, v : Map!Outcome(as, v) = Outcome(as, v)
  /\ \A r, v, new : Map!Transform(r, v, new) = Transform(r, v, new)
  /\ \A r, out : Map!Finish(r, out) = Finish(r, out)
<1>1. Map!Raw = Raw /\ Map!NoReq = NoReq
  BY DEF Raw, NoReq, Map!Raw, Map!NoReq
<1>2. \A v : Map!Ok(v) = Ok(v) /\ Map!Fail(v) = Fail(v)
  BY DEF Ok, Fail, Map!Ok, Map!Fail
<1>3. \A v : Map!AsRef(v) = AsRef(v) /\ Map!AsPtr(v) = AsPtr(v)
  BY <1>1, <1>2 DEF AsRef, AsPtr, Map!AsRef, Map!AsPtr
<1>4. \A v : /\ Map!GetValue(v) = GetValue(v) /\ Map!GetInto(v) = GetInto(v)
             /\ Map!ServletGet(v) = ServletGet(v) /\ Map!ServletDel(v) = ServletDel(v)
             /\ Map!ServletRemove(v) = ServletRemove(v)
  BY <1>1, <1>2, <1>3 DEF GetValue, GetInto, ServletGet, ServletDel, ServletRemove,
     Map!GetValue, Map!GetInto, Map!ServletGet, Map!ServletDel, Map!ServletRemove
<1>5. \A as, v : Map!Outcome(as, v) = Outcome(as, v)
  BY <1>2, <1>4 DEF Outcome, Map!Outcome
<1>6. \A v, s : Map!Leave(v, s) = Leave(v, s) /\ Map!Throw(v) = Throw(v)
  BY DEF Leave, Throw, Map!Leave, Map!Throw
<1>7. \A op, v, new, built : /\ Map!RetF(v, new) = RetF(v, new) /\ Map!AddF(v, new) = AddF(v, new)
                             /\ Map!OpF(op, v, new, built) = OpF(op, v, new, built)
  BY <1>6 DEF RetF, AddF, OpF, Map!RetF, Map!AddF, Map!OpF
<1>8. \A r, v, new : Map!Transform(r, v, new) = Transform(r, v, new)
  BY <1>6, <1>7 DEF Transform, Map!Transform
<1>9. \A r, out : Map!Finish(r, out) = Finish(r, out)
  BY <1>2, <1>3 DEF Finish, Map!Finish
<1> QED
  BY <1>1, <1>2, <1>3, <1>5, <1>8, <1>9

LEMMA SameRange == \A r, k : Map!InRange(r, k) <=> InRange(r, k)
<1>1. \A j, k : Map!Less(j, k) <=> Less(j, k)
  BY DEF Less, Map!Less
<1>2. \A j, k : Map!Seqs!IsPrefix(j, k) <=> Seqs!IsPrefix(j, k)
  BY DEF Seqs!IsPrefix, Map!Seqs!IsPrefix
<1> QED
  BY <1>1, <1>2 DEF InRange, Map!InRange

LEMMA MapInit == Init => Map!Init
<1> SUFFICES ASSUME Init PROVE Map!Init
  OBVIOUS
<1>1. map \in [Sets -> [Keys -> {Raw, Null, Absent}]]
  <2>1. \A s \in Sets : Lists[s] \in Seq(Keys \X {Raw, Null})
    BY SetAssumption
  <2>2. \A s \in Sets : FromList(Lists[s]) \in [Keys -> {Raw, Null, Absent}]
    BY <2>1, ListValues
  <2> QED
    BY <2>2 DEF Init
<1>2. Phase = [t \in Threads |-> "idle"] /\ Shown = [t \in Threads |-> Null]
  BY DEF Init, Phase, Shown
<1> QED
  BY <1>1, <1>2 DEF Init, Map!Init, Raw, Map!Raw, NoReq, Map!NoReq, Ok, Map!Ok

LEMMA MapStutters ==
  ASSUME UNCHANGED <<map, req, res, visited, made>>, Phase' = Phase, Shown' = Shown
  PROVE  UNCHANGED Map!vars
  BY DEF Map!vars

(* How the two mapped variables follow pc and arg.                           *)
LEMMA PhaseMoves ==
  ASSUME TypeOK, NEW t \in Threads, NEW l \in Labels, pc' = [pc EXCEPT ![t] = l]
  PROVE  Phase' = [Phase EXCEPT ![t] = IF l \in {"idle", "done"} THEN l ELSE "called"]
  BY DEF TypeOK, Phase

LEMMA PhaseStays ==
  ASSUME TypeOK, NEW t \in Threads, NEW l \in Labels \ {"idle", "done"}, pc' = [pc EXCEPT ![t] = l],
         pc[t] \notin {"idle", "done"}
  PROVE  Phase' = Phase
  BY DEF TypeOK, Phase

LEMMA ShownMoves ==
  ASSUME TypeOK, DOMAIN arg = Threads, NEW t \in Threads, NEW l \in Labels, NEW a,
         pc' = [pc EXCEPT ![t] = l], arg' = [arg EXCEPT ![t] = a]
  PROVE  Shown' = [Shown EXCEPT ![t] = IF l = "visit" THEN a ELSE Null]
  BY DEF TypeOK, Shown

LEMMA ShownStays ==
  ASSUME TypeOK, DOMAIN arg = Threads, NEW t \in Threads, NEW l \in Labels \ {"visit"},
         pc' = [pc EXCEPT ![t] = l], pc[t] # "visit",
         arg' = arg \/ \E a : arg' = [arg EXCEPT ![t] = a]
  PROVE  Shown' = Shown
  BY DEF TypeOK, Shown

(* A step with which a call takes effect.                                    *)
LEMMA Effective ==
  ASSUME TypeOK, DOMAIN arg = Threads, NEW t \in Threads, pc[t] \in {"lock", "compute"},
         pc' = [pc EXCEPT ![t] = "done"], UNCHANGED <<req, visited>>,
         arg' = arg \/ \E a : arg' = [arg EXCEPT ![t] = a],
         NEW out, res' = [res EXCEPT ![t] = out],
         NEW m, map' = [map EXCEPT ![req[t].set] = m]
  PROVE  Phase[t] = "called" /\ Map!Effect(t, m, out)
<1>1. Phase[t] = "called"
  BY DEF Phase
<1>2. Phase' = [Phase EXCEPT ![t] = "done"]
  BY PhaseMoves DEF Labels
<1>3. Shown' = Shown
  BY ShownStays DEF Labels
<1> QED
  BY <1>1, <1>2, <1>3 DEF Map!Effect

LEMMA SectionMaps ==
  ASSUME TypeOK, CallsOK, NEW t \in Threads, OneSection(t)
  PROVE  Map!Next
<1> DEFINE r == req[t]
           m == map[r.set]
<1>1. /\ pc[t] = "lock" /\ pc' = [pc EXCEPT ![t] = "done"] /\ UNCHANGED <<req, arg, visited>>
      /\ r \in Requests /\ r.set \in Sets /\ DOMAIN arg = Threads
  BY SectionServes, Requested DEF Served, CallsOK, FrameOK
<1>2. map \in [Sets -> [Keys -> Values]] /\ m \in [Keys -> Values]
  BY <1>1 DEF TypeOK, Values
<1>effect. ASSUME NEW out, res' = [res EXCEPT ![t] = out], NEW n, map' = [map EXCEPT ![r.set] = n]
           PROVE  Phase[t] = "called" /\ Map!Effect(t, n, out)
  BY <1>1, <1>effect, Effective
<1>same. Same => map' = [map EXCEPT ![r.set] = m]
  BY <1>2 DEF Same
<1>store. ASSUME NEW v, Store(t, v)
          PROVE  map' = [map EXCEPT ![r.set] = Map!set(m, r.key, v)]
  BY <1>store, <1>1, <1>2 DEF Store, Map!set
<1>words. /\ Found(t) <=> Map!contains(m, r.key)
          /\ Cur(t) = m[r.key] /\ Value(Cur(t)) = Map!get(m, r.key)
          /\ Given(t) = Map!Given(r) /\ (Made(t) <=> Map!Made(r))
          /\ Map!remove(m, r.key) = Map!set(m, r.key, Absent)
  BY DEF Found, Cur, Value, Map!contains, Map!get, Given, Made, Map!Given, Map!Fresh, Map!Made,
     Map!remove, Map!set
<1>next. ASSUME Phase[t] = "called", Map!Perform(t, r) PROVE Map!Next
  BY <1>next DEF Map!Next
<1> HIDE DEF r, m
<1>3. CASE Contains(t)
  <2>1. /\ r.op = "contains" /\ res' = [res EXCEPT ![t] = Ok(Found(t))] /\ Same /\ UNCHANGED made
    BY <1>3 DEF Contains, Section, r
  <2>2. Phase[t] = "called" /\ Map!Effect(t, m, Map!Ok(Map!contains(m, r.key)))
    <3>1. res' = [res EXCEPT ![t] = Map!Ok(Map!contains(m, r.key))]
      BY <1>words, <2>1 DEF Ok, Map!Ok, Found, Map!contains
    <3> QED
      BY <1>same, <1>effect, <2>1, <3>1
  <2>3. Map!Perform(t, r)
    BY <2>1, <2>2 DEF Map!Read, Map!Perform, m
  <2> QED
    BY <1>next, <2>2, <2>3
<1>4. CASE Get(t)
  <2>1. /\ r.op = "get" /\ res' = [res EXCEPT ![t] = Outcome(r.as, Value(Cur(t)))]
        /\ Same /\ UNCHANGED made
    BY <1>4 DEF Get, Section, r
  <2>2. Phase[t] = "called" /\ Map!Effect(t, m, Map!Outcome(r.as, Map!get(m, r.key)))
    BY <1>same, <1>effect, <1>words, <2>1, SameWords
  <2>3. Map!Perform(t, r)
    BY <2>1, <2>2 DEF Map!Read, Map!Perform, m
  <2> QED
    BY <1>next, <2>2, <2>3
<1>5. CASE Remove(t)
  <2>1. /\ r.op = "remove" /\ res' = [res EXCEPT ![t] = Outcome(r.as, Value(Cur(t)))]
        /\ IF Found(t) THEN Store(t, Absent) ELSE Same
        /\ UNCHANGED made
    BY <1>5 DEF Remove, Section, r
  <2>2. map' = [map EXCEPT ![r.set] = Map!remove(m, r.key)]
    <3>1. CASE Found(t)
      BY <1>store, <1>words, <2>1, <3>1
    <3>2. CASE ~Found(t)
      <4>1. m[r.key] = Absent
        BY <1>words, <3>2 DEF Found
      <4>2. Map!remove(m, r.key) = m
        BY <1>2, <4>1 DEF Map!remove
      <4> QED
        BY <1>same, <2>1, <3>2, <4>2
    <3> QED
      BY <3>1, <3>2
  <2>3. Phase[t] = "called" /\ Map!Effect(t, Map!remove(m, r.key), Map!Outcome(r.as, Map!get(m, r.key)))
    BY <1>effect, <1>words, <2>1, <2>2, SameWords
  <2>4. Map!Perform(t, r)
    BY <2>1, <2>3 DEF Map!Remove, Map!Perform, m
  <2> QED
    BY <1>next, <2>3, <2>4

<1>6. CASE RemoveIf(t)
  <2> DEFINE hit == Found(t) /\ Cur(t) = r.old
  <2>1. /\ r.op = "remove_if" /\ res' = [res EXCEPT ![t] = Ok(hit)]
        /\ IF hit THEN Store(t, Absent) ELSE Same
        /\ UNCHANGED made
    BY <1>6 DEF RemoveIf, Section, r
  <2>2. hit <=> Map!contains(m, r.key) /\ Map!get(m, r.key) = r.old
    BY <1>words DEF Map!contains, Map!get
  <2>3. hit \in BOOLEAN
    OBVIOUS
  <2> HIDE DEF hit
  <2>4. map' = [map EXCEPT ![r.set] = IF hit THEN Map!remove(m, r.key) ELSE m]
    BY <1>same, <1>store, <1>words, <2>1, <2>3
  <2>5. Phase[t] = "called" /\ Map!Effect(t, IF hit THEN Map!remove(m, r.key) ELSE m, Map!Ok(hit))
    BY <1>effect, <2>1, <2>4, SameWords
  <2>6. Map!Conditional(t, r, m)
    BY <2>1, <2>2, <2>5 DEF Map!Conditional, hit, Found, Map!contains
  <2>7. Map!Perform(t, r)
    BY <2>6 DEF Map!Perform, m
  <2> QED
    BY <1>next, <2>5, <2>7
<1>7. CASE Set(t) \/ ServletSet(t)
  <2>1. /\ \/ r.op = "set" /\ res' = [res EXCEPT ![t] = Ok(Value(Cur(t)))]
           \/ r.op = "servlet_set" /\ res' = [res EXCEPT ![t] = AsRef(Given(t))]
        /\ Store(t, Given(t)) /\ Made(t)
    BY <1>7 DEF Set, ServletSet, Section, r
  <2>2. map' = [map EXCEPT ![r.set] = Map!set(m, r.key, Map!Given(r))] /\ Map!Made(r)
    BY <1>store, <1>words, <2>1
  <2>3. \/ /\ r.op = "set" /\ Phase[t] = "called"
           /\ Map!Effect(t, Map!set(m, r.key, Map!Given(r)), Map!Ok(Map!get(m, r.key)))
        \/ /\ r.op = "servlet_set" /\ Phase[t] = "called"
           /\ Map!Effect(t, Map!set(m, r.key, Map!Given(r)), Map!AsRef(Map!Given(r)))
    BY <1>effect, <1>words, <2>1, <2>2, SameWords
  <2>4. Map!Update(t, r, m)
    BY <2>2, <2>3 DEF Map!Update
  <2>5. Map!Perform(t, r)
    BY <2>4 DEF Map!Perform, m
  <2> QED
    BY <1>next, <2>3, <2>5
<1>8. CASE Emplace(t)
  <2>1. /\ r.op = "emplace" /\ res' = [res EXCEPT ![t] = Ok(Value(Cur(t)))]
        /\ IF Found(t) THEN Same ELSE Store(t, Given(t))
        /\ Made(t)
    BY <1>8 DEF Emplace, Section, r
  <2>2. res' = [res EXCEPT ![t] = Map!Ok(Map!get(m, r.key))] /\ Map!Made(r)
    BY <1>words, <2>1, SameWords
  <2>3. Phase[t] = "called" /\ Map!Update(t, r, m)
    <3>1. CASE Found(t)
      <4>1. Phase[t] = "called" /\ Map!Effect(t, m, Map!Ok(Map!get(m, r.key)))
        BY <1>same, <1>effect, <2>1, <2>2, <3>1
      <4> QED
        BY <1>words, <2>1, <2>2, <3>1, <4>1 DEF Map!Update
    <3>2. CASE ~Found(t)
      <4>1. Phase[t] = "called" /\ Map!Effect(t, Map!set(m, r.key, Map!Given(r)), Map!Ok(Map!get(m, r.key)))
        BY <1>store, <1>effect, <1>words, <2>1, <2>2, <3>2
      <4> QED
        BY <1>words, <2>1, <2>2, <3>2, <4>1 DEF Map!Update
    <3> QED
      BY <3>1, <3>2
  <2>4. Map!Perform(t, r)
    BY <2>3 DEF Map!Perform, m
  <2> QED
    BY <1>next, <2>3, <2>4
<1>9. CASE Replace(t)
  <2>1. /\ r.op = "replace" /\ res' = [res EXCEPT ![t] = Ok(Value(Cur(t)))]
        /\ IF Found(t) THEN Store(t, Given(t)) ELSE Same
        /\ Made(t)
    BY <1>9 DEF Replace, Section, r
  <2>2. res' = [res EXCEPT ![t] = Map!Ok(Map!get(m, r.key))] /\ Map!Made(r)
    BY <1>words, <2>1, SameWords
  <2>3. Phase[t] = "called" /\ Map!Update(t, r, m)
    <3>1. CASE Found(t)
      <4>1. Phase[t] = "called" /\ Map!Effect(t, Map!set(m, r.key, Map!Given(r)), Map!Ok(Map!get(m, r.key)))
        BY <1>store, <1>effect, <1>words, <2>1, <2>2, <3>1
      <4> QED
        BY <1>words, <2>1, <2>2, <3>1, <4>1 DEF Map!Update
    <3>2. CASE ~Found(t)
      <4>1. Map!get(m, r.key) = Null
        BY <1>words, <3>2 DEF Map!get
      <4>2. Phase[t] = "called" /\ Map!Effect(t, m, Map!Ok(Null))
        BY <1>same, <1>effect, <2>1, <2>2, <3>2, <4>1
      <4> QED
        BY <1>words, <2>1, <2>2, <3>2, <4>2 DEF Map!Update
    <3> QED
      BY <3>1, <3>2
  <2>4. Map!Perform(t, r)
    BY <2>3 DEF Map!Perform, m
  <2> QED
    BY <1>next, <2>3, <2>4
<1>10. CASE ReplaceIf(t)
  <2> DEFINE hit == Found(t) /\ Cur(t) = r.old
  <2>1. /\ r.op = "replace_if" /\ res' = [res EXCEPT ![t] = Ok(hit)]
        /\ IF hit THEN Store(t, Given(t)) ELSE Same
        /\ Made(t)
    BY <1>10 DEF ReplaceIf, Section, r
  <2>2. hit <=> Map!contains(m, r.key) /\ Map!get(m, r.key) = r.old
    BY <1>words DEF Map!contains, Map!get
  <2>3. hit \in BOOLEAN
    OBVIOUS
  <2> HIDE DEF hit
  <2>4. map' = [map EXCEPT ![r.set] = IF hit THEN Map!set(m, r.key, Map!Given(r)) ELSE m]
    BY <1>same, <1>store, <1>words, <2>1, <2>3
  <2>5. /\ Phase[t] = "called"
        /\ Map!Effect(t, IF hit THEN Map!set(m, r.key, Map!Given(r)) ELSE m, Map!Ok(hit))
    BY <1>effect, <2>1, <2>4, SameWords
  <2>6. Map!Conditional(t, r, m)
    BY <1>words, <2>1, <2>2, <2>5 DEF Map!Conditional, hit, Found, Map!contains
  <2>7. Map!Perform(t, r)
    BY <2>6 DEF Map!Perform, m
  <2> QED
    BY <1>next, <2>5, <2>7
<1>11. CASE MoveOut(t)
  <2>1. /\ r.op = "move" /\ res' = [res EXCEPT ![t] = Ok(Null)]
        /\ map' = [map EXCEPT ![r.set] = [k \in Keys |-> Absent]] /\ UNCHANGED made
    BY <1>11 DEF MoveOut, Section, r
  <2>2. Phase[t] = "called" /\ Map!Effect(t, [k \in Keys |-> Absent], Map!Ok(Null))
    BY <1>effect, <2>1, SameWords
  <2>3. Map!Perform(t, r)
    BY <2>1, <2>2 DEF Map!Move, Map!Perform
  <2> QED
    BY <1>next, <2>2, <2>3
<1> QED
  BY <1>3, <1>4, <1>5, <1>6, <1>7, <1>8, <1>9, <1>10, <1>11 DEF OneSection

LEMMA ComputeMaps ==
  ASSUME TypeOK, CallsOK, NEW t \in Threads, ComputeEnd(t)
  PROVE  Map!Next
<1> DEFINE r   == req[t]
           m   == map[r.set]
           out == Transform(r, arg[t][2], made + 1)
           n   == IF out.thrown THEN m
                  ELSE IF out.val # Null THEN Map!set(m, r.key, out.val) ELSE Map!remove(m, r.key)
<1>1. /\ pc[t] = "compute" /\ pc' = [pc EXCEPT ![t] = "done"] /\ UNCHANGED <<req, visited>>
      /\ arg' = [arg EXCEPT ![t] = Null] /\ res' = [res EXCEPT ![t] = Finish(r, out)]
      /\ IF out.thrown THEN Same ELSE Store(t, IF out.val = Null THEN Absent ELSE out.val)
      /\ made' = IF out.val = made + 1 THEN made + 1 ELSE made
  BY DEF ComputeEnd
<1>2. /\ r \in Requests /\ r.op = "compute" /\ r.set \in Sets /\ DOMAIN arg = Threads
      /\ arg[t][2] = Value(Cur(t))
  BY <1>1, Requested DEF CallsOK, FrameOK
<1>3. map \in [Sets -> [Keys -> Values]]
  BY DEF TypeOK, Values
<1>4. out.thrown \in BOOLEAN
  BY <1>2, TransformDoes
<1>5. out = Map!Transform(r, Map!get(m, r.key), made + 1)
  <2>1. arg[t][2] = Map!get(m, r.key)
    BY <1>2 DEF Value, Cur, Map!get, Map!contains
  <2> QED
    BY <2>1, SameWords
<1> HIDE DEF r, m, out
<1>6. map' = [map EXCEPT ![r.set] = n]
  <2>1. CASE out.thrown
    BY <1>1, <1>3, <2>1 DEF Same, m
  <2>2. CASE ~out.thrown
    <3>1. map' = [map EXCEPT ![r.set][r.key] = IF out.val = Null THEN Absent ELSE out.val]
      BY <1>1, <2>2 DEF Store, r
    <3>2. n = [m EXCEPT ![r.key] = IF out.val = Null THEN Absent ELSE out.val]
      BY <2>2 DEF Map!set, Map!remove
    <3> HIDE DEF n
    <3> QED
      BY <1>2, <1>3, <3>1, <3>2 DEF m
  <2> QED
    BY <1>4, <2>1, <2>2
<1>7. Phase[t] = "called" /\ Map!Effect(t, n, Map!Finish(r, out))
  <2>1. res' = [res EXCEPT ![t] = Map!Finish(r, out)]
    BY <1>1, SameWords
  <2> HIDE DEF n
  <2> QED
    BY <1>1, <1>2, <1>6, <2>1, Effective DEF r
<1>8. Map!Compute(t, r, m)
  BY <1>1, <1>2, <1>5, <1>7 DEF Map!Compute
<1> QED
  BY <1>7, <1>8 DEF Map!Next, Map!Perform, r, m

LEMMA ForeachNextMaps ==
  ASSUME TypeOK, CallsOK, NEW t \in Threads, ForeachOK(t), ForeachNext(t)
  PROVE  Map!Next
<1> DEFINE next == {k \in Onward(t) : \A j \in Onward(t) : ~Less(j, k)}
<1>1. /\ pc[t] = "lock" /\ req[t].op = "foreach" /\ UNCHANGED <<map, req, visited, made>>
      /\ \/ /\ pc' = [pc EXCEPT ![t] = "done"] /\ UNCHANGED arg
            /\ res' = [res EXCEPT ![t] = [kind |-> "end", val |-> Len(visited[t])]]
         \/ \E k \in next :
              /\ ~Beyond(t, k) /\ pc' = [pc EXCEPT ![t] = "visit"] /\ UNCHANGED res
              /\ arg' = [arg EXCEPT ![t] = <<k, map[req[t].set][k]>>]
  BY DEF ForeachNext
<1>2. req[t] \in Requests /\ DOMAIN arg = Threads
  BY <1>1 DEF CallsOK, FrameOK
<1>3. Phase[t] = "called" /\ Shown[t] = Null
  BY <1>1 DEF Phase, Shown
<1>4. CASE /\ pc' = [pc EXCEPT ![t] = "done"] /\ UNCHANGED arg
           /\ res' = [res EXCEPT ![t] = [kind |-> "end", val |-> Len(visited[t])]]
  <2>1. Phase' = [Phase EXCEPT ![t] = "done"]
    BY <1>4, PhaseMoves DEF Labels
  <2>2. Shown' = Shown
    BY <1>1, <1>2, <1>4, ShownStays DEF Labels
  <2>3. Map!End(t, req[t])
    BY <1>1, <1>3, <1>4, <2>1, <2>2 DEF Map!End
  <2> QED
    BY <1>3, <2>3 DEF Map!Next, Map!Perform
<1>5. ASSUME NEW k \in next, ~Beyond(t, k), pc' = [pc EXCEPT ![t] = "visit"], UNCHANGED res,
             arg' = [arg EXCEPT ![t] = <<k, map[req[t].set][k]>>]
      PROVE  Map!Next
  <2>1. InRange(req[t], k) /\ \A i \in DOMAIN visited[t] : Less(visited[t][i], k)
    BY <1>1, <1>2, <1>5, NextEntry
  <2>2. k \in Keys /\ map[req[t].set][k] # Absent
    BY DEF Onward, Mapped
  <2>3. \A i \in DOMAIN visited[t] : visited[t][i] # k
    <3>1. k \in Seq(Nat)
      BY <2>2, SetAssumption
    <3> QED
      BY <2>1, <3>1, LessIrreflexive
  <2>4. Phase' = Phase
    BY <1>1, <1>5, PhaseStays DEF Labels
  <2>5. Shown' = [Shown EXCEPT ![t] = <<k, map[req[t].set][k]>>]
    BY <1>2, <1>5, ShownMoves DEF Labels
  <2>6. Map!contains(map[req[t].set], k) /\ Map!get(map[req[t].set], k) = map[req[t].set][k]
    BY <2>2 DEF Map!contains, Map!get
  <2>7. Map!InRange(req[t], k)
    BY <2>1, SameRange
  <2>8. Map!Pick(t, req[t], map[req[t].set])
    BY <1>1, <1>3, <1>5, <2>2, <2>3, <2>4, <2>5, <2>6, <2>7 DEF Map!Pick
  <2> QED
    BY <1>3, <2>8 DEF Map!Next, Map!Perform
<1> QED
  BY <1>1, <1>4, <1>5

LEMMA VisitMaps ==
  ASSUME TypeOK, CallsOK, NEW t \in Threads, Visit(t)
  PROVE  Map!Next
<1>1. /\ pc[t] = "visit" /\ UNCHANGED <<map, req, made>>
      /\ arg' = [arg EXCEPT ![t] = Null] /\ visited' = [visited EXCEPT ![t] = Append(@, arg[t][1])]
      /\ \/ pc' = [pc EXCEPT ![t] = "lock"] /\ UNCHANGED res
         \/ /\ pc' = [pc EXCEPT ![t] = "done"]
            /\ res' = [res EXCEPT ![t] = [kind |-> "stopped", val |-> Len(visited[t])]]
  BY DEF Visit
<1>2. arg[t] \in Keys \X (Objects \cup {Null}) /\ DOMAIN arg = Threads
  BY <1>1 DEF CallsOK, FrameOK
<1>3. Shown[t] = arg[t] /\ Shown[t] # Null
  <2>1. Shown[t] = arg[t]
    BY <1>1 DEF Shown
  <2>2. Objects \subseteq Nat
    BY SetAssumption DEF Objects
  <2>3. Null \notin Keys \X (Objects \cup {Null})
    BY <2>2, SetAssumption
  <2> QED
    BY <1>2, <2>1, <2>3
<1>4. Shown' = [Shown EXCEPT ![t] = Null]
  BY <1>1, <1>2, ShownMoves DEF Labels
<1>5. visited' = [visited EXCEPT ![t] = Append(@, Shown[t][1])]
  BY <1>1, <1>3
<1>6. CASE pc' = [pc EXCEPT ![t] = "lock"] /\ UNCHANGED res
  <2>1. Phase' = Phase
    BY <1>1, <1>6, PhaseStays DEF Labels
  <2>2. Map!Visit(t)
    BY <1>1, <1>3, <1>4, <1>5, <1>6, <2>1 DEF Map!Visit
  <2> QED
    BY <2>2 DEF Map!Next
<1>7. CASE /\ pc' = [pc EXCEPT ![t] = "done"]
           /\ res' = [res EXCEPT ![t] = [kind |-> "stopped", val |-> Len(visited[t])]]
  <2>1. Phase' = [Phase EXCEPT ![t] = "done"]
    BY <1>7, PhaseMoves DEF Labels
  <2>2. Map!Visit(t)
    BY <1>1, <1>3, <1>4, <1>5, <1>7, <2>1 DEF Map!Visit
  <2> QED
    BY <2>2 DEF Map!Next
<1> QED
  BY <1>1, <1>6, <1>7

LEMMA MapImplemented ==
  TypeOK /\ CallsOK /\ (\A t \in Threads : ForeachOK(t)) /\ [Next]_vars => [Map!Next]_(Map!vars)
<1> SUFFICES ASSUME TypeOK, CallsOK, \A t \in Threads : ForeachOK(t), [Next]_vars
             PROVE  Map!Next \/ UNCHANGED Map!vars
  OBVIOUS
<1>arg. DOMAIN arg = Threads /\ \A t \in Threads : FrameOK(t)
  BY DEF CallsOK
<1>1. CASE UNCHANGED vars \/ Finished
  BY <1>1, MapStutters DEF vars, hist, frame, Finished, Phase, Shown
<1>2. ASSUME NEW t \in Threads, Call(t) PROVE Map!Next
  <2>1. /\ pc[t] = "idle" /\ pc' = [pc EXCEPT ![t] = "lock"]
        /\ \E r \in Requests : req' = [req EXCEPT ![t] = r]
        /\ UNCHANGED <<map, res, arg, visited, made>>
    BY <1>2 DEF Call
  <2>2. Phase[t] = "idle" /\ Phase' = [Phase EXCEPT ![t] = "called"]
    BY <2>1, PhaseMoves DEF Phase, Labels
  <2>3. Shown' = Shown
    BY <1>arg, <2>1, ShownStays DEF Labels
  <2>4. Map!Call(t)
    BY <2>1, <2>2, <2>3 DEF Map!Call
  <2> QED
    BY <2>4 DEF Map!Next
<1>3. ASSUME NEW t \in Threads, Return(t) PROVE Map!Next
  <2>1. /\ pc[t] = "done" /\ pc' = [pc EXCEPT ![t] = "idle"]
        /\ req' = [req EXCEPT ![t] = NoReq] /\ res' = [res EXCEPT ![t] = Ok(Null)]
        /\ visited' = [visited EXCEPT ![t] = <<>>] /\ UNCHANGED <<map, arg, made>>
    BY <1>3 DEF Return
  <2>2. Phase[t] = "done" /\ Phase' = [Phase EXCEPT ![t] = "idle"]
    BY <2>1, PhaseMoves DEF Phase, Labels
  <2>3. Shown' = Shown
    BY <1>arg, <2>1, ShownStays DEF Labels
  <2>4. Map!Return(t)
    BY <2>1, <2>2, <2>3, SameWords DEF Map!Return
  <2> QED
    BY <2>4 DEF Map!Next
<1>4. ASSUME NEW t \in Threads, ComputeBegin(t) \/ SwapFirst(t) \/ SwapBack(t)
      PROVE  UNCHANGED Map!vars
  <2>1. /\ UNCHANGED <<map, req, res, visited, made>> /\ pc[t] \in {"lock", "swap_try"}
        /\ \E l \in {"lock", "compute", "swap_try"} : pc' = [pc EXCEPT ![t] = l]
        /\ arg' = arg \/ \E a : arg' = [arg EXCEPT ![t] = a]
    BY <1>4 DEF ComputeBegin, SwapFirst, SwapBack
  <2>2. Phase' = Phase
    BY <2>1, PhaseStays DEF Labels
  <2>3. Shown' = Shown
    BY <1>arg, <2>1, ShownStays DEF Labels
  <2> QED
    BY <2>1, <2>2, <2>3, MapStutters
<1>5. ASSUME NEW t \in Threads, SwapBoth(t) PROVE Map!Next
  <2>1. /\ pc[t] = "swap_try" /\ pc' = [pc EXCEPT ![t] = "done"]
        /\ map' = [map EXCEPT ![req[t].set] = map[req[t].other], ![req[t].other] = map[req[t].set]]
        /\ res' = [res EXCEPT ![t] = Ok(Null)] /\ UNCHANGED <<req, arg, visited, made>>
    BY <1>5 DEF SwapBoth
  <2>2. req[t].op = "swap"
    BY <1>arg, <2>1 DEF FrameOK
  <2>3. Phase[t] = "called" /\ Phase' = [Phase EXCEPT ![t] = "done"]
    BY <2>1, PhaseMoves DEF Phase, Labels
  <2>4. Shown' = Shown
    BY <1>arg, <2>1, ShownStays DEF Labels
  <2>5. Map!Swap(t, req[t])
    BY <2>1, <2>2, <2>3, <2>4, SameWords DEF Map!Swap
  <2> QED
    BY <2>3, <2>5 DEF Map!Next, Map!Perform
<1>6. ASSUME NEW t \in Threads, OneSection(t) \/ ComputeEnd(t) \/ ForeachNext(t) \/ Visit(t)
      PROVE  Map!Next
  BY <1>6, SectionMaps, ComputeMaps, ForeachNextMaps, VisitMaps
<1> QED
  BY <1>1, <1>2, <1>3, <1>4, <1>5, <1>6 DEF Next, Step, OneSection

(* attribute_set implements the map its header describes: with any number of *)
(* threads and sets, every call takes effect in one step between its begin   *)
(* and its end, and spinlocks, the second lock that swap() backs off from    *)
(* and the copy compute() works on are not seen (attribute_set.hpp).         *)
THEOREM SetIsMap == Spec => ImplementsMap
<1>1. Init => Map!Init
  BY MapInit
<1>2. Init => \A t \in Threads : ForeachOK(t)
  <2> SUFFICES ASSUME Init, NEW t \in Threads PROVE req[t].op # "foreach"
    BY DEF ForeachOK
  <2> QED
    BY DEF Init, NoReq
<1>3. TypeOK /\ CallsOK /\ (\A t \in Threads : ForeachOK(t)) /\ [Next]_vars => [Map!Next]_(Map!vars)
  BY MapImplemented
<1> QED
  BY <1>1, <1>2, <1>3, ForeachInductive, CallsInvariant, PTL DEF Spec, ImplementsMap, Map!Spec
=============================================================================
