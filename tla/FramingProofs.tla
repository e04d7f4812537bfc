--------------------------- MODULE FramingProofs ---------------------------
(***************************************************************************)
(* Theorems about Framing, for every size of a byte and of a word, every   *)
(* set of settings and every number of bytes received.                     *)
(***************************************************************************)
EXTENDS Framing, SequenceTheorems, NaturalsInduction, WellFoundedInduction, TLAPS

(* No prefix is as wide as std::uintmax_t.                                   *)
Narrow == \A c \in Configs : c.proto = "prefix" => c.width < Word

----------------------------------------------------------------------------
(* The inductive invariant.                                                  *)

Prefixed == cfg.proto \in {"prefix", "var"}
Whole    == cfg.proto = "any" \/ (cfg.proto = "delim" /\ cfg.delim = <<>>)
Delimits == cfg.proto = "delim" /\ cfg.delim # <<>>

(* The packet has a prefix of h bytes, which says that arg bytes follow; it  *)
(* was cut off the internal input, and the handler will see it unless        *)
(* protocol bytes are ignored.                                               *)
Cut(h) ==
  /\ internal = Rest(taken, h)
  /\ view.at = 0 /\ view.len <= Len(external)
  /\ Rest(external, view.len) = IF cfg.ignore THEN <<>> ELSE Take(taken, h)
  /\ \/ cfg.proto = "fixed" /\ h = 0 /\ arg = cfg.size
     \/ Prefixed /\ SaysSo(cfg, Take(taken, h), h, h + arg)
  /\ Narrow => h + arg <= cfg.size

Unended(s) == \A i \in 1..Len(s) : Continued(s[i])

StreamOK ==
  /\ taken \in Seq(Byte)
  /\ pc \in {"read", "some", "delim", "prefix", "wait_some", "wait_prefix"} => internal = taken
  /\ pc = "wait_delim" => output \in Seq(Byte) /\ taken = internal \o output
  /\ pc \in {"some", "delim", "prefix", "wait_some", "wait_delim", "wait_prefix"} =>
       view = Marked(external)
  /\ pc \in {"fixed", "wait_fixed"} => \E h \in 0..Len(taken) : Cut(h)

RequestOK ==
  /\ pc \in {"some", "wait_some"} => Whole /\ arg = cfg.size
  /\ pc = "wait_some" => internal = <<>> /\ need = arg
  /\ pc \in {"delim", "wait_delim"} => Delimits /\ arg = cfg.size
  /\ pc = "wait_delim" => /\ Len(taken) < arg /\ need = arg - Len(taken)
                          /\ Ends(cfg.delim, taken) = {}
  /\ pc = "wait_fixed" => Len(internal) < arg /\ need = arg - Len(internal)
  /\ pc \in {"prefix", "wait_prefix"} =>
       \/ cfg.proto = "prefix" /\ arg = cfg.width
       \/ cfg.proto = "var"
  /\ pc = "prefix" /\ cfg.proto = "var" =>
       arg = 0 \/ (Len(internal) = arg /\ Unended(Take(internal, arg - 1)))
  /\ pc = "wait_prefix" =>
       /\ Len(internal) < arg /\ need = arg - Len(internal) /\ arg <= cfg.size
       /\ cfg.proto = "var" => need = 1 /\ Unended(internal)

FramingInv == TypeOK /\ StreamOK /\ RequestOK

(* ErrorJustified for every continuation of the stream.                      *)
ErrorFinal ==
  pc = "failed" => \A more \in Seq(Byte) : Frames(cfg, taken \o more) = {}

----------------------------------------------------------------------------
(* The first n elements of a sequence, and the rest.                         *)

LEMMA TakeType ==
  ASSUME NEW S, NEW s \in Seq(S), NEW n \in 0..Len(s)
  PROVE  /\ Take(s, n) \in Seq(S) /\ Len(Take(s, n)) = n
         /\ \A i \in 1..n : Take(s, n)[i] = s[i]
<1>1. \A i \in 1..n : s[i] \in S
  BY LenProperties, ElementOfSeq
<1> QED
  BY <1>1, SubSeqProperties DEF Take

LEMMA RestType ==
  ASSUME NEW S, NEW s \in Seq(S), NEW n \in 0..Len(s)
  PROVE  /\ Rest(s, n) \in Seq(S) /\ Len(Rest(s, n)) = Len(s) - n
         /\ \A i \in 1..(Len(s) - n) : Rest(s, n)[i] = s[n + i]
<1>1. Len(s) \in Nat /\ \A i \in (n + 1)..Len(s) : s[i] \in S
  BY LenProperties, ElementOfSeq
<1>2. n + 1 \in Int /\ Len(s) \in Int
  BY <1>1
<1>3. /\ Rest(s, n) \in Seq(S)
      /\ Len(Rest(s, n)) = IF n + 1 <= Len(s) THEN Len(s) - (n + 1) + 1 ELSE 0
      /\ \A i \in 1..(Len(s) - (n + 1) + 1) : Rest(s, n)[i] = s[(n + 1) + i - 1]
  BY <1>1, <1>2, SubSeqProperties DEF Rest
<1> QED
  BY <1>1, <1>3

LEMMA RestBeyond ==
  ASSUME NEW S, NEW s \in Seq(S), NEW n \in Nat, n >= Len(s)
  PROVE  Rest(s, n) = <<>>
<1>1. n + 1 \in Int /\ Len(s) \in Int /\ Len(s) < n + 1
  BY LenProperties
<1> QED
  BY <1>1, SubSeqEmpty DEF Rest

LEMMA TakeAll == ASSUME NEW S, NEW s \in Seq(S) PROVE Take(s, Len(s)) = s
  BY SubSeqFull DEF Take

LEMMA TakeNone == ASSUME NEW s PROVE Take(s, 0) = <<>>
  BY SubSeqEmpty DEF Take

LEMMA RestAll == ASSUME NEW S, NEW s \in Seq(S) PROVE Rest(s, 0) = s
  BY SubSeqFull DEF Rest

LEMMA TakeThenRest ==
  ASSUME NEW S, NEW s \in Seq(S), NEW n \in 0..Len(s)
  PROVE  Take(s, n) \o Rest(s, n) = s
<1>1. Len(s) \in Nat
  BY LenProperties
<1>2. 1 \in 1..(Len(s) + 1) /\ n \in (1 - 1)..Len(s) /\ Len(s) \in n..Len(s)
  BY <1>1
<1>3. Take(s, n) \o Rest(s, n) = SubSeq(s, 1, Len(s))
  BY <1>2, ConcatAdjacentSubSeq DEF Take, Rest
<1> QED
  BY <1>3, SubSeqFull

LEMMA TakeOfTake ==
  ASSUME NEW S, NEW s \in Seq(S), NEW m \in 0..Len(s), NEW n \in 0..m
  PROVE  Take(Take(s, m), n) = Take(s, n)
<1>0. Len(s) \in Nat /\ n \in 0..Len(s)
  BY LenProperties
<1>1. /\ Take(s, m) \in Seq(S) /\ Len(Take(s, m)) = m
      /\ \A i \in 1..m : Take(s, m)[i] = s[i]
  BY TakeType
<1>2. /\ Take(s, n) \in Seq(S) /\ Len(Take(s, n)) = n
      /\ \A i \in 1..n : Take(s, n)[i] = s[i]
  BY <1>0, TakeType
<1>3. /\ Take(Take(s, m), n) \in Seq(S) /\ Len(Take(Take(s, m), n)) = n
      /\ \A i \in 1..n : Take(Take(s, m), n)[i] = Take(s, m)[i]
  BY <1>1, TakeType
<1>4. \A i \in 1..n : Take(Take(s, m), n)[i] = Take(s, n)[i]
  BY <1>1, <1>2, <1>3
<1> QED
  BY <1>2, <1>3, <1>4, SeqEqual

LEMMA RestOfRest ==
  ASSUME NEW S, NEW s \in Seq(S), NEW m \in 0..Len(s), NEW n \in 0..(Len(s) - m)
  PROVE  Rest(Rest(s, m), n) = Rest(s, m + n)
<1>0. Len(s) \in Nat /\ m + n \in 0..Len(s)
  BY LenProperties
<1>1. /\ Rest(s, m) \in Seq(S) /\ Len(Rest(s, m)) = Len(s) - m
      /\ \A i \in 1..(Len(s) - m) : Rest(s, m)[i] = s[m + i]
  BY RestType
<1>2. /\ Rest(s, m + n) \in Seq(S) /\ Len(Rest(s, m + n)) = Len(s) - (m + n)
      /\ \A i \in 1..(Len(s) - (m + n)) : Rest(s, m + n)[i] = s[(m + n) + i]
  BY <1>0, RestType
<1>3. /\ Rest(Rest(s, m), n) \in Seq(S) /\ Len(Rest(Rest(s, m), n)) = (Len(s) - m) - n
      /\ \A i \in 1..((Len(s) - m) - n) : Rest(Rest(s, m), n)[i] = Rest(s, m)[n + i]
  BY <1>1, RestType
<1>4. \A i \in 1..((Len(s) - m) - n) : Rest(Rest(s, m), n)[i] = Rest(s, m + n)[i]
  <2> SUFFICES ASSUME NEW i \in 1..((Len(s) - m) - n)
               PROVE  Rest(Rest(s, m), n)[i] = Rest(s, m + n)[i]
    OBVIOUS
  <2>1. n + i \in 1..(Len(s) - m) /\ i \in 1..(Len(s) - (m + n)) /\ m + (n + i) = (m + n) + i
    BY <1>0
  <2> QED
    BY <1>1, <1>2, <1>3, <2>1
<1>5. Len(Rest(Rest(s, m), n)) = Len(Rest(s, m + n))
  BY <1>0, <1>2, <1>3
<1> QED
  BY <1>2, <1>3, <1>4, <1>5, SeqEqual

(* Of a sequence that has been continued.                                    *)
LEMMA TakeContinued ==
  ASSUME NEW S, NEW s \in Seq(S), NEW t \in Seq(S), NEW n \in 0..Len(s)
  PROVE  Take(s \o t, n) = Take(s, n)
<1>0. /\ Len(s) \in Nat /\ Len(t) \in Nat
      /\ s \o t \in Seq(S) /\ Len(s \o t) = Len(s) + Len(t)
      /\ \A i \in 1..Len(s) : (s \o t)[i] = s[i]
  BY LenProperties, ConcatProperties
<1>1. n \in 0..Len(s \o t)
  BY <1>0
<1>2. /\ Take(s \o t, n) \in Seq(S) /\ Len(Take(s \o t, n)) = n
      /\ \A i \in 1..n : Take(s \o t, n)[i] = (s \o t)[i]
  BY <1>0, <1>1, TakeType
<1>3. /\ Take(s, n) \in Seq(S) /\ Len(Take(s, n)) = n /\ \A i \in 1..n : Take(s, n)[i] = s[i]
  BY TakeType
<1>4. \A i \in 1..n : i \in 1..Len(s)
  BY <1>0
<1>5. \A i \in 1..n : Take(s \o t, n)[i] = Take(s, n)[i]
  BY <1>0, <1>2, <1>3, <1>4, Zenon
<1> QED
  BY <1>2, <1>3, <1>5, SeqEqual

LEMMA RestContinued ==
  ASSUME NEW S, NEW s \in Seq(S), NEW t \in Seq(S), NEW n \in 0..Len(s)
  PROVE  Rest(s \o t, n) = Rest(s, n) \o t
<1>0. /\ Len(s) \in Nat /\ Len(t) \in Nat
      /\ s \o t \in Seq(S) /\ Len(s \o t) = Len(s) + Len(t)
      /\ \A i \in 1..Len(s) + Len(t) : (s \o t)[i] = IF i <= Len(s) THEN s[i] ELSE t[i - Len(s)]
  BY LenProperties, ConcatProperties
<1>1. n \in 0..Len(s \o t)
  BY <1>0
<1>2. /\ Rest(s \o t, n) \in Seq(S) /\ Len(Rest(s \o t, n)) = Len(s) + Len(t) - n
      /\ \A i \in 1..(Len(s) + Len(t) - n) : Rest(s \o t, n)[i] = (s \o t)[n + i]
  <2>1. PICK u \in Seq(S) : u = s \o t
    BY <1>0
  <2>2. /\ Rest(u, n) \in Seq(S) /\ Len(Rest(u, n)) = Len(u) - n
        /\ \A i \in 1..(Len(u) - n) : Rest(u, n)[i] = u[n + i]
    BY <1>1, <2>1, RestType
  <2> QED
    BY <1>0, <2>1, <2>2
<1>3. /\ Rest(s, n) \in Seq(S) /\ Len(Rest(s, n)) = Len(s) - n
      /\ \A i \in 1..(Len(s) - n) : Rest(s, n)[i] = s[n + i]
  BY RestType
<1>4. /\ Rest(s, n) \o t \in Seq(S) /\ Len(Rest(s, n) \o t) = (Len(s) - n) + Len(t)
      /\ \A i \in 1..((Len(s) - n) + Len(t)) :
           (Rest(s, n) \o t)[i] = IF i <= Len(s) - n THEN Rest(s, n)[i] ELSE t[i - (Len(s) - n)]
  <2>1. PICK r \in Seq(S) : r = Rest(s, n)
    BY <1>3
  <2>2. /\ r \o t \in Seq(S) /\ Len(r \o t) = Len(r) + Len(t)
        /\ \A i \in 1..(Len(r) + Len(t)) :
             (r \o t)[i] = IF i <= Len(r) THEN r[i] ELSE t[i - Len(r)]
    BY ConcatProperties
  <2> QED
    BY <1>3, <2>1, <2>2
<1>5. ASSUME NEW i \in 1..(Len(s) + Len(t) - n)
      PROVE  Rest(s \o t, n)[i] = (Rest(s, n) \o t)[i]
  <2>1. i \in 1..((Len(s) - n) + Len(t)) /\ n + i \in 1..Len(s) + Len(t)
    BY <1>0
  <2>2. CASE i <= Len(s) - n
    <3>1. n + i <= Len(s) /\ i \in 1..(Len(s) - n)
      BY <1>0, <2>2
    <3> QED
      BY <1>0, <1>2, <1>3, <1>4, <2>1, <2>2, <3>1
  <2>3. CASE ~(i <= Len(s) - n)
    <3>1. ~(n + i <= Len(s)) /\ (n + i) - Len(s) = i - (Len(s) - n)
      BY <1>0, <2>3
    <3> QED
      BY <1>0, <1>2, <1>4, <2>1, <2>3, <3>1
  <2> QED
    BY <2>2, <2>3
<1>6. Len(Rest(s \o t, n)) = Len(Rest(s, n) \o t)
  BY <1>0, <1>2, <1>4
<1> QED
  BY <1>2, <1>4, <1>5, <1>6, SeqEqual

LEMMA RestOfConcat ==
  ASSUME NEW S, NEW s \in Seq(S), NEW t \in Seq(S)
  PROVE  Rest(s \o t, Len(s)) = t
<1>1. Len(s) \in 0..Len(s)
  BY LenProperties
<1>2. Rest(s \o t, Len(s)) = Rest(s, Len(s)) \o t
  BY <1>1, RestContinued
<1>3. Rest(s, Len(s)) = <<>>
  BY <1>1, RestBeyond
<1> QED
  BY <1>2, <1>3, ConcatEmptySeq

----------------------------------------------------------------------------
(* Induction, in the form of sets of numbers.                                *)

LEMMA LeastNat == ASSUME NEW S, S \subseteq Nat, S # {} PROVE \E n \in S : \A m \in S : ~(m < n)
<1> DEFINE R == {ss \in Nat \X Nat : ss[1] < ss[2]}
<1>1. IsWellFoundedOn(R, Nat)
  BY NatLessThanWellFounded DEF OpToRel
<1>2. \E x \in S : \A y \in S : ~(<<y, x>> \in R)
  <2> HIDE DEF R
  <2> QED
    BY <1>1, WFMin
<1> QED
  BY <1>2

LEMMA Induction ==
  ASSUME NEW S, 0 \in S, \A n \in Nat : n \in S => n + 1 \in S
  PROVE  \A n \in Nat : n \in S
<1> SUFFICES ASSUME Nat \ S # {} PROVE FALSE
  OBVIOUS
<1>1. PICK n \in Nat \ S : \A m \in Nat \ S : ~(m < n)
  BY LeastNat
<1>2. n # 0 /\ n - 1 \in Nat /\ n - 1 < n /\ (n - 1) + 1 = n
  BY <1>1
<1>3. n - 1 \in S
  BY <1>1, <1>2
<1> QED
  BY <1>1, <1>2, <1>3

(* f is defined on 0..n by its value c at 0 and by what g makes of each      *)
(* value to get the next.                                                    *)
Recursive(f, n, c, g) ==
  /\ f \in [0..n -> Nat] /\ f[0] = c
  /\ \A i \in 1..n : f[i] = g[i][f[i - 1]]

LEMMA RecursionExists ==
  ASSUME NEW n \in Nat, NEW c \in Nat, NEW g \in [1..n -> [Nat -> Nat]]
  PROVE  \E f : Recursive(f, n, c, g)
<1> DEFINE S == {k \in Nat : k <= n => \E f : Recursive(f, k, c, g)}
<1>1. 0 \in S
  <2>1. Recursive([i \in 0..0 |-> c], 0, c, g)
    BY DEF Recursive
  <2> QED
    BY <2>1
<1>2. ASSUME NEW k \in Nat, k \in S PROVE k + 1 \in S
  <2> SUFFICES ASSUME k + 1 <= n PROVE \E f : Recursive(f, k + 1, c, g)
    OBVIOUS
  <2>1. PICK f : Recursive(f, k, c, g)
    BY <1>2
  <2>2. f \in [0..k -> Nat] /\ f[k] \in Nat /\ k + 1 \in 1..n
    BY <2>1 DEF Recursive
  <2>3. g[k + 1] \in [Nat -> Nat] /\ g[k + 1][f[k]] \in Nat
    BY <2>2
  <2> DEFINE h == [i \in 0..(k + 1) |-> IF i <= k THEN f[i] ELSE g[k + 1][f[k]]]
  <2>4. h \in [0..(k + 1) -> Nat] /\ h[0] = c
    <3>1. h[0] = f[0] /\ f[0] = c
      BY <2>1 DEF Recursive
    <3>2. ASSUME NEW i \in 0..(k + 1), i <= k PROVE f[i] \in Nat
      <4>1. i \in 0..k
        BY <3>2
      <4> QED
        BY <2>2, <4>1
    <3>3. \A i \in 0..(k + 1) : h[i] \in Nat
      BY <2>3, <3>2
    <3>4. h[0] = c /\ h = [i \in 0..(k + 1) |-> h[i]]
      BY <3>1
    <3> HIDE DEF h
    <3> QED
      BY <3>3, <3>4
  <2>5. ASSUME NEW i \in 1..(k + 1) PROVE h[i] = g[i][h[i - 1]]
    <3>1. i \in 0..(k + 1) /\ i - 1 \in 0..(k + 1) /\ i - 1 <= k /\ h[i - 1] = f[i - 1]
      OBVIOUS
    <3>2. CASE i <= k
      <4>1. i \in 1..k /\ h[i] = f[i]
        BY <3>1, <3>2
      <4> QED
        BY <2>1, <3>1, <4>1 DEF Recursive
    <3>3. CASE i = k + 1
      <4>1. ~(i <= k) /\ i - 1 = k /\ h[i] = g[k + 1][f[k]]
        BY <3>1, <3>3
      <4> QED
        BY <3>1, <3>3, <4>1
    <3> QED
      BY <3>2, <3>3
  <2> HIDE DEF h
  <2> QED
    BY <2>4, <2>5 DEF Recursive
<1> HIDE DEF S
<1>3. n \in S
  BY <1>1, <1>2, Induction
<1> QED
  BY <1>3 DEF S

(* The longer of two such functions continues the shorter one.               *)
LEMMA RecursionUnique ==
  ASSUME NEW n \in Nat, NEW m \in Nat, n <= m, NEW c, NEW f, NEW g, NEW e, NEW h,
         Recursive(f, n, c, g), Recursive(e, m, c, h), \A i \in 1..n : g[i] = h[i]
  PROVE  \A i \in 0..n : f[i] = e[i]
<1> DEFINE S == {k \in Nat : k <= n => f[k] = e[k]}
<1>1. 0 \in S
  BY DEF Recursive
<1>2. ASSUME NEW k \in Nat, k \in S PROVE k + 1 \in S
  <2> SUFFICES ASSUME k + 1 <= n PROVE f[k + 1] = e[k + 1]
    OBVIOUS
  <2>1. k + 1 \in 1..n /\ k + 1 \in 1..m /\ (k + 1) - 1 = k /\ f[k] = e[k]
    BY <1>2
  <2>2. f[k + 1] = g[k + 1][f[k]] /\ g[k + 1] = h[k + 1]
    BY <2>1 DEF Recursive
  <2>3. e[k + 1] = h[k + 1][e[k]]
    BY <2>1 DEF Recursive
  <2> QED
    BY <2>1, <2>2, <2>3
<1> HIDE DEF S
<1>3. \A k \in Nat : k \in S
  BY <1>1, <1>2, Induction
<1> QED
  BY <1>3 DEF S

(* What satisfies the equations has values in Nat.                           *)
Solves(f, n, c, g) ==
  /\ f = [i \in 0..n |-> f[i]] /\ f[0] = c
  /\ \A i \in 1..n : f[i - 1] \in Nat => f[i] = g[i][f[i - 1]]

LEMMA RecursionSolved ==
  ASSUME NEW n \in Nat, NEW c \in Nat, NEW g \in [1..n -> [Nat -> Nat]], NEW f,
         Solves(f, n, c, g)
  PROVE  Recursive(f, n, c, g)
<1> DEFINE S == {k \in Nat : k <= n => f[k] \in Nat}
<1>1. 0 \in S
  BY DEF Solves
<1>2. ASSUME NEW k \in Nat, k \in S PROVE k + 1 \in S
  <2> SUFFICES ASSUME k + 1 <= n PROVE f[k + 1] \in Nat
    OBVIOUS
  <2>1. k + 1 \in 1..n /\ (k + 1) - 1 = k /\ f[k] \in Nat
    BY <1>2
  <2>2. f[k + 1] = g[k + 1][f[k]] /\ g[k + 1] \in [Nat -> Nat]
    BY <2>1 DEF Solves
  <2> QED
    BY <2>1, <2>2
<1> HIDE DEF S
<1>3. \A k \in Nat : k \in S
  BY <1>1, <1>2, Induction
<1>4. \A i \in 0..n : f[i] \in Nat
  BY <1>3 DEF S
<1>5. f \in [0..n -> Nat]
  BY <1>4 DEF Solves
<1>6. \A i \in 1..n : i - 1 \in 0..n
  OBVIOUS
<1>7. f[0] = c /\ \A i \in 1..n : f[i] = g[i][f[i - 1]]
  BY <1>4, <1>6 DEF Solves
<1> QED
  BY <1>5, <1>7 DEF Recursive

----------------------------------------------------------------------------
(* Powers.                                                                   *)

Times(b, n) == [i \in 1..n |-> [x \in Nat |-> b * x]]

LEMMA PowerIs ==
  ASSUME NEW b \in Nat, NEW n \in Nat
  PROVE  \E p : Recursive(p, n, 1, Times(b, n)) /\ Power(b, n) = p[n]
<1> DEFINE p == CHOOSE f : f = [i \in 0..n |-> IF i = 0 THEN 1 ELSE b * f[i - 1]]
<1>1. Times(b, n) \in [1..n -> [Nat -> Nat]]
  BY DEF Times
<1>2. PICK f : Recursive(f, n, 1, Times(b, n))
  BY <1>1, RecursionExists
<1>3. f = [i \in 0..n |-> IF i = 0 THEN 1 ELSE b * f[i - 1]]
  <2>1. f = [i \in 0..n |-> f[i]]
    BY <1>2 DEF Recursive
  <2>2. ASSUME NEW i \in 0..n PROVE f[i] = IF i = 0 THEN 1 ELSE b * f[i - 1]
    <3>1. CASE i = 0
      BY <1>2, <3>1 DEF Recursive
    <3>2. CASE i # 0
      <4>1. i \in 1..n /\ i - 1 \in 0..n
        BY <3>2
      <4> QED
        BY <1>2, <3>2, <4>1 DEF Recursive, Times
    <3> QED
      BY <3>1, <3>2
  <2> QED
    BY <2>1, <2>2
<1>4. p = [i \in 0..n |-> IF i = 0 THEN 1 ELSE b * p[i - 1]]
  BY <1>3
<1>5. Power(b, n) = p[n]
  BY DEF Power
<1> HIDE DEF p
<1>6. p[0] = 1 /\ \A i \in 1..n : p[i] = b * p[i - 1]
  BY <1>4
<1>7. \A i \in 1..n : p[i - 1] \in Nat => p[i] = Times(b, n)[i][p[i - 1]]
  BY <1>6 DEF Times
<1>8. p = [i \in 0..n |-> p[i]]
  BY <1>4
<1>9. Recursive(p, n, 1, Times(b, n))
  BY <1>1, <1>6, <1>7, <1>8, RecursionSolved DEF Solves
<1> QED
  BY <1>5, <1>9

LEMMA PowerLaws ==
  ASSUME NEW b \in Nat, NEW n \in Nat
  PROVE  /\ Power(b, n) \in Nat
         /\ Power(b, 0) = 1
         /\ Power(b, n + 1) = b * Power(b, n)
<1>1. PICK p : Recursive(p, n, 1, Times(b, n)) /\ Power(b, n) = p[n]
  BY PowerIs
<1>2. PICK q : Recursive(q, n + 1, 1, Times(b, n + 1)) /\ Power(b, n + 1) = q[n + 1]
  BY PowerIs
<1>3. PICK z : Recursive(z, 0, 1, Times(b, 0)) /\ Power(b, 0) = z[0]
  BY PowerIs
<1>4. p[n] \in Nat /\ z[0] = 1
  BY <1>1, <1>3 DEF Recursive
<1>5. \A i \in 1..n : Times(b, n)[i] = Times(b, n + 1)[i]
  BY DEF Times
<1>6. p[n] = q[n]
  <2>1. n <= n + 1 /\ n + 1 \in Nat /\ n \in 0..n
    OBVIOUS
  <2>2. \A i \in 0..n : p[i] = q[i]
    BY <1>1, <1>2, <1>5, <2>1, RecursionUnique
  <2> QED
    BY <2>1, <2>2
<1>7. q[n + 1] = b * q[n]
  <2>1. n + 1 \in 1..(n + 1) /\ (n + 1) - 1 = n
    OBVIOUS
  <2>2. q[n + 1] = Times(b, n + 1)[n + 1][q[n]]
    BY <1>2, <2>1 DEF Recursive
  <2> QED
    BY <1>4, <1>6, <2>1, <2>2 DEF Times
<1> QED
  BY <1>1, <1>2, <1>3, <1>4, <1>6, <1>7

LEMMA TimesGrows ==
  ASSUME NEW b \in Nat, NEW c \in Nat, b >= c, NEW y \in Nat
  PROVE  b * y \in Nat /\ b * y >= c * y
<1>1. PICK d \in Nat : b = d + c
  <2>1. b - c \in Nat /\ b = (b - c) + c
    OBVIOUS
  <2> QED
    BY <2>1
<1>2. d * y \in Nat /\ c * y \in Nat /\ b * y = d * y + c * y
  BY <1>1
<1> QED
  BY <1>2

LEMMA PowerGrows ==
  ASSUME NEW b \in Nat, b >= 2, NEW n \in Nat
  PROVE  Power(b, n) >= n + 1 /\ Power(b, n + 1) >= Power(b, n) + n + 1
<1> DEFINE S == {k \in Nat : Power(b, k) >= k + 1}
<1>1. 0 \in S
  BY PowerLaws
<1>2. ASSUME NEW k \in Nat, Power(b, k) >= k + 1 PROVE Power(b, k + 1) >= Power(b, k) + k + 1
  <2>1. PICK x \in Nat : x = Power(b, k)
    BY PowerLaws
  <2>2. b * x >= 2 * x
    BY TimesGrows
  <2>3. Power(b, k + 1) = b * x
    BY <2>1, PowerLaws
  <2> QED
    BY <1>2, <2>1, <2>2, <2>3
<1>3. ASSUME NEW k \in Nat, k \in S PROVE k + 1 \in S
  <2>1. Power(b, k + 1) >= Power(b, k) + k + 1 /\ Power(b, k) >= k + 1
    BY <1>2, <1>3
  <2>2. Power(b, k) \in Nat /\ Power(b, k + 1) \in Nat /\ k + 1 \in Nat
    <3>1. k + 1 \in Nat
      OBVIOUS
    <3> QED
      BY <3>1, PowerLaws
  <2>3. PICK x \in Nat, y \in Nat : x = Power(b, k) /\ y = Power(b, k + 1)
    BY <2>2
  <2>4. y >= (k + 1) + 1
    BY <2>1, <2>3
  <2> QED
    BY <2>2, <2>3, <2>4
<1> HIDE DEF S
<1>4. n \in S
  BY <1>1, <1>3, Induction
<1> QED
  BY <1>2, <1>4 DEF S

LEMMA PowerMonotone ==
  ASSUME NEW b \in Nat \ {0}, NEW m \in Nat, NEW n \in Nat, m <= n
  PROVE  Power(b, m) <= Power(b, n)
<1> DEFINE S == {k \in Nat : m <= k => Power(b, m) <= Power(b, k)}
<1>1. 0 \in S
  <2>1. Power(b, m) \in Nat
    BY PowerLaws
  <2>2. m <= 0 => m = 0
    OBVIOUS
  <2> QED
    BY <2>1, <2>2
<1>2. ASSUME NEW k \in Nat, k \in S PROVE k + 1 \in S
  <2> SUFFICES ASSUME m <= k + 1 PROVE Power(b, m) <= Power(b, k + 1)
    OBVIOUS
  <2>1. PICK x \in Nat, y \in Nat : x = Power(b, m) /\ y = Power(b, k)
    BY PowerLaws
  <2>2. Power(b, k + 1) = b * y
    BY <2>1, PowerLaws
  <2>3. b * y >= y /\ b * y \in Nat
    BY TimesGrows, 1 * y = y, b >= 1
  <2>4. CASE m <= k
    BY <1>2, <2>1, <2>2, <2>3, <2>4
  <2>5. CASE m = k + 1
    BY <2>1, <2>5
  <2> QED
    BY <2>4, <2>5
<1> HIDE DEF S
<1>3. n \in S
  BY <1>1, <1>2, Induction
<1> QED
  BY <1>3 DEF S

----------------------------------------------------------------------------
(* The number that a prefix encodes.                                         *)

Adds(u, base)  == [i \in 1..Len(u) |-> [x \in Nat |-> x + (u[i] % base) * Power(base, i - 1)]]
Shifts(s, base) == [i \in 1..Len(s) |-> [x \in Nat |-> x * base + (s[i] % base)]]

(* The value of u, least significant digit first, by the powers of the base. *)
Sum(u, base) ==
  LET v[i \in 0..Len(u)] == IF i = 0 THEN 0 ELSE v[i - 1] + (u[i] % base) * Power(base, i - 1)
  IN  v[Len(u)]

LEMMA DigitType ==
  ASSUME NEW u \in Seq(Nat), NEW base \in Nat \ {0}, NEW i \in 1..Len(u)
  PROVE  /\ u[i] % base \in 0..(base - 1) /\ u[i] % base \in Nat
         /\ Power(base, i - 1) \in Nat
<1>1. u[i] \in Nat /\ i - 1 \in Nat
  BY ElementOfSeq, LenProperties
<1>2. PICK x \in Nat : x = u[i]
  BY <1>1
<1>3. x % base \in 0..(base - 1) /\ x % base \in Nat
  OBVIOUS
<1>4. Power(base, i - 1) \in Nat
  BY <1>1, base \in Nat, PowerLaws
<1> QED
  BY <1>2, <1>3, <1>4

LEMMA SumIs ==
  ASSUME NEW u \in Seq(Nat), NEW base \in Nat \ {0}
  PROVE  \E v : Recursive(v, Len(u), 0, Adds(u, base)) /\ Sum(u, base) = v[Len(u)]
<1> DEFINE v == CHOOSE f : f = [i \in 0..Len(u) |->
                  IF i = 0 THEN 0 ELSE f[i - 1] + (u[i] % base) * Power(base, i - 1)]
<1>0. Len(u) \in Nat
  BY LenProperties
<1>1. Adds(u, base) \in [1..Len(u) -> [Nat -> Nat]]
  <2>1. ASSUME NEW i \in 1..Len(u), NEW x \in Nat
        PROVE  x + (u[i] % base) * Power(base, i - 1) \in Nat
    <3>1. PICK e \in Nat, p \in Nat : e = u[i] % base /\ p = Power(base, i - 1)
      BY DigitType
    <3>2. x + e * p \in Nat
      OBVIOUS
    <3> QED
      BY <3>1, <3>2
  <2> QED
    BY <2>1 DEF Adds
<1>2. PICK f : Recursive(f, Len(u), 0, Adds(u, base))
  BY <1>0, <1>1, RecursionExists
<1>3. f = [i \in 0..Len(u) |-> IF i = 0 THEN 0 ELSE f[i - 1] + (u[i] % base) * Power(base, i - 1)]
  <2>1. f = [i \in 0..Len(u) |-> f[i]]
    BY <1>2 DEF Recursive
  <2>2. ASSUME NEW i \in 0..Len(u)
        PROVE  f[i] = IF i = 0 THEN 0 ELSE f[i - 1] + (u[i] % base) * Power(base, i - 1)
    <3>1. CASE i = 0
      BY <1>2, <3>1 DEF Recursive
    <3>2. CASE i # 0
      <4>1. i \in 1..Len(u) /\ i - 1 \in 0..Len(u)
        BY <1>0, <3>2
      <4>2. f[i] = Adds(u, base)[i][f[i - 1]] /\ f[i - 1] \in Nat
        BY <1>2, <4>1 DEF Recursive
      <4> QED
        BY <3>2, <4>1, <4>2 DEF Adds
    <3> QED
      BY <3>1, <3>2
  <2> QED
    BY <2>1, <2>2
<1>4. v = [i \in 0..Len(u) |-> IF i = 0 THEN 0 ELSE v[i - 1] + (u[i] % base) * Power(base, i - 1)]
  BY <1>3
<1>5. Sum(u, base) = v[Len(u)]
  BY DEF Sum
<1> HIDE DEF v
<1>6. v[0] = 0 /\ \A i \in 1..Len(u) : v[i] = v[i - 1] + (u[i] % base) * Power(base, i - 1)
  <2>1. 0 \in 0..Len(u) /\ \A i \in 1..Len(u) : i \in 0..Len(u) /\ i # 0
    BY <1>0
  <2>2. \A i \in 0..Len(u) :
          v[i] = IF i = 0 THEN 0 ELSE v[i - 1] + (u[i] % base) * Power(base, i - 1)
    BY <1>4
  <2> QED
    BY <2>1, <2>2, Zenon
<1>7. \A i \in 1..Len(u) : v[i - 1] \in Nat => v[i] = Adds(u, base)[i][v[i - 1]]
  BY <1>6 DEF Adds
<1>8. v = [i \in 0..Len(u) |-> v[i]]
  BY <1>4
<1>9. Recursive(v, Len(u), 0, Adds(u, base))
  BY <1>0, <1>1, <1>6, <1>7, <1>8, RecursionSolved DEF Solves
<1> QED
  BY <1>5, <1>9

LEMMA DigitsIs ==
  ASSUME NEW s \in Seq(Nat), NEW base \in Nat \ {0}
  PROVE  \E d : Recursive(d, Len(s), 0, Shifts(s, base)) /\ Digits(s, base) = d[Len(s)]
<1> DEFINE d == CHOOSE f : f = [i \in 0..Len(s) |->
                  IF i = 0 THEN 0 ELSE f[i - 1] * base + (s[i] % base)]
<1>0. Len(s) \in Nat
  BY LenProperties
<1>1. Shifts(s, base) \in [1..Len(s) -> [Nat -> Nat]]
  <2>1. ASSUME NEW i \in 1..Len(s), NEW x \in Nat
        PROVE  x * base + (s[i] % base) \in Nat
    <3>1. PICK e \in Nat : e = s[i] % base
      BY DigitType
    <3>2. x * base + e \in Nat
      OBVIOUS
    <3> QED
      BY <3>1, <3>2
  <2> QED
    BY <2>1 DEF Shifts
<1>2. PICK f : Recursive(f, Len(s), 0, Shifts(s, base))
  BY <1>0, <1>1, RecursionExists
<1>3. f = [i \in 0..Len(s) |-> IF i = 0 THEN 0 ELSE f[i - 1] * base + (s[i] % base)]
  <2>1. f = [i \in 0..Len(s) |-> f[i]]
    BY <1>2 DEF Recursive
  <2>2. ASSUME NEW i \in 0..Len(s)
        PROVE  f[i] = IF i = 0 THEN 0 ELSE f[i - 1] * base + (s[i] % base)
    <3>1. CASE i = 0
      BY <1>2, <3>1 DEF Recursive
    <3>2. CASE i # 0
      <4>1. i \in 1..Len(s) /\ i - 1 \in 0..Len(s)
        BY <1>0, <3>2
      <4>2. f[i] = Shifts(s, base)[i][f[i - 1]] /\ f[i - 1] \in Nat
        BY <1>2, <4>1 DEF Recursive
      <4> QED
        BY <3>2, <4>1, <4>2 DEF Shifts
    <3> QED
      BY <3>1, <3>2
  <2> QED
    BY <2>1, <2>2
<1>4. d = [i \in 0..Len(s) |-> IF i = 0 THEN 0 ELSE d[i - 1] * base + (s[i] % base)]
  BY <1>3
<1>5. Digits(s, base) = d[Len(s)]
  BY DEF Digits
<1> HIDE DEF d
<1>6. d[0] = 0 /\ \A i \in 1..Len(s) : d[i] = d[i - 1] * base + (s[i] % base)
  <2>1. 0 \in 0..Len(s) /\ \A i \in 1..Len(s) : i \in 0..Len(s) /\ i # 0
    BY <1>0
  <2>2. \A i \in 0..Len(s) : d[i] = IF i = 0 THEN 0 ELSE d[i - 1] * base + (s[i] % base)
    BY <1>4
  <2> QED
    BY <2>1, <2>2, Zenon
<1>7. \A i \in 1..Len(s) : d[i - 1] \in Nat => d[i] = Shifts(s, base)[i][d[i - 1]]
  BY <1>6 DEF Shifts
<1>8. d = [i \in 0..Len(s) |-> d[i]]
  BY <1>4
<1>9. Recursive(d, Len(s), 0, Shifts(s, base))
  BY <1>0, <1>1, <1>6, <1>7, <1>8, RecursionSolved DEF Solves
<1> QED
  BY <1>5, <1>9

LEMMA ReverseType ==
  ASSUME NEW S, NEW s \in Seq(S)
  PROVE  /\ Reverse(s) \in Seq(S) /\ Len(Reverse(s)) = Len(s)
         /\ \A i \in 1..Len(s) : Reverse(s)[i] = s[Len(s) + 1 - i]
<1>0. Len(s) \in Nat /\ \A i \in 1..Len(s) : s[i] \in S
  BY LenProperties, ElementOfSeq
<1>1. \A i \in 1..Len(s) : (Len(s) - i) + 1 \in 1..Len(s) /\ (Len(s) - i) + 1 = Len(s) + 1 - i
  BY <1>0
<1>2. Reverse(s) \in [1..Len(s) -> S]
  BY <1>0, <1>1 DEF Reverse
<1>3. Reverse(s) \in Seq(S)
  BY <1>0, <1>2, SeqDef
<1>4. DOMAIN Reverse(s) = 1..Len(s) /\ DOMAIN Reverse(s) = 1..Len(Reverse(s)) /\ Len(Reverse(s)) \in Nat
  BY <1>2, <1>3, LenProperties
<1>5. Len(Reverse(s)) = Len(s)
  BY <1>0, <1>4
<1>6. \A i \in 1..Len(s) : Reverse(s)[i] = s[Len(s) + 1 - i]
  BY <1>1 DEF Reverse
<1> QED
  BY <1>3, <1>5, <1>6

LEMMA ReverseTwice == ASSUME NEW S, NEW s \in Seq(S) PROVE Reverse(Reverse(s)) = s
<1>0. Len(s) \in Nat
  BY LenProperties
<1>1. PICK r \in Seq(S) : r = Reverse(s)
  BY ReverseType
<1>2. Len(r) = Len(s) /\ \A i \in 1..Len(s) : r[i] = s[Len(s) + 1 - i]
  BY <1>1, ReverseType
<1>3. /\ Reverse(r) \in Seq(S) /\ Len(Reverse(r)) = Len(r)
      /\ \A i \in 1..Len(r) : Reverse(r)[i] = r[Len(r) + 1 - i]
  BY ReverseType
<1>4. ASSUME NEW i \in 1..Len(s) PROVE Reverse(r)[i] = s[i]
  <2>1. Len(s) + 1 - i \in 1..Len(s) /\ Len(s) + 1 - (Len(s) + 1 - i) = i
    BY <1>0
  <2> QED
    BY <1>2, <1>3, <2>1
<1>5. Reverse(r) = s
  BY <1>2, <1>3, <1>4, SeqEqual
<1> QED
  BY <1>1, <1>5

(* The sum by powers is what Horner's scheme computes from the other end.    *)
LEMMA SumIsDigits ==
  ASSUME NEW u \in Seq(Nat), NEW base \in Nat \ {0}
  PROVE  Sum(u, base) = Digits(Reverse(u), base)
<1> DEFINE s == Reverse(u)
           L == Len(u)
<1>0. L \in Nat /\ s \in Seq(Nat) /\ Len(s) = L /\ \A i \in 1..L : s[i] = u[L + 1 - i]
  BY LenProperties, ReverseType
<1>1. PICK v : Recursive(v, L, 0, Adds(u, base)) /\ Sum(u, base) = v[L]
  BY SumIs
<1>2. PICK d : Recursive(d, L, 0, Shifts(s, base)) /\ Digits(s, base) = d[L]
  BY <1>0, DigitsIs
<1> DEFINE S == {k \in Nat : k <= L => v[L] = v[L - k] + d[k] * Power(base, L - k)}
<1> HIDE DEF s, L
<1>3. 0 \in S
  <2>1. v[L] \in Nat /\ d[0] = 0 /\ L - 0 = L
    BY <1>0, <1>1, <1>2 DEF Recursive
  <2>2. Power(base, L) \in Nat
    BY <1>0, PowerLaws
  <2> QED
    BY <2>1, <2>2
<1>4. ASSUME NEW k \in Nat, k \in S PROVE k + 1 \in S
  <2> SUFFICES ASSUME k + 1 <= L
               PROVE  v[L] = v[L - (k + 1)] + d[k + 1] * Power(base, L - (k + 1))
    OBVIOUS
  <2>1. PICK j \in Nat : j = L - (k + 1)
    BY <1>0
  <2>2. L - k = j + 1 /\ j + 1 \in 1..L /\ k + 1 \in 1..L /\ (j + 1) - 1 = j /\ (k + 1) - 1 = k
        /\ j \in 0..L /\ k \in 0..L /\ L + 1 - (k + 1) = j + 1
    BY <1>0, <2>1
  <2>3. v[L] = v[j + 1] + d[k] * Power(base, j + 1)
    BY <1>4, <2>2
  <2>4. PICK x \in Nat, a \in Nat, b \in Nat, p \in Nat :
          x = u[j + 1] % base /\ a = v[j] /\ b = d[k] /\ p = Power(base, j)
    <3>1. u[j + 1] % base \in Nat /\ Power(base, j) \in Nat
      BY <2>2, DigitType, PowerLaws DEF L
    <3>2. v[j] \in Nat /\ d[k] \in Nat
      BY <1>1, <1>2, <2>2 DEF Recursive
    <3> QED
      BY <3>1, <3>2
  <2>5. v[j + 1] = a + x * p
    <3>1. v[j + 1] = Adds(u, base)[j + 1][a]
      BY <1>1, <2>2, <2>4 DEF Recursive
    <3>2. Adds(u, base)[j + 1][a] = a + (u[j + 1] % base) * Power(base, (j + 1) - 1)
      BY <2>2 DEF Adds, L
    <3> QED
      BY <2>2, <2>4, <3>1, <3>2
  <2>6. d[k + 1] = b * base + x
    <3>1. d[k + 1] = Shifts(s, base)[k + 1][b]
      BY <1>2, <2>2, <2>4 DEF Recursive
    <3>2. Shifts(s, base)[k + 1][b] = b * base + (s[k + 1] % base)
      BY <1>0, <2>2 DEF Shifts
    <3> QED
      BY <1>0, <2>2, <2>4, <3>1, <3>2
  <2>7. Power(base, j + 1) = base * p
    BY <2>4, PowerLaws
  <2>8. (a + x * p) + b * (base * p) = a + (b * base + x) * p
    OBVIOUS
  <2>9. v[L] = v[j] + d[k + 1] * Power(base, j)
    BY <2>3, <2>4, <2>5, <2>6, <2>7, <2>8, Zenon
  <2> QED
    BY <2>1, <2>9
<1> HIDE DEF S
<1>5. L \in S
  BY <1>0, <1>3, <1>4, Induction
<1>6. v[0] = 0 /\ d[L] \in Nat /\ L - L = 0 /\ Power(base, 0) = 1
  BY <1>0, <1>1, <1>2, PowerLaws DEF Recursive
<1>7. v[L] = d[L]
  BY <1>0, <1>5, <1>6 DEF S
<1> QED
  BY <1>1, <1>2, <1>7 DEF s

LEMMA SumBound ==
  ASSUME NEW u \in Seq(Nat), NEW base \in Nat \ {0}
  PROVE  Sum(u, base) \in Nat /\ Sum(u, base) < Power(base, Len(u))
<1> DEFINE L == Len(u)
<1>0. L \in Nat
  BY LenProperties
<1>1. PICK v : Recursive(v, L, 0, Adds(u, base)) /\ Sum(u, base) = v[L]
  BY SumIs
<1> DEFINE S == {k \in Nat : k <= L => v[k] < Power(base, k)}
<1> HIDE DEF L
<1>2. 0 \in S
  BY <1>1, PowerLaws DEF Recursive
<1>3. ASSUME NEW k \in Nat, k \in S PROVE k + 1 \in S
  <2> SUFFICES ASSUME k + 1 <= L PROVE v[k + 1] < Power(base, k + 1)
    OBVIOUS
  <2>1. k + 1 \in 1..L /\ (k + 1) - 1 = k /\ k \in 0..L /\ v[k] < Power(base, k)
    BY <1>0, <1>3
  <2>2. PICK x \in 0..(base - 1), a \in Nat, p \in Nat :
          x = u[k + 1] % base /\ a = v[k] /\ p = Power(base, k)
    <3>1. u[k + 1] % base \in 0..(base - 1) /\ Power(base, k) \in Nat
      BY <2>1, DigitType DEF L
    <3>2. v[k] \in Nat
      BY <1>1, <2>1 DEF Recursive
    <3> QED
      BY <3>1, <3>2
  <2>3. v[k + 1] = a + x * p
    <3>1. v[k + 1] = Adds(u, base)[k + 1][a]
      BY <1>1, <2>1, <2>2 DEF Recursive
    <3>2. Adds(u, base)[k + 1][a] = a + (u[k + 1] % base) * Power(base, (k + 1) - 1)
      BY <2>1 DEF Adds, L
    <3> QED
      BY <2>1, <2>2, <3>1, <3>2
  <2>4. Power(base, k + 1) = base * p
    BY <2>2, PowerLaws
  <2>5. base * p >= (x + 1) * p
    BY base \in Nat, x + 1 \in Nat, base >= x + 1, TimesGrows
  <2>6. (x + 1) * p = x * p + p /\ x * p \in Nat
    OBVIOUS
  <2>7. a < p
    BY <2>1, <2>2
  <2>8. a + x * p < base * p
    BY <2>5, <2>6, <2>7
  <2> QED
    BY <2>3, <2>4, <2>8
<1> HIDE DEF S
<1>4. L \in S
  BY <1>0, <1>2, <1>3, Induction
<1>5. v[L] \in Nat /\ v[L] < Power(base, L)
  BY <1>0, <1>1, <1>4 DEF S, Recursive
<1> QED
  BY <1>1, <1>5 DEF L

(* The base in which a prefix is written.                                    *)
Base == IF cfg.proto = "var" THEN Half ELSE 2 * Half

LEMMA BaseType == FramingAssumption => Base \in Nat \ {0} /\ Byte \subseteq Nat
  BY DEF Base, FramingAssumption, Byte

(* What the code decodes, byte by byte with growing powers, is the number    *)
(* that the prefix encodes in the byte order of the settings.                *)
LEMMA ValueIsNumber ==
  ASSUME NEW s \in Seq(Byte)
  PROVE  /\ Value(s, Base) = Number(cfg, s)
         /\ Value(s, Base) \in Nat /\ Value(s, Base) < Power(Base, Len(s))
<1> DEFINE u == IF cfg.little THEN s ELSE Reverse(s)
<1>0. Base \in Nat \ {0} /\ s \in Seq(Nat)
  BY FramingAssumption, BaseType, SeqMonotonic
<1>1. u \in Seq(Nat) /\ Len(u) = Len(s)
  BY <1>0, ReverseType
<1>2. Reverse(u) = IF cfg.little THEN Reverse(s) ELSE s
  BY <1>0, ReverseTwice
<1>3. Number(cfg, s) = Digits(Reverse(u), Base)
  BY <1>2 DEF Number, Base
<1>4. Value(s, Base) = Sum(u, Base)
  BY DEF Value, Sum
<1> HIDE DEF u
<1>5. Sum(u, Base) = Digits(Reverse(u), Base)
  BY <1>0, <1>1, SumIsDigits
<1>6. Sum(u, Base) \in Nat /\ Sum(u, Base) < Power(Base, Len(u))
  BY <1>0, <1>1, SumBound
<1> QED
  BY <1>1, <1>3, <1>4, <1>5, <1>6

(* The size that a prefix declares does not wrap when the length of the      *)
(* prefix is added to it.                                                    *)
LEMMA NoWrap ==
  ASSUME NEW h \in Nat, NEW v \in Nat, v < Power(Base, h),
         IF cfg.proto = "var" THEN h <= Word + 1 ELSE h < Word
  PROVE  v + h < Limit
<1>0. Half \in Nat /\ Half >= 1 /\ Word \in Nat /\ Power(Half, Word + 1) + Word < Limit
  BY FramingAssumption DEF FramingAssumption
<1>1. CASE cfg.proto = "var"
  <2>1. Power(Half, h) <= Power(Half, Word + 1)
    BY <1>0, <1>1, Word + 1 \in Nat, PowerMonotone
  <2>2. PICK x \in Nat, y \in Nat : x = Power(Half, h) /\ y = Power(Half, Word + 1)
    BY <1>0, Word + 1 \in Nat, PowerLaws
  <2>3. v < x /\ x <= y /\ y + Word < Limit /\ h <= Word + 1
    BY <1>0, <1>1, <2>1, <2>2 DEF Base
  <2>4. Limit \in Nat
    BY <1>0, 2 * Half \in Nat, PowerLaws DEF Limit
  <2> QED
    BY <1>0, <2>3, <2>4
<1>2. CASE cfg.proto # "var"
  <2> DEFINE b == 2 * Half
  <2>0. b \in Nat \ {0} /\ b >= 2
    BY <1>0
  <2> HIDE DEF b
  <2>1. Power(b, h + 1) >= Power(b, h) + h + 1
    BY <2>0, PowerGrows
  <2>2. Power(b, h + 1) <= Power(b, Word)
    BY <1>0, <1>2, <2>0, h + 1 \in Nat, h + 1 <= Word, PowerMonotone
  <2>3. PICK x \in Nat, y \in Nat, z \in Nat :
          x = Power(b, h) /\ y = Power(b, h + 1) /\ z = Power(b, Word)
    BY <1>0, <2>0, h + 1 \in Nat, PowerLaws
  <2>4. v < x /\ z = Limit
    BY <1>2, <2>3 DEF Base, Limit, b
  <2> QED
    BY <2>1, <2>2, <2>3, <2>4
<1> QED
  BY <1>1, <1>2

----------------------------------------------------------------------------
(* More about sequences.                                                     *)

LEMMA RestTyped ==
  ASSUME NEW S, NEW s \in Seq(S), NEW n \in Nat
  PROVE  Rest(s, n) \in Seq(S)
<1>1. CASE n >= Len(s)
  BY <1>1, RestBeyond, EmptySeq
<1>2. CASE ~(n >= Len(s))
  <2>1. n \in 0..Len(s)
    BY <1>2, LenProperties
  <2> QED
    BY <2>1, RestType
<1> QED
  BY <1>1, <1>2

LEMMA FunctionIsSeq ==
  ASSUME NEW S, NEW n \in Nat, NEW s \in [1..n -> S]
  PROVE  s \in Seq(S) /\ Len(s) = n
<1>1. s \in Seq(S)
  BY SeqDef
<1>2. DOMAIN s = 1..n /\ DOMAIN s = 1..Len(s) /\ Len(s) \in Nat
  BY <1>1, LenProperties
<1> QED
  BY <1>1, <1>2

LEMMA PreparedType ==
  ASSUME NEW n \in Nat
  PROVE  Prepared(n) \in Seq(Byte \cup {Junk})
<1>1. Prepared(n) \in [1..n -> Byte \cup {Junk}]
  BY DEF Prepared
<1> QED
  BY <1>1, FunctionIsSeq

(* The n elements after the first h.                                         *)
LEMMA Middle ==
  ASSUME NEW S, NEW s \in Seq(S), NEW h \in 0..Len(s), NEW n \in 0..(Len(s) - h)
  PROVE  /\ SubSeq(s, h + 1, h + n) = Take(Rest(s, h), n)
         /\ Take(s, h) \o Take(Rest(s, h), n) = Take(s, h + n)
<1>0. Len(s) \in Nat /\ h \in Nat /\ n \in Nat /\ h + 1 \in Int /\ h + n \in Int
  BY LenProperties
<1>1. PICK r \in Seq(S) : /\ r = Rest(s, h) /\ Len(r) = Len(s) - h
                          /\ \A i \in 1..(Len(s) - h) : r[i] = s[h + i]
  BY RestType
<1>2. /\ Take(r, n) \in Seq(S) /\ Len(Take(r, n)) = n
      /\ \A i \in 1..n : Take(r, n)[i] = r[i]
  BY <1>1, TakeType
<1>3. \A i \in (h + 1)..(h + n) : s[i] \in S
  <2>1. \A i \in (h + 1)..(h + n) : i \in 1..Len(s)
    BY <1>0
  <2> QED
    BY <2>1, ElementOfSeq
<1>4. PICK t \in Seq(S) :
        /\ t = SubSeq(s, h + 1, h + n)
        /\ Len(t) = IF h + 1 <= h + n THEN (h + n) - (h + 1) + 1 ELSE 0
        /\ \A i \in 1..((h + n) - (h + 1) + 1) : t[i] = s[(h + 1) + i - 1]
  <2>1. /\ SubSeq(s, h + 1, h + n) \in Seq(S)
        /\ Len(SubSeq(s, h + 1, h + n)) = IF h + 1 <= h + n THEN (h + n) - (h + 1) + 1 ELSE 0
        /\ \A i \in 1..((h + n) - (h + 1) + 1) : SubSeq(s, h + 1, h + n)[i] = s[(h + 1) + i - 1]
    BY <1>0, <1>3, SubSeqProperties
  <2> QED
    BY <2>1
<1>5. Len(t) = n
  BY <1>0, <1>4
<1>6. ASSUME NEW i \in 1..n PROVE t[i] = Take(r, n)[i]
  <2>1. /\ i \in 1..((h + n) - (h + 1) + 1) /\ i \in 1..(Len(s) - h)
        /\ (h + 1) + i - 1 = h + i
    BY <1>0
  <2> QED
    BY <1>1, <1>2, <1>4, <2>1
<1>7. t = Take(r, n)
  BY <1>2, <1>5, <1>6, SeqEqual
<1>8. SubSeq(s, 1, h) \o SubSeq(s, h + 1, h + n) = SubSeq(s, 1, h + n)
  <2>1. 1 \in 1..(Len(s) + 1) /\ h \in (1 - 1)..Len(s) /\ h + n \in h..Len(s)
    BY <1>0
  <2> QED
    BY <2>1, ConcatAdjacentSubSeq
<1> QED
  BY <1>1, <1>4, <1>7, <1>8 DEF Take

LEMMA MinIs ==
  ASSUME NEW S, S \subseteq Nat, S # {}
  PROVE  Min(S) \in S /\ \A n \in S : Min(S) <= n
<1>1. \E n \in S : \A m \in S : n <= m
  <2>1. PICK n \in S : \A m \in S : ~(m < n)
    BY LeastNat
  <2>2. \A m \in S : n <= m
    BY <2>1
  <2> QED
    BY <2>2
<1> QED
  BY <1>1 DEF Min

(* d ends in s after n elements.                                             *)
LEMMA SuffixIs ==
  ASSUME NEW S, NEW d \in Seq(S), NEW t \in Seq(S)
  PROVE  IsSuffix(d, t) <=> /\ Len(d) <= Len(t)
                            /\ \A i \in 1..Len(d) : d[i] = t[Len(t) - Len(d) + i]
<1>1. PICK e \in Seq(S) : /\ e = Reverse(d) /\ Len(e) = Len(d)
                          /\ \A i \in 1..Len(d) : e[i] = d[Len(d) + 1 - i]
  BY ReverseType
<1>2. PICK u \in Seq(S) : /\ u = Reverse(t) /\ Len(u) = Len(t)
                          /\ \A i \in 1..Len(t) : u[i] = t[Len(t) + 1 - i]
  BY ReverseType
<1>3. IsSuffix(d, t) <=> Len(d) <= Len(t) /\ Take(e, Len(e)) = Take(u, Len(d))
  BY <1>1, <1>2 DEF IsSuffix, IsPrefix, Take
<1>4. Len(d) \in Nat /\ Len(t) \in Nat /\ Take(e, Len(e)) = e
  BY LenProperties, TakeAll
<1> SUFFICES ASSUME Len(d) <= Len(t)
             PROVE  e = Take(u, Len(d)) <=> \A i \in 1..Len(d) : d[i] = t[Len(t) - Len(d) + i]
  BY <1>3, <1>4
<1>5. Len(d) \in 0..Len(u)
  BY <1>2, <1>4
<1>6. /\ Take(u, Len(d)) \in Seq(S) /\ Len(Take(u, Len(d))) = Len(d)
      /\ \A i \in 1..Len(d) : Take(u, Len(d))[i] = u[i]
  BY <1>5, TakeType
<1>7. e = Take(u, Len(d)) <=> \A i \in 1..Len(d) : e[i] = u[i]
  <2>1. PICK w \in Seq(S) : w = Take(u, Len(d)) /\ Len(w) = Len(d) /\ \A i \in 1..Len(d) : w[i] = u[i]
    BY <1>6
  <2>2. (\A i \in 1..Len(d) : e[i] = u[i]) => e = w
    BY <1>1, <2>1, SeqEqual
  <2> QED
    BY <2>1, <2>2
<1>8. ASSUME NEW i \in 1..Len(d)
      PROVE  /\ Len(d) + 1 - i \in 1..Len(d)
             /\ e[i] = d[Len(d) + 1 - i] /\ u[i] = t[Len(t) - Len(d) + (Len(d) + 1 - i)]
             /\ e[Len(d) + 1 - i] = d[i] /\ u[Len(d) + 1 - i] = t[Len(t) - Len(d) + i]
  <2>1. /\ Len(d) + 1 - i \in 1..Len(d) /\ i \in 1..Len(t) /\ Len(d) + 1 - i \in 1..Len(t)
        /\ Len(d) + 1 - (Len(d) + 1 - i) = i
        /\ Len(t) + 1 - i = Len(t) - Len(d) + (Len(d) + 1 - i)
        /\ Len(t) + 1 - (Len(d) + 1 - i) = Len(t) - Len(d) + i
    BY <1>4
  <2>2. e[i] = d[Len(d) + 1 - i] /\ e[Len(d) + 1 - i] = d[i]
    BY <1>1, <2>1
  <2>3. u[i] = t[Len(t) + 1 - i] /\ u[Len(d) + 1 - i] = t[Len(t) + 1 - (Len(d) + 1 - i)]
    BY <1>2, <2>1
  <2> QED
    BY <2>1, <2>2, <2>3
<1>9. (\A i \in 1..Len(d) : e[i] = u[i]) <=> \A i \in 1..Len(d) : d[i] = t[Len(t) - Len(d) + i]
  <2>1. ASSUME \A i \in 1..Len(d) : e[i] = u[i], NEW i \in 1..Len(d)
        PROVE  d[i] = t[Len(t) - Len(d) + i]
    BY <1>8, <2>1
  <2>2. ASSUME \A i \in 1..Len(d) : d[i] = t[Len(t) - Len(d) + i], NEW i \in 1..Len(d)
        PROVE  e[i] = u[i]
    BY <1>8, <2>2
  <2> QED
    BY <2>1, <2>2
<1> QED
  BY <1>7, <1>9

LEMMA EndsIs ==
  ASSUME NEW S, NEW d \in Seq(S), NEW s \in Seq(S)
  PROVE  Ends(d, s) = {n \in 0..Len(s) : IsSuffix(d, Take(s, n))}
<1>0. Len(d) \in Nat /\ Len(s) \in Nat
  BY LenProperties
<1>1. ASSUME NEW n \in 0..Len(s)
      PROVE  IsSuffix(d, Take(s, n)) <=> n >= Len(d) /\ SubSeq(s, n - Len(d) + 1, n) = d
  <2>1. PICK t \in Seq(S) : t = Take(s, n) /\ Len(t) = n /\ \A i \in 1..n : t[i] = s[i]
    <3>1. /\ Take(s, n) \in Seq(S) /\ Len(Take(s, n)) = n
          /\ \A i \in 1..n : Take(s, n)[i] = s[i]
      BY TakeType
    <3> QED
      BY <3>1
  <2>2. IsSuffix(d, t) <=> Len(d) <= n /\ \A i \in 1..Len(d) : d[i] = t[n - Len(d) + i]
    <3>1. IsSuffix(d, t) <=> /\ Len(d) <= Len(t)
                             /\ \A i \in 1..Len(d) : d[i] = t[Len(t) - Len(d) + i]
      BY SuffixIs
    <3> QED
      BY <2>1, <3>1
  <2> SUFFICES ASSUME Len(d) <= n
               PROVE  SubSeq(s, n - Len(d) + 1, n) = d <=>
                        \A i \in 1..Len(d) : d[i] = t[n - Len(d) + i]
    BY <1>0, <2>1, <2>2
  <2>3. PICK k \in Nat : k = n - Len(d)
    BY <1>0
  <2>4. k \in 0..Len(s) /\ Len(d) \in 0..(Len(s) - k) /\ k + Len(d) = n
    BY <1>0, <2>3
  <2>5. SubSeq(s, k + 1, k + Len(d)) = Take(Rest(s, k), Len(d))
    BY <2>4, Middle
  <2>6. PICK r \in Seq(S) : r = Rest(s, k) /\ Len(r) = Len(s) - k
                            /\ \A i \in 1..(Len(s) - k) : r[i] = s[k + i]
    BY <2>4, RestType
  <2>7. PICK m \in Seq(S) : m = Take(r, Len(d)) /\ Len(m) = Len(d) /\ \A i \in 1..Len(d) : m[i] = r[i]
    <3>1. Len(d) \in 0..Len(r)
      BY <2>4, <2>6
    <3> QED
      BY <3>1, TakeType
  <2>8. ASSUME NEW i \in 1..Len(d) PROVE m[i] = t[k + i]
    <3>1. i \in 1..(Len(s) - k) /\ k + i \in 1..n
      BY <1>0, <2>4
    <3> QED
      BY <2>1, <2>6, <2>7, <3>1
  <2>9. m = d <=> \A i \in 1..Len(d) : d[i] = m[i]
    BY <2>7, SeqEqual
  <2>10. (\A i \in 1..Len(d) : d[i] = m[i]) <=> \A i \in 1..Len(d) : d[i] = t[k + i]
    BY <2>8
  <2> QED
    BY <2>3, <2>4, <2>5, <2>6, <2>7, <2>9, <2>10
<1>2. \A n \in Len(d)..Len(s) : n \in 0..Len(s) /\ n >= Len(d)
  BY <1>0
<1>3. \A n \in 0..Len(s) : n >= Len(d) => n \in Len(d)..Len(s)
  BY <1>0
<1> QED
  BY <1>1, <1>2, <1>3 DEF Ends

LEMMA StopIs ==
  ASSUME NEW s \in Seq(Byte)
  PROVE  LET stop == SelectInSeq(s, LAMBDA b : ~Continued(b))
         IN  \/ stop = 0 /\ Unended(s)
             \/ /\ stop \in 1..Len(s) /\ ~Continued(s[stop])
                /\ \A i \in 1..(stop - 1) : Continued(s[i])
<1> DEFINE I == {i \in 1..Len(s) : ~Continued(s[i])}
<1>1. SelectInSeq(s, LAMBDA b : ~Continued(b)) = IF I # {} THEN Min(I) ELSE 0
  BY DEF SelectInSeq
<1>2. CASE I = {}
  BY <1>1, <1>2 DEF Unended
<1>3. CASE I # {}
  <2>1. I \subseteq Nat /\ Len(s) \in Nat
    BY LenProperties
  <2>2. Min(I) \in I /\ \A n \in I : Min(I) <= n
    BY <1>3, <2>1, MinIs
  <2>3. \A i \in 1..(Min(I) - 1) : i \in 1..Len(s) /\ ~(Min(I) <= i)
    BY <2>1, <2>2
  <2>4. \A i \in 1..(Min(I) - 1) : Continued(s[i])
    BY <2>2, <2>3
  <2> QED
    BY <1>1, <1>3, <2>2, <2>4
<1> QED
  BY <1>2, <1>3

----------------------------------------------------------------------------
(* What the frames of a stream are, by the protocol.                         *)

Frame(n, h, t) == [len |-> n, head |-> h, tail |-> t]

LEMMA ConfigType ==
  ASSUME cfg \in Configs
  PROVE  /\ cfg.proto \in {"none", "any", "fixed", "delim", "prefix", "var"}
         /\ cfg.size \in Nat \ {0} /\ cfg.width \in Nat /\ cfg.delim \in Seq(Byte)
         /\ cfg.keep \in BOOLEAN /\ cfg.ignore \in BOOLEAN
         /\ cfg.little \in BOOLEAN /\ cfg.incl \in BOOLEAN
         /\ cfg.proto = "prefix" => cfg.width \in 1..Word
         /\ Word \in Nat \ {0} /\ MaxBytes \in Nat
  BY FramingAssumption DEF FramingAssumption, Config

LEMMA FramesWhole ==
  ASSUME cfg \in Configs, Whole, NEW s \in Seq(Byte)
  PROVE  /\ \A n \in 1..Len(s) : n <= cfg.size => Frame(n, 0, 0) \in Frames(cfg, s)
         /\ s = <<>> => Frames(cfg, s) = {}
<1> DEFINE F == [len : 0..Len(s), head : 0..Len(s), tail : 0..Len(cfg.delim)]
<1>0. Len(s) \in Nat /\ Len(cfg.delim) \in Nat /\ cfg.size \in Nat
  BY ConfigType, LenProperties
<1>1. Frames(cfg, s) = {f \in F : f.len \in 1..cfg.size /\ f.head = 0 /\ f.tail = 0}
  BY DEF Frames, Whole
<1>2. ASSUME NEW n \in 1..Len(s), n <= cfg.size PROVE Frame(n, 0, 0) \in Frames(cfg, s)
  <2>1. Frame(n, 0, 0) \in F /\ n \in 1..cfg.size
    BY <1>0, <1>2 DEF Frame
  <2> QED
    BY <1>1, <2>1 DEF Frame
<1>3. ASSUME s = <<>>, NEW f \in Frames(cfg, s) PROVE FALSE
  <2>1. Len(s) = 0
    BY <1>3, EmptySeq
  <2>2. f.len \in 0..Len(s) /\ f.len \in 1..cfg.size
    BY <1>1, <1>3
  <2> QED
    BY <1>0, <2>1, <2>2
<1> QED
  BY <1>2, <1>3

LEMMA FramesFixed ==
  ASSUME cfg \in Configs, cfg.proto = "fixed", NEW s \in Seq(Byte)
  PROVE  /\ cfg.size <= Len(s) => Frame(cfg.size, 0, 0) \in Frames(cfg, s)
         /\ \A f \in Frames(cfg, s) : f.len = cfg.size /\ f.len <= Len(s)
<1> DEFINE F == [len : 0..Len(s), head : 0..Len(s), tail : 0..Len(cfg.delim)]
<1>0. Len(s) \in Nat /\ Len(cfg.delim) \in Nat /\ cfg.size \in Nat
  BY ConfigType, LenProperties
<1>1. Frames(cfg, s) = {f \in F : f.len = cfg.size /\ f.head = 0 /\ f.tail = 0}
  BY DEF Frames
<1>2. ASSUME cfg.size <= Len(s) PROVE Frame(cfg.size, 0, 0) \in Frames(cfg, s)
  <2>1. Frame(cfg.size, 0, 0) \in F
    BY <1>0, <1>2 DEF Frame
  <2> QED
    BY <1>1, <2>1 DEF Frame
<1>3. ASSUME NEW f \in Frames(cfg, s) PROVE f.len = cfg.size /\ f.len <= Len(s)
  <2>1. f.len \in 0..Len(s) /\ f.len = cfg.size
    BY <1>1, <1>3
  <2> QED
    BY <1>0, <2>1
<1> QED
  BY <1>2, <1>3

LEMMA FramesDelim ==
  ASSUME cfg \in Configs, Delimits, NEW s \in Seq(Byte)
  PROVE  /\ \A n \in Ends(cfg.delim, s) :
              n <= cfg.size /\ (\A m \in Ends(cfg.delim, s) : n <= m) =>
                Frame(n, 0, Len(cfg.delim)) \in Frames(cfg, s)
         /\ \A f \in Frames(cfg, s) : f.len \in Ends(cfg.delim, s) /\ f.len <= cfg.size
<1> DEFINE F == [len : 0..Len(s), head : 0..Len(s), tail : 0..Len(cfg.delim)]
           E == Ends(cfg.delim, s)
<1>0. Len(s) \in Nat /\ Len(cfg.delim) \in Nat /\ cfg.size \in Nat /\ cfg.delim \in Seq(Byte)
  BY ConfigType, LenProperties
<1>1. Frames(cfg, s) = {f \in F : /\ f.len <= cfg.size /\ f.head = 0 /\ f.tail = Len(cfg.delim)
                                  /\ IsSuffix(cfg.delim, Take(s, f.len))
                                  /\ \A n \in 0..(f.len - 1) : ~IsSuffix(cfg.delim, Take(s, n))}
  BY DEF Frames, Delimits
<1>2. E = {n \in 0..Len(s) : IsSuffix(cfg.delim, Take(s, n))}
  BY <1>0, EndsIs
<1> HIDE DEF E
<1>3. ASSUME NEW n \in E, n <= cfg.size, \A m \in E : n <= m
      PROVE  Frame(n, 0, Len(cfg.delim)) \in Frames(cfg, s)
  <2>1. n \in 0..Len(s) /\ IsSuffix(cfg.delim, Take(s, n))
    BY <1>2
  <2>2. Frame(n, 0, Len(cfg.delim)) \in F
    BY <1>0, <2>1 DEF Frame
  <2>3. ASSUME NEW m \in 0..(n - 1) PROVE ~IsSuffix(cfg.delim, Take(s, m))
    <3>1. m \in 0..Len(s) /\ ~(n <= m)
      BY <1>0, <2>1
    <3> QED
      BY <1>2, <1>3, <3>1
  <2> QED
    BY <1>1, <1>3, <2>1, <2>2, <2>3 DEF Frame
<1>4. \A f \in Frames(cfg, s) : f.len \in E /\ f.len <= cfg.size
  BY <1>1, <1>2
<1> QED
  BY <1>3, <1>4 DEF E

LEMMA FramesPrefixed ==
  ASSUME cfg \in Configs, Prefixed, NEW s \in Seq(Byte)
  PROVE  /\ \A h \in 0..Len(s) : \A n \in h..Len(s) :
              n <= cfg.size /\ SaysSo(cfg, Take(s, h), h, n) => Frame(n, h, 0) \in Frames(cfg, s)
         /\ \A f \in Frames(cfg, s) :
              /\ f.len <= cfg.size /\ f.len \in 0..Len(s) /\ f.head \in 0..f.len
              /\ SaysSo(cfg, Take(s, f.head), f.head, f.len)
<1> DEFINE F == [len : 0..Len(s), head : 0..Len(s), tail : 0..Len(cfg.delim)]
<1>0. Len(s) \in Nat /\ Len(cfg.delim) \in Nat /\ cfg.size \in Nat
  BY ConfigType, LenProperties
<1>1. Frames(cfg, s) = {f \in F : /\ f.len <= cfg.size /\ f.tail = 0 /\ f.head <= f.len
                                  /\ SaysSo(cfg, Take(s, f.head), f.head, f.len)}
  BY DEF Frames, Prefixed
<1>2. ASSUME NEW h \in 0..Len(s), NEW n \in h..Len(s), n <= cfg.size,
             SaysSo(cfg, Take(s, h), h, n)
      PROVE  Frame(n, h, 0) \in Frames(cfg, s)
  <2>1. Frame(n, h, 0) \in F /\ h <= n
    BY <1>0 DEF Frame
  <2> QED
    BY <1>1, <1>2, <2>1 DEF Frame
<1>3. ASSUME NEW f \in Frames(cfg, s)
      PROVE  /\ f.len <= cfg.size /\ f.len \in 0..Len(s) /\ f.head \in 0..f.len
             /\ SaysSo(cfg, Take(s, f.head), f.head, f.len)
  <2>1. /\ f.len \in 0..Len(s) /\ f.head \in 0..Len(s) /\ f.head <= f.len /\ f.len <= cfg.size
        /\ SaysSo(cfg, Take(s, f.head), f.head, f.len)
    BY <1>1
  <2>2. f.head \in 0..f.len
    BY <1>0, <2>1
  <2> QED
    BY <2>1, <2>2
<1> QED
  BY <1>2, <1>3

(* The prefix ends in one place only.                                        *)
Stops(s, h) == h \in 1..Len(s) /\ ~Continued(s[h]) /\ \A i \in 1..(h - 1) : Continued(s[i])

LEMMA HeadIs ==
  ASSUME cfg \in Configs, Prefixed, NEW s \in Seq(Byte), NEW h \in 0..Len(s), NEW n
  PROVE  SaysSo(cfg, Take(s, h), h, n) <=>
           /\ IF cfg.proto = "prefix" THEN h = cfg.width ELSE Stops(s, h) /\ h <= Word + 1
           /\ Number(cfg, Take(s, h)) = IF cfg.incl THEN n ELSE n - h
<1>0. Len(s) \in Nat
  BY LenProperties
<1>1. \A i \in 1..h : Take(s, h)[i] = s[i]
  BY TakeType
<1>2. cfg.proto = "var" =>
        ((h >= 1 /\ ~Continued(Take(s, h)[h]) /\ \A i \in 1..(h - 1) : Continued(Take(s, h)[i]))
           <=> Stops(s, h))
  <2>1. h >= 1 <=> h \in 1..Len(s)
    BY <1>0
  <2>2. h >= 1 => h \in 1..h
    BY <1>0
  <2>3. \A i \in 1..(h - 1) : i \in 1..h
    BY <1>0
  <2> QED
    BY <1>1, <2>1, <2>2, <2>3 DEF Stops
<1> QED
  BY <1>2 DEF SaysSo, Prefixed

LEMMA StopsOnce ==
  ASSUME NEW s, NEW h, NEW k, Stops(s, h), Stops(s, k), Len(s) \in Nat
  PROVE  h = k
<1>1. h \in Nat /\ k \in Nat /\ h \in 1..Len(s) /\ k \in 1..Len(s)
  BY DEF Stops
<1>2. h < k => h \in 1..(k - 1)
  BY <1>1
<1>3. k < h => k \in 1..(h - 1)
  BY <1>1
<1> QED
  BY <1>1, <1>2, <1>3 DEF Stops

----------------------------------------------------------------------------
(* What the handler sees when a packet is delivered.                         *)

LEMMA DeliverIs ==
  ASSUME TypeOK, NEW i \in Seq(Byte), NEW n \in 0..Len(i), NEW skip \in Nat,
         view.len <= Len(external), Deliver(external, i, n, skip)
  PROVE  /\ external' \in Seq(Byte) /\ internal' \in Seq(Byte) /\ internal' = Rest(i, n)
         /\ view' \in [at : Nat, len : Nat] /\ pc' = "handler" /\ post' = skip
         /\ SubSeq(external', view'.at + 1, view'.at + view'.len)
              = Rest(external, view.len) \o Take(i, n)
<1>0. /\ external \in Seq(Byte) /\ Len(external) \in Nat /\ Len(i) \in Nat
      /\ view.len \in Nat /\ n \in Nat /\ view.len \in 0..Len(external)
  BY LenProperties DEF TypeOK
<1>1. Least(n, Len(i)) = n
  BY <1>0 DEF Least
<1>2. /\ external' = external \o Take(i, n) /\ internal' = Rest(i, n)
      /\ view' = [at |-> view.len, len |-> Len(external') - view.len]
      /\ pc' = "handler" /\ post' = skip
  BY <1>1 DEF Deliver, NewSegment
<1>3. Take(i, n) \in Seq(Byte) /\ Rest(i, n) \in Seq(Byte) /\ Len(Take(i, n)) = n
  BY TakeType, RestType
<1>4. external' \in Seq(Byte) /\ Len(external') = Len(external) + n
  BY <1>0, <1>2, <1>3, ConcatProperties
<1>5. view' \in [at : Nat, len : Nat] /\ view'.at = view.len /\ view'.at + view'.len = Len(external')
  BY <1>0, <1>2, <1>4
<1>6. Rest(external', view.len) = Rest(external, view.len) \o Take(i, n)
  BY <1>0, <1>2, <1>3, RestContinued
<1> QED
  BY <1>2, <1>3, <1>4, <1>5, <1>6 DEF Rest

LEMMA RestMarked ==
  ASSUME NEW e \in Seq(Byte)
  PROVE  Marked(e).len <= Len(e) /\ Marked(e).at = 0 /\ Rest(e, Marked(e).len) = <<>>
<1>1. Len(e) \in Nat /\ Rest(e, Len(e)) = <<>>
  BY LenProperties, RestBeyond
<1> QED
  BY <1>1 DEF Marked

(* Bytes as they come.                                                       *)
LEMMA PacketWhole ==
  ASSUME TypeOK, Whole, cfg' = cfg, taken' \in Seq(Byte), view = Marked(external),
         NEW n \in 1..Len(taken'), n <= cfg.size, Deliver(external, taken', n, 0)
  PROVE  PacketExact'
<1>0. external \in Seq(Byte) /\ cfg \in Configs /\ Len(taken') \in Nat /\ n \in 0..Len(taken')
  BY LenProperties DEF TypeOK
<1>1. view.len <= Len(external) /\ Rest(external, view.len) = <<>>
  BY <1>0, RestMarked
<1>2. /\ internal' \in Seq(Byte) /\ internal' = Rest(taken', n) /\ post' = 0
      /\ SubSeq(external', view'.at + 1, view'.at + view'.len) = <<>> \o Take(taken', n)
  BY <1>0, <1>1, DeliverIs
<1>3. <<>> \o Take(taken', n) = Take(taken', n)
  BY <1>0, TakeType, ConcatEmptySeq
<1>4. Frame(n, 0, 0) \in Frames(cfg, taken')
  BY <1>0, FramesWhole
<1>5. Payload(cfg, taken', Frame(n, 0, 0)) = Take(taken', n)
  BY <1>0, n - 0 = n, 0 + 1 = 1 DEF Payload, Frame, Take
<1>6. Rest(internal', post') = Rest(taken', Frame(n, 0, 0).len)
  BY <1>2, RestAll DEF Frame
<1> QED
  BY <1>2, <1>3, <1>4, <1>5, <1>6 DEF PacketExact

(* Up to the delimiter.                                                      *)
LEMMA PacketDelim ==
  ASSUME TypeOK, Delimits, cfg' = cfg, taken' \in Seq(Byte), view = Marked(external),
         NEW n \in Ends(cfg.delim, taken'), n <= cfg.size,
         \A m \in Ends(cfg.delim, taken') : n <= m,
         NEW skip, skip = IF cfg.ignore THEN Len(cfg.delim) ELSE 0,
         Deliver(external, taken', n - skip, skip)
  PROVE  PacketExact'
<1> DEFINE k == Len(cfg.delim)
           f == Frame(n, 0, k)
<1>0. /\ external \in Seq(Byte) /\ cfg \in Configs /\ Len(taken') \in Nat
      /\ k \in Nat /\ cfg.ignore \in BOOLEAN
  BY ConfigType, LenProperties DEF TypeOK
<1>1. n \in k..Len(taken') /\ n \in 0..Len(taken') /\ n \in Nat
  BY <1>0 DEF Ends
<1>2. /\ skip \in 0..k /\ skip \in Nat /\ n - skip \in 0..Len(taken') /\ (n - skip) + skip = n
      /\ skip \in 0..(Len(taken') - (n - skip))
  BY <1>0, <1>1
<1>3. view.len <= Len(external) /\ Rest(external, view.len) = <<>>
  BY <1>0, RestMarked
<1>4. /\ internal' = Rest(taken', n - skip) /\ post' = skip
      /\ SubSeq(external', view'.at + 1, view'.at + view'.len) = <<>> \o Take(taken', n - skip)
  BY <1>0, <1>2, <1>3, DeliverIs
<1>5. <<>> \o Take(taken', n - skip) = Take(taken', n - skip)
  BY <1>2, TakeType, ConcatEmptySeq
<1>6. f \in Frames(cfg, taken')
  BY <1>0, FramesDelim
<1>7. Payload(cfg, taken', f) = Take(taken', n - skip)
  BY <1>0, <1>1, n - 0 = n, 0 + 1 = 1 DEF Payload, Frame, Take
<1>8. Rest(internal', post') = Rest(taken', f.len)
  <2>1. Rest(Rest(taken', n - skip), skip) = Rest(taken', (n - skip) + skip)
    BY <1>2, RestOfRest
  <2> QED
    BY <1>2, <1>4, <2>1 DEF Frame
<1> QED
  BY <1>4, <1>5, <1>6, <1>7, <1>8 DEF PacketExact

(* A number of bytes known beforehand, from the settings or from a prefix of *)
(* h bytes.                                                                  *)
LEMMA PacketFixed ==
  ASSUME TypeOK, cfg' = cfg, taken' \in Seq(Byte), view.len <= Len(external),
         NEW h \in 0..Len(taken'), NEW n \in 0..(Len(taken') - h),
         Frame(h + n, h, 0) \in Frames(cfg, taken'),
         Rest(external, view.len) = IF cfg.ignore THEN <<>> ELSE Take(taken', h),
         Deliver(external, Rest(taken', h), n, 0)
  PROVE  PacketExact'
<1> DEFINE f == Frame(h + n, h, 0)
<1>0. cfg \in Configs /\ Len(taken') \in Nat /\ cfg.ignore \in BOOLEAN /\ h + n \in 0..Len(taken')
  BY ConfigType, LenProperties DEF TypeOK
<1>1. Rest(taken', h) \in Seq(Byte) /\ n \in 0..Len(Rest(taken', h))
  BY <1>0, RestType
<1>2. /\ internal' = Rest(Rest(taken', h), n) /\ internal' \in Seq(Byte) /\ post' = 0
      /\ SubSeq(external', view'.at + 1, view'.at + view'.len)
           = Rest(external, view.len) \o Take(Rest(taken', h), n)
  BY <1>1, DeliverIs
<1>3. Rest(internal', post') = Rest(taken', f.len)
  <2>1. Rest(Rest(taken', h), n) = Rest(taken', h + n)
    BY RestOfRest
  <2> QED
    BY <1>2, <2>1, RestAll DEF Frame
<1>4. /\ SubSeq(taken', h + 1, h + n) = Take(Rest(taken', h), n)
      /\ Take(taken', h) \o Take(Rest(taken', h), n) = Take(taken', h + n)
  BY Middle
<1>5. <<>> \o Take(Rest(taken', h), n) = Take(Rest(taken', h), n)
  BY <1>1, TakeType, ConcatEmptySeq
<1>6. Payload(cfg, taken', f) = IF cfg.ignore THEN SubSeq(taken', h + 1, h + n)
                                              ELSE Take(taken', h + n)
  BY <1>0, (h + n) - 0 = h + n DEF Payload, Frame
<1>7. Rest(external, view.len) \o Take(Rest(taken', h), n) = Payload(cfg, taken', f)
  BY <1>4, <1>5, <1>6
<1> QED
  BY <1>2, <1>3, <1>7 DEF PacketExact

----------------------------------------------------------------------------
(* The actions.  Each keeps the invariant; one that calls the handler hands  *)
(* it a packet, one that fails had no packet left to find.                   *)

LEMMA InitInv == Init => FramingInv
<1> SUFFICES ASSUME Init PROVE FramingInv
  OBVIOUS
<1>1. <<>> \in Seq(Byte) /\ <<>> \in Seq(Byte \cup {Junk}) /\ MaxBytes \in Nat
  BY FramingAssumption DEF FramingAssumption
<1>2. TypeOK
  BY <1>1 DEF Init, TypeOK, Labels
<1>3. StreamOK /\ RequestOK
  BY <1>1 DEF Init, StreamOK, RequestOK
<1> QED
  BY <1>2, <1>3 DEF FramingInv

LEMMA HandlerInv ==
  ASSUME cfg' \in Configs, external' \in Seq(Byte), internal' \in Seq(Byte),
         output' \in Seq(Byte \cup {Junk}), view' \in [at : Nat, len : Nat],
         pc' \in {"handler", "return", "idle", "failed", "eof"},
         arg' \in Nat, need' \in Nat, post' \in Nat,
         total' \in 0..MaxBytes, taken' \in Seq(Byte)
  PROVE  FramingInv'
<1>1. taken' \in Seq(Byte \cup {Junk})
  BY SeqMonotonic, Byte \subseteq Byte \cup {Junk}
<1>2. TypeOK'
  BY <1>1 DEF TypeOK, Labels
<1>3. StreamOK' /\ RequestOK'
  BY DEF StreamOK, RequestOK
<1> QED
  BY <1>2, <1>3 DEF FramingInv

LEMMA ForeverLost == ErrorFinal => ErrorJustified
<1>1. \A n \in 0..2 : \A more \in [1..n -> Byte] : more \in Seq(Byte)
  BY FunctionIsSeq
<1> QED
  BY <1>1 DEF ErrorFinal, ErrorJustified

LEMMA ReceivedType ==
  ASSUME FramingInv, NEW n \in Nat, NEW s \in [1..n -> Byte], Received(s)
  PROVE  /\ s \in Seq(Byte) /\ Len(s) = n /\ total' \in 0..MaxBytes
         /\ taken' = taken \o s /\ taken' \in Seq(Byte) /\ Len(taken') = Len(taken) + n
<1>1. s \in Seq(Byte) /\ Len(s) = n
  BY FunctionIsSeq
<1>2. total \in Nat /\ MaxBytes \in Nat /\ taken \in Seq(Byte)
  BY FramingAssumption DEF FramingInv, TypeOK, StreamOK, FramingAssumption
<1>3. total + n <= MaxBytes /\ total' = total + n /\ taken' = taken \o s
  BY <1>1 DEF Received
<1>4. taken \o s \in Seq(Byte) /\ Len(taken \o s) = Len(taken) + n
  BY <1>1, <1>2, ConcatProperties
<1> QED
  BY <1>1, <1>2, <1>3, <1>4

LEMMA ReadInv == FramingInv /\ Read => FramingInv'
<1> SUFFICES ASSUME FramingInv, Read PROVE FramingInv'
  OBVIOUS
<1>0. /\ cfg \in Configs /\ external \in Seq(Byte) /\ internal \in Seq(Byte)
      /\ output \in Seq(Byte \cup {Junk}) /\ need \in Nat /\ post \in Nat
      /\ total \in 0..MaxBytes /\ taken \in Seq(Byte) /\ taken \in Seq(Byte \cup {Junk})
      /\ pc = "read" /\ internal = taken
  BY DEF FramingInv, TypeOK, StreamOK, Read
<1>1. cfg' = cfg /\ internal' = internal /\ output' = output /\ need' = need /\ post' = post
      /\ total' = total /\ taken' = taken /\ view' = Marked(external')
  BY DEF Read
<1>2. external' \in Seq(Byte)
  BY <1>0, EmptySeq DEF Read
<1>3. view'.at = 0 /\ view'.len <= Len(external') /\ Rest(external', view'.len) = <<>>
      /\ view' \in [at : Nat, len : Nat]
  <2>1. Len(external') \in Nat
    BY <1>2, LenProperties
  <2> QED
    BY <1>1, <1>2, <2>1, RestMarked DEF Marked
<1>4. /\ cfg.size \in Nat \ {0} /\ cfg.width \in Nat
      /\ cfg.proto \in {"none", "any", "fixed", "delim", "prefix", "var"}
  BY <1>0, ConfigType
<1>5. \/ cfg.proto = "none" /\ pc' = "idle" /\ arg' = 0
      \/ Whole /\ pc' = "some" /\ arg' = cfg.size
      \/ cfg.proto = "fixed" /\ pc' = "fixed" /\ arg' = cfg.size
      \/ Delimits /\ pc' = "delim" /\ arg' = cfg.size
      \/ cfg.proto = "prefix" /\ pc' = "prefix" /\ arg' = cfg.width
      \/ cfg.proto = "var" /\ pc' = "prefix" /\ arg' = 0
  BY <1>4 DEF Read, Whole, Delimits
<1>6. TypeOK'
  BY <1>0, <1>1, <1>2, <1>3, <1>4, <1>5 DEF TypeOK, Labels
<1>7. RequestOK'
  BY <1>1, <1>5 DEF RequestOK, Whole, Delimits
<1>8. pc' = "fixed" => \E h \in 0..Len(taken) : Cut(h)'
  <2> SUFFICES ASSUME pc' = "fixed" PROVE Cut(0)' /\ 0 \in 0..Len(taken)
    BY <1>1
  <2>1. cfg.proto = "fixed" /\ arg' = cfg.size
    BY <1>5
  <2>2. Rest(taken, 0) = taken /\ Take(taken, 0) = <<>> /\ Len(taken) \in Nat
    BY <1>0, RestAll, TakeNone, LenProperties
  <2>3. 0 + arg' <= cfg.size
    BY <1>4, <2>1
  <2> QED
    BY <1>0, <1>1, <1>3, <2>1, <2>2, <2>3 DEF Cut
<1>9. StreamOK'
  BY <1>0, <1>1, <1>5, <1>8 DEF StreamOK
<1> QED
  BY <1>6, <1>7, <1>9 DEF FramingInv

LEMMA ReadSomeInv ==
  ASSUME FramingInv, ReadSome
  PROVE  FramingInv' /\ (pc' = "handler" => PacketExact')
<1>0. /\ TypeOK /\ cfg \in Configs /\ external \in Seq(Byte) /\ internal \in Seq(Byte)
      /\ output \in Seq(Byte \cup {Junk}) /\ view \in [at : Nat, len : Nat]
      /\ arg \in Nat /\ need \in Nat /\ post \in Nat
      /\ total \in 0..MaxBytes /\ taken \in Seq(Byte) /\ taken \in Seq(Byte \cup {Junk})
  BY DEF FramingInv, TypeOK, StreamOK
<1>1. pc = "some" /\ internal = taken /\ view = Marked(external) /\ Whole /\ arg = cfg.size
  BY DEF FramingInv, StreamOK, RequestOK, ReadSome
<1>2. cfg' = cfg /\ arg' = arg /\ total' = total /\ taken' = taken
  BY DEF ReadSome
<1>3. cfg.size \in Nat \ {0} /\ Len(internal) \in Nat /\ (internal # <<>> => Len(internal) >= 1)
  BY <1>0, ConfigType, LenProperties, EmptySeq
<1>4. CASE internal # <<>>
  <2>1. Deliver(external, internal, arg, 0) /\ output' = output /\ need' = need
    BY <1>4 DEF ReadSome
  <2> DEFINE n == Least(arg, Len(internal))
  <2>2. n \in 1..Len(internal) /\ n <= cfg.size /\ n \in 0..Len(internal)
    BY <1>1, <1>3, <1>4 DEF Least
  <2>3. Deliver(external, internal, n, 0)
    <3>1. Least(n, Len(internal)) = n
      BY <2>2 DEF Least
    <3> QED
      BY <2>1, <3>1 DEF Deliver
  <2> HIDE DEF n
  <2>4. PacketExact'
    BY <1>0, <1>1, <1>2, <2>2, <2>3, PacketWhole
  <2>5. view.len <= Len(external)
    BY <1>0, <1>1, RestMarked
  <2>6. /\ external' \in Seq(Byte) /\ internal' \in Seq(Byte)
        /\ view' \in [at : Nat, len : Nat] /\ pc' = "handler" /\ post' = 0
    BY <1>0, <2>2, <2>3, <2>5, DeliverIs
  <2>7. FramingInv'
    BY <1>0, <1>2, <2>1, <2>6, HandlerInv
  <2> QED
    BY <2>4, <2>7
<1>5. CASE internal = <<>>
  <2>1. /\ pc' = "wait_some" /\ need' = arg /\ output' = Prepared(arg)
        /\ external' = external /\ internal' = internal /\ view' = view /\ post' = post
    BY <1>5 DEF ReadSome, Await
  <2>2. output' \in Seq(Byte \cup {Junk})
    BY <1>0, <2>1, PreparedType
  <2>3. TypeOK'
    BY <1>0, <1>2, <2>1, <2>2 DEF TypeOK, Labels
  <2>4. StreamOK'
    BY <1>0, <1>1, <1>2, <2>1 DEF StreamOK
  <2>5. RequestOK'
    BY <1>1, <1>2, <1>5, <2>1 DEF RequestOK, Whole
  <2> QED
    BY <2>1, <2>3, <2>4, <2>5 DEF FramingInv
<1> QED
  BY <1>4, <1>5

LEMMA SomeDoneInv ==
  ASSUME FramingInv, SomeDone
  PROVE  FramingInv' /\ PacketExact'
<1>0. /\ TypeOK /\ cfg \in Configs /\ external \in Seq(Byte)
      /\ output \in Seq(Byte \cup {Junk}) /\ arg \in Nat /\ need \in Nat
  BY DEF FramingInv, TypeOK
<1>1. /\ internal = <<>> /\ internal = taken /\ view = Marked(external)
      /\ Whole /\ need = cfg.size
  BY DEF FramingInv, StreamOK, RequestOK, SomeDone
<1>2. PICK n \in 1..need : \E s \in [1..n -> Byte] :
        /\ Received(s) /\ Deliver(external, internal \o s, Len(internal) + n, 0)
        /\ output' = Rest(output, n)
  BY DEF SomeDone
<1>3. PICK s \in [1..n -> Byte] :
        /\ Received(s) /\ Deliver(external, internal \o s, Len(internal) + n, 0)
        /\ output' = Rest(output, n)
  BY <1>2
<1>4. cfg' = cfg /\ arg' = arg /\ need' = need /\ n \in Nat
  BY DEF SomeDone
<1>5. /\ s \in Seq(Byte) /\ Len(s) = n /\ total' \in 0..MaxBytes
      /\ taken' = taken \o s /\ taken' \in Seq(Byte)
  BY <1>3, <1>4, ReceivedType
<1>6. taken' = s /\ internal \o s = s
  BY <1>1, <1>5, ConcatEmptySeq
<1>7. Len(internal) + n = n
  BY <1>1, <1>4, EmptySeq
<1>8. n \in 1..Len(taken') /\ n \in 0..Len(taken') /\ n <= cfg.size
  BY <1>0, <1>1, <1>4, <1>5, <1>6
<1>9. Deliver(external, taken', n, 0)
  BY <1>3, <1>6, <1>7
<1>10. PacketExact'
  BY <1>0, <1>1, <1>4, <1>5, <1>8, <1>9, PacketWhole
<1>11. view.len <= Len(external)
  BY <1>0, <1>1, RestMarked
<1>12. /\ external' \in Seq(Byte) /\ internal' \in Seq(Byte)
       /\ view' \in [at : Nat, len : Nat] /\ pc' = "handler" /\ post' = 0
  BY <1>0, <1>5, <1>8, <1>9, <1>11, DeliverIs
<1>13. output' \in Seq(Byte \cup {Junk})
  BY <1>0, <1>3, <1>4, RestTyped
<1>14. FramingInv'
  BY <1>0, <1>4, <1>5, <1>12, <1>13, HandlerInv
<1> QED
  BY <1>10, <1>14

(* The frame that a prefix of h bytes announces.                             *)
LEMMA CutFrame ==
  ASSUME cfg \in Configs, NEW s \in Seq(Byte), NEW h \in 0..Len(s), NEW n \in 0..(Len(s) - h),
         \/ cfg.proto = "fixed" /\ h = 0 /\ n = cfg.size
         \/ Prefixed /\ SaysSo(cfg, Take(s, h), h, h + n),
         h + n <= cfg.size
  PROVE  Frame(h + n, h, 0) \in Frames(cfg, s)
<1>0. Len(s) \in Nat
  BY LenProperties
<1>1. CASE cfg.proto = "fixed" /\ h = 0 /\ n = cfg.size
  <2>1. h + n = cfg.size /\ cfg.size <= Len(s)
    BY <1>0, <1>1
  <2> QED
    BY <1>1, <2>1, FramesFixed
<1>2. CASE Prefixed /\ SaysSo(cfg, Take(s, h), h, h + n)
  <2>1. h + n \in h..Len(s)
    BY <1>0
  <2> QED
    BY <1>2, <2>1, FramesPrefixed
<1> QED
  BY <1>1, <1>2

LEMMA ReadFixedInv ==
  ASSUME FramingInv, ReadFixed
  PROVE  FramingInv' /\ (pc' = "handler" /\ Narrow => PacketExact')
<1>0. /\ TypeOK /\ cfg \in Configs /\ external \in Seq(Byte) /\ internal \in Seq(Byte)
      /\ output \in Seq(Byte \cup {Junk}) /\ view \in [at : Nat, len : Nat]
      /\ arg \in Nat /\ need \in Nat /\ post \in Nat
      /\ total \in 0..MaxBytes /\ taken \in Seq(Byte) /\ taken \in Seq(Byte \cup {Junk})
      /\ Len(internal) \in Nat /\ Len(taken) \in Nat
  BY LenProperties DEF FramingInv, TypeOK, StreamOK
<1>1. PICK h \in 0..Len(taken) : Cut(h)
  BY DEF FramingInv, StreamOK, ReadFixed
<1>2. cfg' = cfg /\ arg' = arg /\ total' = total /\ taken' = taken
  BY DEF ReadFixed
<1>3. /\ internal = Rest(taken, h) /\ Len(internal) = Len(taken) - h
      /\ view.len <= Len(external)
      /\ Rest(external, view.len) = IF cfg.ignore THEN <<>> ELSE Take(taken, h)
  BY <1>0, <1>1, RestType DEF Cut
<1>4. CASE Len(internal) >= arg
  <2>1. Deliver(external, internal, arg, 0) /\ output' = output /\ need' = need
    BY <1>0, <1>4 DEF ReadFixed
  <2>2. arg \in 0..Len(internal) /\ arg \in 0..(Len(taken) - h)
    BY <1>0, <1>3, <1>4
  <2>3. /\ external' \in Seq(Byte) /\ internal' \in Seq(Byte)
        /\ view' \in [at : Nat, len : Nat] /\ pc' = "handler" /\ post' = 0
    BY <1>0, <1>3, <2>1, <2>2, DeliverIs
  <2>4. FramingInv'
    BY <1>0, <1>2, <2>1, <2>3, HandlerInv
  <2>5. ASSUME Narrow PROVE PacketExact'
    <3>1. Frame(h + arg, h, 0) \in Frames(cfg, taken)
      BY <1>0, <1>1, <2>2, <2>5, CutFrame DEF Cut
    <3> QED
      BY <1>0, <1>2, <1>3, <2>1, <2>2, <3>1, PacketFixed
  <2> QED
    BY <2>4, <2>5
<1>5. CASE Len(internal) < arg
  <2>1. /\ pc' = "wait_fixed" /\ need' = arg - Len(internal)
        /\ output' = Prepared(arg - Len(internal))
        /\ external' = external /\ internal' = internal /\ view' = view /\ post' = post
    BY <1>0, <1>5 DEF ReadFixed, Await
  <2>2. arg - Len(internal) \in Nat
    BY <1>0, <1>5
  <2>3. output' \in Seq(Byte \cup {Junk})
    BY <2>1, <2>2, PreparedType
  <2>4. TypeOK'
    BY <1>0, <1>2, <2>1, <2>2, <2>3 DEF TypeOK, Labels
  <2>5. Cut(h)'
    BY <1>1, <1>2, <2>1 DEF Cut, Prefixed
  <2>6. StreamOK'
    BY <1>0, <1>2, <2>1, <2>5 DEF StreamOK
  <2>7. RequestOK'
    BY <1>2, <1>5, <2>1 DEF RequestOK
  <2> QED
    BY <2>1, <2>4, <2>6, <2>7 DEF FramingInv
<1> QED
  BY <1>0, <1>4, <1>5

LEMMA FixedDoneInv ==
  ASSUME FramingInv, FixedDone
  PROVE  FramingInv' /\ (Narrow => PacketExact')
<1>0. /\ TypeOK /\ cfg \in Configs /\ external \in Seq(Byte) /\ internal \in Seq(Byte)
      /\ output \in Seq(Byte \cup {Junk}) /\ arg \in Nat /\ need \in Nat
      /\ taken \in Seq(Byte) /\ Len(internal) \in Nat /\ Len(taken) \in Nat
  BY LenProperties DEF FramingInv, TypeOK, StreamOK
<1>1. PICK h \in 0..Len(taken) : Cut(h)
  BY DEF FramingInv, StreamOK, FixedDone
<1>2. Len(internal) < arg /\ need = arg - Len(internal)
  BY DEF FramingInv, RequestOK, FixedDone
<1>3. PICK s \in [1..need -> Byte] :
        /\ Received(s) /\ Deliver(external, internal \o s, Len(internal) + need, 0)
        /\ output' = Rest(output, need)
  BY DEF FixedDone
<1>4. cfg' = cfg /\ arg' = arg /\ need' = need
  BY DEF FixedDone
<1>5. /\ s \in Seq(Byte) /\ Len(s) = need /\ total' \in 0..MaxBytes
      /\ taken' = taken \o s /\ taken' \in Seq(Byte) /\ Len(taken') = Len(taken) + need
  BY <1>0, <1>3, ReceivedType
<1>6. /\ internal = Rest(taken, h) /\ Len(internal) = Len(taken) - h
      /\ view.len <= Len(external)
      /\ Rest(external, view.len) = IF cfg.ignore THEN <<>> ELSE Take(taken, h)
  BY <1>0, <1>1, RestType DEF Cut
<1>7. internal \o s = Rest(taken', h) /\ Take(taken', h) = Take(taken, h)
  BY <1>0, <1>5, <1>6, RestContinued, TakeContinued
<1>8. h \in 0..Len(taken') /\ arg \in 0..(Len(taken') - h) /\ Len(internal) + need = arg
  BY <1>0, <1>2, <1>5, <1>6
<1>9. Deliver(external, Rest(taken', h), arg, 0)
  BY <1>3, <1>7, <1>8
<1>10. Rest(taken', h) \in Seq(Byte) /\ arg \in 0..Len(Rest(taken', h))
  BY <1>5, <1>8, RestType
<1>11. /\ external' \in Seq(Byte) /\ internal' \in Seq(Byte)
       /\ view' \in [at : Nat, len : Nat] /\ pc' = "handler" /\ post' = 0
  BY <1>0, <1>6, <1>9, <1>10, DeliverIs
<1>12. output' \in Seq(Byte \cup {Junk})
  BY <1>0, <1>3, RestTyped
<1>13. FramingInv'
  BY <1>0, <1>4, <1>5, <1>11, <1>12, HandlerInv
<1>14. ASSUME Narrow PROVE PacketExact'
  <2>1. Frame(h + arg, h, 0) \in Frames(cfg, taken')
    BY <1>0, <1>1, <1>5, <1>7, <1>8, <1>14, CutFrame DEF Cut
  <2> QED
    BY <1>0, <1>4, <1>5, <1>6, <1>7, <1>8, <1>9, <2>1, PacketFixed
<1> QED
  BY <1>13, <1>14

LEMMA EndsOfTake ==
  ASSUME NEW S, NEW d \in Seq(S), NEW s \in Seq(S), NEW m \in 0..Len(s)
  PROVE  Ends(d, Take(s, m)) = {n \in Ends(d, s) : n <= m}
<1>0. Len(s) \in Nat /\ Take(s, m) \in Seq(S) /\ Len(Take(s, m)) = m
  BY LenProperties, TakeType
<1>1. Ends(d, s) = {n \in 0..Len(s) : IsSuffix(d, Take(s, n))}
  BY EndsIs
<1>2. Ends(d, Take(s, m)) = {n \in 0..m : IsSuffix(d, Take(Take(s, m), n))}
  BY <1>0, EndsIs
<1>3. \A n \in 0..m : Take(Take(s, m), n) = Take(s, n)
  BY TakeOfTake
<1>4. \A n : n \in 0..m <=> n \in 0..Len(s) /\ n <= m
  BY <1>0
<1> QED
  BY <1>1, <1>2, <1>3, <1>4

(* The ends that a search of at most a bytes finds, and those it would find  *)
(* if the stream went on.                                                    *)
LEMMA EndsWithin ==
  ASSUME NEW d \in Seq(Byte), NEW s \in Seq(Byte), NEW a \in Nat
  PROVE  Ends(d, Take(s, Least(Len(s), a))) = {n \in Ends(d, s) : n <= a}
<1>0. Len(s) \in Nat /\ Len(d) \in Nat
  BY LenProperties
<1>1. PICK m \in 0..Len(s) : m = Least(Len(s), a) /\ m <= a /\ (m = a \/ m = Len(s))
  BY <1>0 DEF Least
<1>2. Ends(d, Take(s, m)) = {n \in Ends(d, s) : n <= m}
  BY EndsOfTake
<1>3. ASSUME NEW n \in Ends(d, s) PROVE n <= m <=> n <= a
  <2>1. n \in Nat /\ n <= Len(s)
    BY <1>0 DEF Ends
  <2> QED
    BY <1>0, <1>1, <2>1
<1> QED
  BY <1>1, <1>2, <1>3

LEMMA EndsContinued ==
  ASSUME NEW d \in Seq(Byte), NEW s \in Seq(Byte), NEW more \in Seq(Byte), NEW a \in Nat,
         a <= Len(s), NEW n \in Ends(d, s \o more), n <= a
  PROVE  n \in Ends(d, s)
<1>0. s \o more \in Seq(Byte) /\ Len(s) \in Nat /\ Len(s \o more) \in Nat
  BY ConcatProperties, LenProperties
<1>1. Ends(d, s) = {k \in 0..Len(s) : IsSuffix(d, Take(s, k))}
  BY EndsIs
<1>2. PICK u \in Seq(Byte) : u = s \o more
  BY <1>0
<1>3. Ends(d, u) = {k \in 0..Len(u) : IsSuffix(d, Take(u, k))}
  BY EndsIs
<1>4. n \in 0..Len(u) /\ IsSuffix(d, Take(u, n))
  BY <1>2, <1>3
<1>5. n \in 0..Len(s)
  BY <1>0, <1>4
<1>6. Take(u, n) = Take(s, n)
  BY <1>2, <1>5, TakeContinued
<1> QED
  BY <1>1, <1>4, <1>5, <1>6

LEMMA SearchInv ==
  ASSUME FramingInv, Delimits, arg = cfg.size, view = Marked(external),
         cfg' = cfg, arg' = arg, total' \in 0..MaxBytes, taken' \in Seq(Byte),
         NEW t \in Seq(Byte), taken' = internal \o t, Search(taken')
  PROVE  /\ FramingInv'
         /\ pc' = "handler" => PacketExact'
         /\ pc' = "failed" => ErrorFinal'
<1> DEFINE d == cfg.delim
           ends == Ends(d, Take(taken', Least(Len(taken'), arg)))
           skip == IF cfg.ignore THEN Len(d) ELSE 0
<1>0. /\ TypeOK /\ cfg \in Configs /\ external \in Seq(Byte) /\ internal \in Seq(Byte)
      /\ view \in [at : Nat, len : Nat] /\ arg \in Nat /\ need \in Nat /\ post \in Nat
  BY DEF FramingInv, TypeOK
<1>1. /\ d \in Seq(Byte) /\ Len(d) \in Nat /\ Len(taken') \in Nat /\ cfg.ignore \in BOOLEAN
      /\ skip \in Nat
  BY <1>0, ConfigType, LenProperties
<1>3. ends = {n \in Ends(d, taken') : n <= arg}
  <2>1. PICK s \in Seq(Byte) : s = taken'
    OBVIOUS
  <2>2. Ends(d, Take(s, Least(Len(s), arg))) = {n \in Ends(d, s) : n <= arg}
    BY <1>0, <1>1, EndsWithin
  <2> QED
    BY <2>1, <2>2
<1>4. Rest(taken', Len(internal)) = t
  BY <1>0, RestOfConcat
<1>5. /\ t \in Seq(Byte \cup {Junk}) /\ <<>> \in Seq(Byte \cup {Junk})
      /\ taken' \in Seq(Byte \cup {Junk})
  BY SeqMonotonic, Byte \subseteq Byte \cup {Junk}, EmptySeq
<1>6. CASE /\ ends # {} /\ Deliver(external, taken', Min(ends) - skip, skip)
           /\ output' = <<>> /\ need' = need
  <2> DEFINE n == Min(ends)
  <2>1. ends \subseteq Nat
    BY <1>1 DEF Ends
  <2>2. n \in ends /\ \A k \in ends : n <= k
    BY <1>6, <2>1, MinIs
  <2> HIDE DEF n, ends
  <2>3. n \in Ends(d, taken') /\ n <= arg /\ n \in Len(d)..Len(taken')
    BY <1>3, <2>2 DEF Ends
  <2>4. \A k \in Ends(d, taken') : n <= k
    <3> SUFFICES ASSUME NEW k \in Ends(d, taken') PROVE n <= k
      OBVIOUS
    <3>1. k \in Nat
      BY <1>1 DEF Ends
    <3>2. k <= arg => k \in ends
      BY <1>3
    <3> QED
      BY <1>0, <1>1, <2>2, <2>3, <3>1, <3>2
  <2>5. n <= cfg.size /\ n - skip \in 0..Len(taken')
    BY <1>0, <1>1, <2>3
  <2>6. view.len <= Len(external)
    BY <1>0, RestMarked
  <2>7. Deliver(external, taken', n - skip, skip)
    BY <1>6 DEF n
  <2>8. PacketExact'
    BY <1>0, <2>3, <2>4, <2>5, <2>7, PacketDelim
  <2>9. /\ external' \in Seq(Byte) /\ internal' \in Seq(Byte)
        /\ view' \in [at : Nat, len : Nat] /\ pc' = "handler" /\ post' = skip
    BY <1>0, <1>1, <2>5, <2>6, <2>7, DeliverIs
  <2>10. FramingInv'
    BY <1>0, <1>1, <1>5, <1>6, <2>9, HandlerInv
  <2> QED
    BY <2>8, <2>9, <2>10
<1>7. CASE /\ ends = {} /\ Len(taken') >= arg /\ Fail
           /\ output' = Rest(taken', Len(internal))
           /\ UNCHANGED <<external, internal, view, post, need>>
  <2>1. pc' = "failed"
    BY <1>7 DEF Fail
  <2>2. FramingInv'
    BY <1>0, <1>4, <1>5, <1>7, <2>1, HandlerInv
  <2>3. ASSUME NEW more \in Seq(Byte), NEW f \in Frames(cfg, taken' \o more) PROVE FALSE
    <3>1. taken' \o more \in Seq(Byte) /\ Len(taken' \o more) \in Nat
      BY ConcatProperties, LenProperties
    <3>2. f.len \in Ends(d, taken' \o more) /\ f.len <= cfg.size
      BY <1>0, <2>3, <3>1, FramesDelim
    <3>3. f.len \in Ends(d, taken')
      BY <1>0, <1>1, <1>7, <3>2, EndsContinued
    <3> QED
      BY <1>3, <1>7, <3>2, <3>3
  <2>4. ErrorFinal'
    BY <2>3 DEF ErrorFinal
  <2> QED
    BY <2>1, <2>2, <2>4
<1>8. CASE /\ ends = {} /\ Len(taken') < arg /\ Await("wait_delim", arg - Len(taken'))
           /\ output' = Rest(taken', Len(internal))
           /\ UNCHANGED <<external, internal, view, post>>
  <2>1. pc' = "wait_delim" /\ need' = arg - Len(taken') /\ need' \in Nat
    BY <1>0, <1>1, <1>8 DEF Await
  <2>2. TypeOK'
    BY <1>0, <1>4, <1>5, <1>8, <2>1 DEF TypeOK, Labels
  <2>3. StreamOK'
    BY <1>0, <1>4, <1>8, <2>1 DEF StreamOK
  <2>4. Ends(d, taken') = {}
    <3>1. \A n \in Ends(d, taken') : n <= arg
      BY <1>0, <1>1, <1>8 DEF Ends
    <3> QED
      BY <1>3, <1>8, <3>1
  <2>5. RequestOK'
    BY <1>8, <2>1, <2>4 DEF RequestOK, Delimits
  <2> QED
    BY <2>1, <2>2, <2>3, <2>5 DEF FramingInv
<1> QED
  BY <1>6, <1>7, <1>8 DEF Search

LEMMA ReadDelimInv ==
  ASSUME FramingInv, ReadDelim
  PROVE  /\ FramingInv'
         /\ pc' = "handler" => PacketExact'
         /\ pc' = "failed" => ErrorFinal'
<1>1. /\ internal = taken /\ view = Marked(external) /\ Delimits /\ arg = cfg.size
      /\ taken \in Seq(Byte) /\ internal \in Seq(Byte) /\ total \in 0..MaxBytes
  BY DEF FramingInv, TypeOK, StreamOK, RequestOK, ReadDelim
<1>2. cfg' = cfg /\ arg' = arg /\ total' = total /\ taken' = taken /\ Search(taken')
  BY <1>1 DEF ReadDelim
<1>3. <<>> \in Seq(Byte) /\ taken' = internal \o <<>>
  BY <1>1, <1>2, EmptySeq, ConcatEmptySeq
<1> QED
  BY <1>1, <1>2, <1>3, SearchInv

LEMMA DelimMoreInv ==
  ASSUME FramingInv, DelimMore
  PROVE  /\ FramingInv'
         /\ pc' = "handler" => PacketExact'
         /\ pc' = "failed" => ErrorFinal'
<1>1. /\ output \in Seq(Byte) /\ taken = internal \o output /\ view = Marked(external)
      /\ Delimits /\ arg = cfg.size /\ taken \in Seq(Byte) /\ internal \in Seq(Byte)
  BY DEF FramingInv, TypeOK, StreamOK, RequestOK, DelimMore
<1>2. PICK n \in 1..need : \E s \in [1..n -> Byte] :
        Received(s) /\ Search(internal \o output \o s)
  BY DEF DelimMore
<1>3. PICK s \in [1..n -> Byte] : Received(s) /\ Search(internal \o output \o s)
  BY <1>2
<1>4. cfg' = cfg /\ arg' = arg /\ n \in Nat
  BY DEF DelimMore
<1>5. /\ s \in Seq(Byte) /\ total' \in 0..MaxBytes /\ taken' = taken \o s /\ taken' \in Seq(Byte)
  BY <1>3, <1>4, ReceivedType
<1>6. Search(taken')
  BY <1>1, <1>3, <1>5
<1>7. output \o s \in Seq(Byte) /\ taken' = internal \o (output \o s)
  <2>1. output \o s \in Seq(Byte)
    BY <1>1, <1>5, ConcatProperties
  <2>2. (internal \o output) \o s = internal \o (output \o s)
    <3>1. internal \in Seq(Byte) /\ output \in Seq(Byte) /\ s \in Seq(Byte)
      BY <1>1, <1>5
    <3> QED
      BY <3>1, ConcatAssociative
  <2> QED
    BY <1>1, <1>5, <2>1, <2>2
<1> QED
  BY <1>1, <1>4, <1>5, <1>6, <1>7, SearchInv

(* g is where the prefix of s ends, as far as s tells.                       *)
EndsAt(s, g) ==
  IF cfg.proto = "prefix" THEN g = cfg.width
  ELSE Stops(s, g) \/ (g = Len(s) + 1 /\ Unended(s))

(* What follows from it for every frame, however s goes on.                  *)
LEMMA HeadBound ==
  ASSUME cfg \in Configs, Prefixed, NEW s \in Seq(Byte), NEW more \in Seq(Byte),
         NEW g \in Nat, EndsAt(s, g), NEW f \in Frames(cfg, s \o more)
  PROVE  /\ f.len \in Nat /\ f.head \in Nat
         /\ g <= f.head /\ f.head <= f.len /\ f.len <= cfg.size
         /\ g <= Len(s) =>
              /\ f.head = g /\ g <= Word + (IF cfg.proto = "var" THEN 1 ELSE 0)
              /\ Number(cfg, Take(s, g)) = IF cfg.incl THEN f.len ELSE f.len - g
<1>0. /\ s \o more \in Seq(Byte) /\ Len(s) \in Nat /\ Len(more) \in Nat
      /\ Len(s \o more) = Len(s) + Len(more)
      /\ \A i \in 1..Len(s) : (s \o more)[i] = s[i]
  BY ConcatProperties, LenProperties
<1>1. PICK u \in Seq(Byte) : u = s \o more
  BY <1>0
<1>2. /\ f.len <= cfg.size /\ f.len \in 0..Len(u) /\ f.head \in 0..f.len
      /\ SaysSo(cfg, Take(u, f.head), f.head, f.len)
  BY <1>1, FramesPrefixed
<1>3. f.len \in Nat /\ f.head \in Nat /\ f.head <= f.len /\ f.head \in 0..Len(u) /\ Len(u) \in Nat
  BY <1>0, <1>1, <1>2
<1>4. /\ IF cfg.proto = "prefix" THEN f.head = cfg.width ELSE Stops(u, f.head) /\ f.head <= Word + 1
      /\ Number(cfg, Take(u, f.head)) = IF cfg.incl THEN f.len ELSE f.len - f.head
  BY <1>2, <1>3, HeadIs
<1>5. /\ g <= f.head
      /\ g <= Len(s) => f.head = g /\ g <= Word + (IF cfg.proto = "var" THEN 1 ELSE 0)
  <2>1. CASE cfg.proto = "prefix"
    <3>1. cfg.width \in 1..Word /\ Word \in Nat
      BY <2>1, ConfigType
    <3> QED
      BY <1>4, <2>1, <3>1 DEF EndsAt
  <2>2. CASE cfg.proto # "prefix" /\ Stops(s, g)
    <3>1. Stops(u, g)
      <4>1. g \in 1..Len(u) /\ g \in 1..Len(s)
        BY <1>0, <1>1, <2>2 DEF Stops
      <4>2. \A i \in 1..(g - 1) : i \in 1..Len(s)
        BY <1>0, <4>1
      <4> QED
        BY <1>0, <1>1, <2>2, <4>1, <4>2 DEF Stops
    <3>2. f.head = g
      BY <1>3, <1>4, <2>2, <3>1, StopsOnce
    <3> QED
      BY <1>3, <1>4, <2>2, <3>2 DEF Prefixed
  <2>3. CASE cfg.proto # "prefix" /\ g = Len(s) + 1 /\ Unended(s)
    <3>1. f.head \in 1..Len(u) /\ ~Continued(u[f.head])
      BY <1>4, <2>3 DEF Stops
    <3>2. ~(f.head \in 1..Len(s))
      BY <1>0, <1>1, <2>3, <3>1 DEF Unended
    <3> QED
      BY <1>0, <1>3, <2>3, <3>1, <3>2
  <2> QED
    BY <2>1, <2>2, <2>3 DEF EndsAt
<1>6. ASSUME g <= Len(s) PROVE Take(u, g) = Take(s, g)
  <2>1. g \in 0..Len(s)
    BY <1>0, <1>6
  <2> QED
    BY <1>1, <2>1, TakeContinued
<1> QED
  BY <1>2, <1>3, <1>4, <1>5, <1>6

LEMMA Modulo ==
  ASSUME NEW x \in Nat, NEW n \in Nat \ {0}
  PROVE  x % n \in Nat /\ x % n <= x /\ (x < n => x % n = x)
<1>1. x = n * (x \div n) + (x % n) /\ x % n \in 0..(n - 1) /\ x \div n \in Nat
  OBVIOUS
<1>2. n * (x \div n) \in Nat
  BY <1>1
<1>3. x < n => x \div n = 0
  OBVIOUS
<1> QED
  BY <1>1, <1>2, <1>3

(* The prefix is there, and g bytes long.                                    *)
LEMMA DecodedInv ==
  ASSUME FramingInv, Prefixed, internal = taken, view = Marked(external),
         NEW g \in Nat, EndsAt(internal, g), g <= Len(internal),
         g <= Word + (IF cfg.proto = "var" THEN 1 ELSE 0),
         Decoded(g), UNCHANGED <<output, need, cfg, post, total, taken>>
  PROVE  /\ FramingInv'
         /\ pc' # "handler"
         /\ pc' = "failed" => ErrorFinal'
<1> DEFINE head == Take(internal, g)
           v == Value(head, Base)
           size == IF cfg.incl THEN v - g ELSE v
           ext == external \o head
<1>0. /\ TypeOK /\ cfg \in Configs /\ external \in Seq(Byte) /\ internal \in Seq(Byte)
      /\ output \in Seq(Byte \cup {Junk}) /\ view \in [at : Nat, len : Nat]
      /\ arg \in Nat /\ need \in Nat /\ post \in Nat
      /\ total \in 0..MaxBytes /\ taken \in Seq(Byte) /\ taken \in Seq(Byte \cup {Junk})
      /\ Len(internal) \in Nat /\ g \in 0..Len(internal)
  BY LenProperties DEF FramingInv, TypeOK, StreamOK
<1>1. head \in Seq(Byte) /\ Len(head) = g
  BY <1>0, TakeType
<1>2. v = Number(cfg, head) /\ v \in Nat /\ v < Power(Base, g)
  BY <1>1, ValueIsNumber
<1>3. Limit \in Nat \ {0} /\ cfg.incl \in BOOLEAN /\ cfg.size \in Nat
  <2>1. 2 * Half \in Nat /\ 2 * Half >= 1 /\ Word \in Nat /\ 2 * Half \in Nat \ {0}
    BY FramingAssumption DEF FramingAssumption
  <2>2. Limit \in Nat /\ Power(2 * Half, 0) = 1 /\ Power(2 * Half, 0) <= Limit
    <3>1. PICK b \in Nat \ {0} : b = 2 * Half
      BY <2>1
    <3>2. Power(b, Word) \in Nat /\ Power(b, 0) = 1
      BY <2>1, PowerLaws
    <3>3. 0 \in Nat /\ 0 <= Word
      BY <2>1
    <3>4. Power(b, 0) <= Power(b, Word)
      BY <2>1, <3>3, PowerMonotone
    <3> QED
      BY <3>1, <3>2, <3>4 DEF Limit
  <2>3. Limit \in Nat \ {0}
    BY <2>2
  <2> QED
    BY <1>0, <2>3, ConfigType
<1>4. ASSUME NEW more \in Seq(Byte), NEW f \in Frames(cfg, internal \o more)
      PROVE  /\ f.len \in Nat /\ g <= f.len /\ f.len <= cfg.size
             /\ v = IF cfg.incl THEN f.len ELSE f.len - g
  <2>1. /\ f.len \in Nat /\ f.head \in Nat /\ g <= f.head /\ f.head <= f.len
        /\ f.len <= cfg.size /\ Number(cfg, head) = IF cfg.incl THEN f.len ELSE f.len - g
    BY <1>0, <1>4, HeadBound
  <2> QED
    BY <1>2, <2>1
<1> HIDE DEF v
<1>5. CASE /\ (cfg.incl /\ v < g) \/ Exceeds((size + g) % Limit)
           /\ Fail /\ UNCHANGED <<arg, external, internal, view>>
  <2>1. pc' = "failed"
    BY <1>5 DEF Fail
  <2>2. FramingInv'
    BY <1>0, <1>5, <2>1, HandlerInv
  <2>3. ASSUME NEW more \in Seq(Byte), NEW f \in Frames(cfg, internal \o more) PROVE FALSE
    <3>1. /\ f.len \in Nat /\ g <= f.len /\ f.len <= cfg.size
          /\ v = IF cfg.incl THEN f.len ELSE f.len - g
      BY <1>4, <2>3
    <3>2. ~(cfg.incl /\ v < g)
      BY <1>2, <3>1
    <3>3. PICK x \in Nat : x = size + g
      BY <1>2, <1>3, <3>2
    <3>4. x = f.len
      BY <1>2, <1>3, <3>1, <3>3
    <3>5. x % Limit \in Nat /\ x % Limit <= x
      BY <1>3, Modulo
    <3>6. x % Limit > cfg.size
      BY <1>5, <3>2, <3>3 DEF Exceeds
    <3> QED
      BY <1>3, <3>1, <3>4, <3>5, <3>6
  <2>4. ErrorFinal'
    <3>1. cfg' = cfg /\ taken' = internal
      OBVIOUS
    <3> QED
      BY <2>3, <3>1 DEF ErrorFinal
  <2> QED
    BY <2>1, <2>2, <2>4
<1>6. CASE /\ ~((cfg.incl /\ v < g) \/ Exceeds((size + g) % Limit))
           /\ pc' = "fixed" /\ arg' = size
           /\ external' = ext /\ internal' = Rest(internal, g)
           /\ view' = IF cfg.ignore THEN Marked(ext) ELSE view
  <2>1. size \in Nat /\ size + g = IF cfg.incl THEN v ELSE v + g
    BY <1>2, <1>3, <1>6
  <2>2. ext \in Seq(Byte) /\ internal' \in Seq(Byte) /\ Len(ext) \in Nat
        /\ Len(external) \in Nat /\ Len(ext) = Len(external) + g
    <3>1. ext \in Seq(Byte) /\ Len(ext) = Len(external) + Len(head)
      BY <1>0, <1>1, ConcatProperties
    <3>2. Len(ext) \in Nat /\ Len(external) \in Nat
      BY <1>0, <3>1, LenProperties
    <3>3. internal' \in Seq(Byte)
      BY <1>0, <1>6, RestType
    <3> QED
      BY <1>1, <3>1, <3>2, <3>3
  <2>3. view' \in [at : Nat, len : Nat]
    BY <1>0, <1>6, <2>2 DEF Marked
  <2>4. TypeOK'
    BY <1>0, <1>6, <2>1, <2>2, <2>3 DEF TypeOK, Labels
  <2>5. Cut(g)'
    <3>1. view'.at = 0 /\ view'.len <= Len(external')
          /\ Rest(external', view'.len) = IF cfg.ignore THEN <<>> ELSE head
      <4>1. CASE cfg.ignore
        BY <1>6, <2>2, <4>1, RestMarked
      <4>2. CASE ~cfg.ignore
        <5>1. view' = view /\ view.len = Len(external) /\ view.at = 0
          BY <1>6, <4>2 DEF Marked
        <5>2. Rest(ext, Len(external)) = head
          BY <1>0, <1>1, RestOfConcat
        <5> QED
          BY <1>6, <2>2, <4>2, <5>1, <5>2
      <4> QED
        BY <4>1, <4>2
    <3>2. SaysSo(cfg, head, g, g + size)
      <4>1. IF cfg.proto = "prefix" THEN g = cfg.width ELSE Stops(internal, g) /\ g <= Word + 1
        BY <1>0 DEF EndsAt, Prefixed
      <4>2. Number(cfg, head) = IF cfg.incl THEN g + size ELSE (g + size) - g
        BY <1>2, <1>3, <2>1
      <4> QED
        BY <1>0, <4>1, <4>2, HeadIs
    <3>3. ASSUME Narrow PROVE g + size <= cfg.size
      <4>1. IF cfg.proto = "var" THEN g <= Word + 1 ELSE g < Word
        <5>1. cfg.proto = "prefix" => g = cfg.width /\ cfg.width < Word
          BY <1>0, <3>3 DEF Narrow, EndsAt
        <5>2. cfg.proto = "var" => g <= Word + 1
          OBVIOUS
        <5> QED
          BY <5>1, <5>2 DEF Prefixed
      <4>2. v + g < Limit
        BY <1>2, <4>1, NoWrap
      <4>3. PICK x \in Nat : x = size + g /\ x < Limit
        BY <1>2, <1>3, <2>1, <4>2
      <4>4. x % Limit = x /\ ~(x % Limit > cfg.size)
        BY <1>3, <1>6, <4>3, Modulo DEF Exceeds
      <4>5. x <= cfg.size
        BY <1>3, <4>4
      <4> QED
        BY <2>1, <4>3, <4>5
    <3> QED
      BY <1>6, <3>1, <3>2, <3>3 DEF Cut, Prefixed
  <2>6. StreamOK'
    BY <1>0, <1>6, <2>5 DEF StreamOK
  <2>7. RequestOK'
    BY <1>6 DEF RequestOK
  <2> QED
    BY <1>6, <2>4, <2>6, <2>7 DEF FramingInv
<1>7. \/ /\ (cfg.incl /\ v < g) \/ Exceeds((size + g) % Limit)
         /\ Fail /\ UNCHANGED <<arg, external, internal, view>>
      \/ /\ ~((cfg.incl /\ v < g) \/ Exceeds((size + g) % Limit))
         /\ pc' = "fixed" /\ arg' = size
         /\ external' = ext /\ internal' = Rest(internal, g)
         /\ view' = IF cfg.ignore THEN Marked(ext) ELSE view
  BY DEF Decoded, Base, v
<1> QED
  BY <1>5, <1>6, <1>7

LEMMA ReadPrefixInv ==
  ASSUME FramingInv, ReadPrefix
  PROVE  /\ FramingInv'
         /\ pc' # "handler"
         /\ pc' = "failed" => ErrorFinal'
<1> DEFINE var  == cfg.proto = "var"
           stop == SelectInSeq(internal, LAMBDA b : ~Continued(b))
           len  == IF arg > 0 THEN arg ELSE IF stop > 0 THEN stop ELSE Len(internal) + 1
           more == var /\ Len(internal) >= len /\ Continued(internal[len])
           goal == IF more THEN len + 1 ELSE len
<1>0. /\ TypeOK /\ cfg \in Configs /\ external \in Seq(Byte) /\ internal \in Seq(Byte)
      /\ output \in Seq(Byte \cup {Junk}) /\ view \in [at : Nat, len : Nat]
      /\ arg \in Nat /\ need \in Nat /\ post \in Nat
      /\ total \in 0..MaxBytes /\ taken \in Seq(Byte) /\ taken \in Seq(Byte \cup {Junk})
      /\ Len(internal) \in Nat
  BY LenProperties DEF FramingInv, TypeOK, StreamOK
<1>1. /\ internal = taken /\ view = Marked(external)
      /\ (cfg.proto = "prefix" /\ arg = cfg.width) \/ cfg.proto = "var"
      /\ cfg.proto = "var" => arg = 0 \/ (Len(internal) = arg /\ Unended(Take(internal, arg - 1)))
  BY DEF FramingInv, StreamOK, RequestOK, ReadPrefix
<1>2. cfg' = cfg /\ post' = post /\ total' = total /\ taken' = taken
  BY DEF ReadPrefix
<1>3. \/ stop = 0 /\ Unended(internal)
      \/ /\ stop \in 1..Len(internal) /\ ~Continued(internal[stop])
         /\ \A i \in 1..(stop - 1) : Continued(internal[i])
  BY <1>0, StopIs
<1>4. \/ /\ Len(internal) < goal /\ Exceeds(goal) /\ Fail /\ UNCHANGED <<arg, need, buf>>
      \/ /\ Len(internal) < goal /\ ~Exceeds(goal)
         /\ Await("wait_prefix", goal - Len(internal)) /\ arg' = goal
         /\ output' = Prepared(goal - Len(internal)) /\ UNCHANGED <<external, internal, view>>
      \/ /\ Len(internal) >= goal /\ goal > Word + (IF var THEN 1 ELSE 0)
         /\ Fail /\ UNCHANGED <<arg, need, buf>>
      \/ /\ Len(internal) >= goal /\ goal <= Word + (IF var THEN 1 ELSE 0)
         /\ Decoded(goal) /\ UNCHANGED <<output, need>>
  BY DEF ReadPrefix
<1> HIDE DEF stop
<1>5. goal \in Nat /\ EndsAt(internal, goal)
  <2>1. CASE cfg.proto = "prefix"
    <3>1. arg = cfg.width /\ arg > 0
      BY <1>0, <1>1, <2>1, ConfigType
    <3> QED
      BY <1>0, <2>1, <3>1 DEF EndsAt
  <2>2. CASE cfg.proto = "var" /\ arg = 0 /\ stop = 0
    <3>1. goal = Len(internal) + 1 /\ Unended(internal)
      BY <1>0, <1>3, <2>2
    <3> QED
      BY <1>0, <2>2, <3>1 DEF EndsAt
  <2>3. CASE cfg.proto = "var" /\ arg = 0 /\ stop # 0
    <3>1. goal = stop /\ Stops(internal, stop) /\ stop \in Nat
      BY <1>0, <1>3, <2>3 DEF Stops
    <3> QED
      BY <2>3, <3>1 DEF EndsAt
  <2>4. CASE cfg.proto = "var" /\ arg # 0
    <3>1. len = arg /\ Len(internal) = arg /\ arg \in 1..Len(internal) /\ arg - 1 \in 0..Len(internal)
          /\ Unended(Take(internal, arg - 1))
      BY <1>0, <1>1, <2>4
    <3>2. \A i \in 1..(arg - 1) : Continued(internal[i])
      <4>1. /\ Len(Take(internal, arg - 1)) = arg - 1
            /\ \A i \in 1..(arg - 1) : Take(internal, arg - 1)[i] = internal[i]
        BY <1>0, <3>1, TakeType
      <4> QED
        BY <3>1, <4>1 DEF Unended
    <3>3. CASE Continued(internal[arg])
      <4>1. goal = Len(internal) + 1
        BY <1>0, <2>4, <3>1, <3>3
      <4>2. \A i \in 1..Len(internal) : i \in 1..(arg - 1) \/ i = arg
        BY <1>0, <3>1
      <4>3. Unended(internal)
        BY <3>2, <3>3, <4>2 DEF Unended
      <4> QED
        BY <1>0, <2>4, <4>1, <4>3 DEF EndsAt
    <3>4. CASE ~Continued(internal[arg])
      <4>1. goal = arg
        BY <2>4, <3>1, <3>4
      <4>2. Stops(internal, arg)
        BY <3>1, <3>2, <3>4 DEF Stops
      <4> QED
        BY <1>0, <2>4, <4>1, <4>2 DEF EndsAt
    <3> QED
      BY <3>3, <3>4
  <2> QED
    BY <1>1, <2>1, <2>2, <2>3, <2>4
<1>6. PICK g \in Nat : g = goal
  BY <1>5
<1> HIDE DEF goal, more, len
<1>7. EndsAt(internal, g) /\ Prefixed /\ cfg.size \in Nat /\ Word \in Nat
  BY <1>0, <1>1, <1>5, <1>6, ConfigType DEF Prefixed
<1>8. ASSUME pc' = "failed", UNCHANGED <<arg, need, buf>>,
             \/ g > Len(internal) /\ g > cfg.size
             \/ g <= Len(internal) /\ g > Word + (IF var THEN 1 ELSE 0)
      PROVE  FramingInv' /\ ErrorFinal'
  <2>1. FramingInv'
    BY <1>0, <1>2, <1>8, HandlerInv DEF buf
  <2>2. ASSUME NEW m \in Seq(Byte), NEW f \in Frames(cfg, internal \o m) PROVE FALSE
    <3>1. /\ f.len \in Nat /\ f.head \in Nat
          /\ g <= f.head /\ f.head <= f.len /\ f.len <= cfg.size
          /\ g <= Len(internal) => g <= Word + (IF var THEN 1 ELSE 0)
      BY <1>0, <1>7, <2>2, HeadBound
    <3> QED
      BY <1>0, <1>7, <1>8, <3>1
  <2>3. ErrorFinal'
    <3>1. cfg' = cfg /\ taken' = internal
      BY <1>1, <1>2
    <3> QED
      BY <2>2, <3>1 DEF ErrorFinal
  <2> QED
    BY <2>1, <2>3
<1>9. CASE /\ Len(internal) < g /\ Exceeds(g) /\ Fail /\ UNCHANGED <<arg, need, buf>>
  <2>1. g > Len(internal) /\ g > cfg.size /\ pc' = "failed"
    BY <1>0, <1>9 DEF Fail, Exceeds
  <2> QED
    BY <1>8, <1>9, <2>1
<1>10. CASE /\ Len(internal) < g /\ ~Exceeds(g)
            /\ Await("wait_prefix", g - Len(internal)) /\ arg' = g
            /\ output' = Prepared(g - Len(internal)) /\ UNCHANGED <<external, internal, view>>
  <2>1. pc' = "wait_prefix" /\ need' = g - Len(internal) /\ need' \in Nat /\ g <= cfg.size
    BY <1>0, <1>7, <1>10 DEF Await, Exceeds
  <2>2. output' \in Seq(Byte \cup {Junk})
    BY <1>10, <2>1, PreparedType
  <2>3. TypeOK'
    BY <1>0, <1>2, <1>10, <2>1, <2>2 DEF TypeOK, Labels
  <2>4. StreamOK'
    BY <1>0, <1>1, <1>2, <1>10, <2>1 DEF StreamOK
  <2>5. cfg.proto = "var" => need' = 1 /\ Unended(internal)
    <3> SUFFICES ASSUME cfg.proto = "var" PROVE g = Len(internal) + 1 /\ Unended(internal)
      BY <1>0, <2>1
    <3>1. ~Stops(internal, g)
      BY <1>0, <1>10 DEF Stops
    <3> QED
      BY <1>7, <3>1 DEF EndsAt
  <2>6. cfg.proto = "prefix" => g = cfg.width
    BY <1>7 DEF EndsAt
  <2>7. RequestOK'
    BY <1>1, <1>2, <1>10, <2>1, <2>5, <2>6 DEF RequestOK
  <2> QED
    BY <2>1, <2>3, <2>4, <2>7 DEF FramingInv
<1>11. CASE /\ Len(internal) >= g /\ g > Word + (IF var THEN 1 ELSE 0)
            /\ Fail /\ UNCHANGED <<arg, need, buf>>
  <2>1. g <= Len(internal) /\ pc' = "failed"
    BY <1>0, <1>11 DEF Fail
  <2> QED
    BY <1>8, <1>11, <2>1
<1>12. CASE /\ Len(internal) >= g /\ g <= Word + (IF var THEN 1 ELSE 0)
            /\ Decoded(g) /\ UNCHANGED <<output, need>>
  BY <1>0, <1>1, <1>2, <1>7, <1>12, DecodedInv
<1> QED
  BY <1>4, <1>6, <1>9, <1>10, <1>11, <1>12

LEMMA PrefixDoneInv == FramingInv /\ PrefixDone => FramingInv'
<1> SUFFICES ASSUME FramingInv, PrefixDone PROVE FramingInv'
  OBVIOUS
<1>0. /\ TypeOK /\ cfg \in Configs /\ external \in Seq(Byte) /\ internal \in Seq(Byte)
      /\ output \in Seq(Byte \cup {Junk}) /\ view \in [at : Nat, len : Nat]
      /\ arg \in Nat /\ need \in Nat /\ post \in Nat /\ Len(internal) \in Nat
  BY LenProperties DEF FramingInv, TypeOK
<1>1. /\ internal = taken /\ view = Marked(external) /\ pc' = "prefix"
      /\ Len(internal) < arg /\ need = arg - Len(internal)
      /\ (cfg.proto = "prefix" /\ arg = cfg.width) \/ cfg.proto = "var"
      /\ cfg.proto = "var" => need = 1 /\ Unended(internal)
  BY DEF FramingInv, StreamOK, RequestOK, PrefixDone
<1>2. PICK s \in [1..need -> Byte] :
        Received(s) /\ internal' = internal \o s /\ output' = Rest(output, need)
  BY DEF PrefixDone
<1>3. /\ cfg' = cfg /\ external' = external /\ view' = view
      /\ arg' = arg /\ need' = need /\ post' = post
  BY DEF PrefixDone
<1>4. /\ s \in Seq(Byte) /\ total' \in 0..MaxBytes /\ taken' = taken \o s /\ taken' \in Seq(Byte)
      /\ Len(taken') = Len(taken) + need
  BY <1>0, <1>2, ReceivedType
<1>5. internal' = taken' /\ Len(internal') = arg
  BY <1>0, <1>1, <1>2, <1>4
<1>6. output' \in Seq(Byte \cup {Junk}) /\ taken' \in Seq(Byte \cup {Junk})
  BY <1>0, <1>2, <1>4, RestTyped, SeqMonotonic, Byte \subseteq Byte \cup {Junk}
<1>7. TypeOK'
  BY <1>0, <1>1, <1>3, <1>4, <1>5, <1>6 DEF TypeOK, Labels
<1>8. StreamOK'
  BY <1>1, <1>3, <1>4, <1>5 DEF StreamOK
<1>9. ASSUME cfg.proto = "var" PROVE Unended(Take(internal', arg - 1))
  <2>1. arg - 1 = Len(internal) /\ Len(internal) \in 0..Len(internal)
    BY <1>0, <1>1, <1>9
  <2>2. Take(internal \o s, Len(internal)) = Take(internal, Len(internal))
    BY <1>0, <1>4, <2>1, TakeContinued
  <2>3. Take(internal, Len(internal)) = internal
    BY <1>0, TakeAll
  <2> QED
    BY <1>1, <1>2, <1>9, <2>1, <2>2, <2>3
<1>10. RequestOK'
  BY <1>1, <1>3, <1>5, <1>9 DEF RequestOK
<1> QED
  BY <1>7, <1>8, <1>10 DEF FramingInv

LEMMA ConsumeInv == FramingInv /\ Consume => FramingInv'
<1> SUFFICES ASSUME FramingInv, Consume PROVE FramingInv'
  OBVIOUS
<1>0. /\ cfg \in Configs /\ external \in Seq(Byte) /\ internal \in Seq(Byte)
      /\ output \in Seq(Byte \cup {Junk}) /\ view \in [at : Nat, len : Nat]
      /\ arg \in Nat /\ need \in Nat /\ post \in Nat
      /\ total \in 0..MaxBytes /\ taken \in Seq(Byte)
  BY DEF FramingInv, TypeOK, StreamOK
<1>1. PICK n \in 1..Len(external) :
        LET end == view.at + view.len
        IN  /\ external' = Rest(external, n)
            /\ view' = CASE n < view.at -> [at |-> view.at - n, len |-> end - (view.at - n)]
                         [] n >= view.at /\ n < end -> [at |-> 0, len |-> end - n]
                         [] OTHER -> [at |-> 0, len |-> 0]
  BY DEF Consume
<1>2. n \in Nat /\ external' \in Seq(Byte)
  <2>1. n \in Nat /\ external' = Rest(external, n)
    BY <1>1
  <2> QED
    BY <1>0, <2>1, RestTyped
<1>3. view' \in [at : Nat, len : Nat]
  <2>1. PICK a \in Nat, l \in Nat : a = view.at /\ l = view.len
    BY <1>0
  <2>2. \/ n < a /\ view' = [at |-> a - n, len |-> (a + l) - (a - n)]
        \/ n < a + l /\ view' = [at |-> 0, len |-> (a + l) - n]
        \/ view' = [at |-> 0, len |-> 0]
    BY <1>1, <2>1
  <2>3. n < a => a - n \in Nat /\ (a + l) - (a - n) \in Nat
    BY <1>2
  <2>4. n < a + l => (a + l) - n \in Nat
    BY <1>2
  <2> QED
    BY <2>2, <2>3, <2>4
<1>4. /\ pc' = "return" /\ cfg' = cfg /\ internal' = internal /\ output' = output
      /\ arg' = arg /\ need' = need /\ post' = post /\ total' = total /\ taken' = taken
  BY DEF Consume
<1> QED
  BY <1>0, <1>2, <1>3, <1>4, HandlerInv

LEMMA HandlerReturnInv == FramingInv /\ HandlerReturn => FramingInv'
<1> SUFFICES ASSUME FramingInv, HandlerReturn PROVE FramingInv'
  OBVIOUS
<1>0. /\ external \in Seq(Byte) /\ internal \in Seq(Byte) /\ Len(internal) \in Nat
      /\ output \in Seq(Byte \cup {Junk}) /\ view \in [at : Nat, len : Nat]
      /\ arg \in Nat /\ need \in Nat /\ post \in Nat /\ total \in 0..MaxBytes
  BY LenProperties DEF FramingInv, TypeOK
<1> DEFINE m == Least(post, Len(internal))
<1>1. /\ pc' = "read" /\ cfg' \in Configs /\ post' = 0 /\ taken' = Rest(internal, post)
      /\ external' = external \o Take(internal, m) /\ internal' = Rest(internal, m)
      /\ output' = output /\ view' = view /\ arg' = arg /\ need' = need /\ total' = total
  BY DEF HandlerReturn
<1>2. m \in 0..Len(internal) /\ (m = post \/ (m = Len(internal) /\ post >= Len(internal)))
  BY <1>0 DEF Least
<1> HIDE DEF m
<1>3. Take(internal, m) \in Seq(Byte) /\ Rest(internal, m) \in Seq(Byte)
  BY <1>0, <1>2, TakeType, RestType
<1>4. external' \in Seq(Byte)
  BY <1>0, <1>1, <1>3, ConcatProperties
<1>5. internal' = taken'
  <2>1. post >= Len(internal) => Rest(internal, post) = <<>>
    BY <1>0, RestBeyond
  <2>2. Rest(internal, Len(internal)) = <<>>
    BY <1>0, RestBeyond
  <2> QED
    BY <1>1, <1>2, <2>1, <2>2
<1>6. taken' \in Seq(Byte) /\ internal' \in Seq(Byte) /\ taken' \in Seq(Byte \cup {Junk})
  BY <1>1, <1>3, <1>5, SeqMonotonic, Byte \subseteq Byte \cup {Junk}
<1>7. TypeOK'
  BY <1>0, <1>1, <1>4, <1>6 DEF TypeOK, Labels
<1>8. StreamOK' /\ RequestOK'
  BY <1>1, <1>5, <1>6 DEF StreamOK, RequestOK
<1> QED
  BY <1>7, <1>8 DEF FramingInv

LEMMA StopInv ==
  ASSUME FramingInv, ReadError \/ UNCHANGED vars
  PROVE  FramingInv'
<1>1. CASE ReadError
  <2>1. /\ cfg \in Configs /\ external \in Seq(Byte) /\ internal \in Seq(Byte)
        /\ output \in Seq(Byte \cup {Junk}) /\ view \in [at : Nat, len : Nat]
        /\ arg \in Nat /\ need \in Nat /\ post \in Nat
        /\ total \in 0..MaxBytes /\ taken \in Seq(Byte)
    BY DEF FramingInv, TypeOK, StreamOK
  <2>2. pc' = "eof" /\ UNCHANGED <<cfg, buf, arg, need, post, total, taken>>
    BY <1>1 DEF ReadError
  <2> QED
    BY <2>1, <2>2, HandlerInv DEF buf
<1>2. CASE UNCHANGED vars
  <2>1. UNCHANGED <<cfg, external, internal, output, view, pc, arg, need, post, total, taken>>
    BY <1>2 DEF vars, buf
  <2>2. TypeOK'
    BY <2>1 DEF FramingInv, TypeOK
  <2>3. StreamOK'
    BY <2>1 DEF FramingInv, StreamOK, Cut, Prefixed
  <2>4. RequestOK'
    BY <2>1 DEF FramingInv, RequestOK, Whole, Delimits
  <2> QED
    BY <2>2, <2>3, <2>4 DEF FramingInv
<1> QED
  BY <1>1, <1>2

(* A step of the specification: the invariant, and what it does when it      *)
(* calls the handler or fails.                                               *)
LEMMA StepInv ==
  ASSUME FramingInv, [Next]_vars
  PROVE  /\ FramingInv'
         /\ pc' = "handler" /\ pc # "handler" /\ Narrow => PacketExact'
         /\ pc' = "failed" /\ pc # "failed" => ErrorFinal'
<1>1. CASE Read
  <2>1. pc' \notin {"handler", "failed"}
    BY <1>1, ConfigType DEF FramingInv, TypeOK, Read
  <2> QED
    BY <1>1, <2>1, ReadInv
<1>2. CASE ReadSome
  <2>1. pc' \in {"handler", "wait_some"}
    BY <1>2 DEF ReadSome, Deliver, Await
  <2> QED
    BY <1>2, <2>1, ReadSomeInv
<1>3. CASE SomeDone
  <2>1. pc' = "handler"
    BY <1>3 DEF SomeDone, Deliver
  <2> QED
    BY <1>3, <2>1, SomeDoneInv
<1>4. CASE ReadFixed
  <2>1. pc' \in {"handler", "wait_fixed"}
    BY <1>4 DEF ReadFixed, Deliver, Await
  <2> QED
    BY <1>4, <2>1, ReadFixedInv
<1>5. CASE FixedDone
  <2>1. pc' = "handler"
    BY <1>5 DEF FixedDone, Deliver
  <2> QED
    BY <1>5, <2>1, FixedDoneInv
<1>6. CASE ReadDelim
  BY <1>6, ReadDelimInv
<1>7. CASE DelimMore
  BY <1>7, DelimMoreInv
<1>8. CASE ReadPrefix
  BY <1>8, ReadPrefixInv
<1>9. CASE PrefixDone
  <2>1. pc' = "prefix"
    BY <1>9 DEF PrefixDone
  <2> QED
    BY <1>9, <2>1, PrefixDoneInv
<1>10. CASE Consume
  <2>1. pc' = "return"
    BY <1>10 DEF Consume
  <2> QED
    BY <1>10, <2>1, ConsumeInv
<1>11. CASE HandlerReturn
  <2>1. pc' = "read"
    BY <1>11 DEF HandlerReturn
  <2> QED
    BY <1>11, <2>1, HandlerReturnInv
<1>12. CASE ReadError
  <2>1. pc' = "eof"
    BY <1>12 DEF ReadError
  <2> QED
    BY <1>12, <2>1, StopInv
<1>13. CASE UNCHANGED vars
  <2>1. pc' = pc
    BY <1>13 DEF vars
  <2> QED
    BY <1>13, <2>1, StopInv
<1>14. Stopped => UNCHANGED vars
  BY DEF Stopped
<1> QED
  BY <1>1, <1>2, <1>3, <1>4, <1>5, <1>6, <1>7, <1>8, <1>9, <1>10, <1>11, <1>12, <1>13, <1>14
     DEF Next

----------------------------------------------------------------------------
(* Theorems.                                                                 *)

(* Whatever the handler sets between two packets and however the bytes       *)
(* arrive, what the reader knows about the packet in progress stays true.    *)
THEOREM FramingInvariant == Spec => []FramingInv
<1>1. FramingInv /\ [Next]_vars => FramingInv'
  BY StepInv
<1> QED
  BY InitInv, <1>1, PTL DEF Spec

(* triple_buffer and the state of session::read() keep their types.          *)
THEOREM TypeCorrect == Spec => []TypeOK
<1>1. FramingInv => TypeOK
  BY DEF FramingInv
<1> QED
  BY <1>1, FramingInvariant, PTL

(* session::read() never asks for more bytes while the ones it has are a     *)
(* whole packet.                                                             *)
THEOREM NeverStalls == Spec => []NoStall
<1>1. FramingInv => NoStall
  <2> SUFFICES ASSUME FramingInv, pc \in Waiting, NEW f \in Frames(cfg, taken) PROVE FALSE
    BY DEF NoStall
  <2>0. /\ cfg \in Configs /\ taken \in Seq(Byte) /\ Len(taken) \in Nat /\ arg \in Nat
        /\ cfg.size \in Nat /\ cfg.incl \in BOOLEAN
    BY ConfigType, LenProperties DEF FramingInv, TypeOK, StreamOK
  <2>1. CASE pc = "wait_some"
    <3>1. Whole /\ taken = <<>>
      BY <2>1 DEF FramingInv, StreamOK, RequestOK
    <3> QED
      BY <2>0, <3>1, FramesWhole
  <2>2. CASE pc = "wait_delim"
    <3>1. Delimits /\ Ends(cfg.delim, taken) = {}
      BY <2>2 DEF FramingInv, RequestOK
    <3> QED
      BY <2>0, <3>1, FramesDelim
  <2>3. CASE pc = "wait_prefix"
    <3>1. /\ internal = taken /\ Len(internal) < arg /\ Prefixed
          /\ cfg.proto = "prefix" => arg = cfg.width
          /\ cfg.proto = "var" => need = 1 /\ need = arg - Len(internal) /\ Unended(internal)
      BY <2>3 DEF FramingInv, StreamOK, RequestOK, Prefixed
    <3>2. EndsAt(taken, arg)
      BY <2>0, <3>1 DEF EndsAt, Prefixed
    <3>3. taken \o <<>> = taken /\ <<>> \in Seq(Byte)
      BY <2>0, ConcatEmptySeq, EmptySeq
    <3>4. f.len \in 0..Len(taken) /\ f.len \in Nat
      BY <2>0, <3>1, FramesPrefixed
    <3>5. f.head \in Nat /\ arg <= f.head /\ f.head <= f.len
      BY <2>0, <3>1, <3>2, <3>3, HeadBound
    <3> QED
      BY <2>0, <3>1, <3>4, <3>5
  <2>4. CASE pc = "wait_fixed"
    <3>1. PICK h \in 0..Len(taken) : Cut(h)
      BY <2>4 DEF FramingInv, StreamOK
    <3>2. Len(internal) = Len(taken) - h /\ Len(internal) < arg /\ h \in Nat
      BY <2>0, <2>4, <3>1, RestType DEF Cut, FramingInv, RequestOK
    <3>3. Len(taken) < h + arg
      BY <2>0, <3>2
    <3>4. CASE cfg.proto = "fixed" /\ h = 0 /\ arg = cfg.size
      BY <2>0, <3>3, <3>4, FramesFixed
    <3>5. CASE Prefixed /\ SaysSo(cfg, Take(taken, h), h, h + arg)
      <4>1. /\ f.len \in 0..Len(taken) /\ f.head \in 0..f.len
            /\ SaysSo(cfg, Take(taken, f.head), f.head, f.len)
        BY <2>0, <3>5, FramesPrefixed
      <4>2. f.head \in 0..Len(taken) /\ f.len \in Nat
        BY <2>0, <4>1
      <4>3. /\ IF cfg.proto = "prefix" THEN f.head = cfg.width ELSE Stops(taken, f.head)
            /\ Number(cfg, Take(taken, f.head)) = IF cfg.incl THEN f.len ELSE f.len - f.head
        BY <2>0, <3>5, <4>1, <4>2, HeadIs
      <4>4. /\ IF cfg.proto = "prefix" THEN h = cfg.width ELSE Stops(taken, h)
            /\ Number(cfg, Take(taken, h)) = IF cfg.incl THEN h + arg ELSE (h + arg) - h
        BY <2>0, <3>5, HeadIs
      <4>5. f.head = h
        BY <2>0, <4>3, <4>4, StopsOnce
      <4>6. f.len = h + arg
        BY <2>0, <3>2, <4>2, <4>3, <4>4, <4>5
      <4> QED
        BY <2>0, <3>2, <3>3, <4>1, <4>6
    <3> QED
      BY <3>1, <3>4, <3>5 DEF Cut
  <2> QED
    BY <2>1, <2>2, <2>3, <2>4 DEF Waiting
<1> QED
  BY <1>1, FramingInvariant, PTL

(* check() of a protocol error is called only when no packet can be          *)
(* completed, however many bytes were to follow, for prefixes of every       *)
(* width.                                                                    *)
THEOREM ErrorsFinal == Spec => []ErrorFinal
<1>1. Init => ErrorFinal
  BY DEF Init, ErrorFinal
<1>2. FramingInv /\ ErrorFinal /\ [Next]_vars => ErrorFinal'
  <2> SUFFICES ASSUME FramingInv, ErrorFinal, [Next]_vars PROVE ErrorFinal'
    OBVIOUS
  <2>1. CASE pc' # "failed"
    BY <2>1 DEF ErrorFinal
  <2>2. CASE pc' = "failed" /\ pc # "failed"
    BY <2>2, StepInv
  <2>3. CASE pc = "failed"
    <3>1. UNCHANGED vars
      BY <2>3 DEF Next, Read, ReadSome, SomeDone, ReadFixed, FixedDone, ReadDelim, DelimMore,
                  ReadPrefix, PrefixDone, Consume, HandlerReturn, ReadError, Stopped, Waiting
    <3> QED
      BY <3>1 DEF vars, ErrorFinal
  <2> QED
    BY <2>1, <2>2, <2>3
<1> QED
  BY <1>1, <1>2, FramingInvariant, PTL DEF Spec

(* What the runs check of it, with the bytes they can enumerate.             *)
THEOREM ErrorsJustified == Spec => []ErrorJustified
  BY ErrorsFinal, ForeverLost, PTL

(* As long as no prefix is as wide as the word, every call of handler::read  *)
(* sees exactly one packet.                                                  *)
THEOREM PacketsExact == Narrow => (Spec => []PacketExact)
<1> SUFFICES ASSUME Narrow PROVE Spec => []PacketExact
  OBVIOUS
<1>1. Init => PacketExact
  BY DEF Init, PacketExact
<1>2. FramingInv /\ PacketExact /\ [Next]_vars => PacketExact'
  <2> SUFFICES ASSUME FramingInv, PacketExact, [Next]_vars PROVE PacketExact'
    OBVIOUS
  <2>1. CASE pc' # "handler"
    BY <2>1 DEF PacketExact
  <2>2. CASE pc' = "handler" /\ pc # "handler"
    BY <2>2, StepInv
  <2>3. CASE pc' = "handler" /\ pc = "handler"
    <3>1. UNCHANGED vars
      BY <2>3 DEF Next, Read, ReadSome, SomeDone, ReadFixed, FixedDone, ReadDelim, DelimMore,
                  ReadPrefix, PrefixDone, Consume, HandlerReturn, ReadError, Stopped, Waiting
    <3> QED
      BY <3>1 DEF vars, buf, PacketExact
  <2> QED
    BY <2>1, <2>2, <2>3
<1> QED
  BY <1>1, <1>2, FramingInvariant, PTL DEF Spec

(* The same condition keeps a read within read_buffer_size(), ...            *)
THEOREM BufferBounded == Narrow => (Spec => []BufferBound)
<1> SUFFICES ASSUME Narrow PROVE Spec => []BufferBound
  OBVIOUS
<1>1. FramingInv => BufferBound
  <2> SUFFICES ASSUME FramingInv, pc \in Waiting PROVE Len(taken) + need <= cfg.size
    BY DEF BufferBound
  <2>0. /\ taken \in Seq(Byte) /\ Len(taken) \in Nat /\ arg \in Nat /\ cfg.size \in Nat
    BY ConfigType, LenProperties DEF FramingInv, TypeOK, StreamOK
  <2>1. CASE pc = "wait_some"
    <3>1. taken = <<>> /\ need = cfg.size
      BY <2>1 DEF FramingInv, StreamOK, RequestOK
    <3> QED
      BY <2>0, <3>1, EmptySeq
  <2>2. CASE pc = "wait_delim"
    BY <2>0, <2>2 DEF FramingInv, RequestOK
  <2>3. CASE pc = "wait_prefix"
    BY <2>0, <2>3 DEF FramingInv, StreamOK, RequestOK
  <2>4. CASE pc = "wait_fixed"
    <3>1. PICK h \in 0..Len(taken) : Cut(h)
      BY <2>4 DEF FramingInv, StreamOK
    <3>2. Len(internal) = Len(taken) - h /\ need = arg - Len(internal) /\ h + arg <= cfg.size
      BY <2>0, <2>4, <3>1, RestType DEF Cut, FramingInv, RequestOK
    <3> QED
      BY <2>0, <3>2
  <2> QED
    BY <2>1, <2>2, <2>3, <2>4 DEF Waiting
<1> QED
  BY <1>1, FramingInvariant, PTL

(* ... and the assertion of read_fixed() true.                               *)
THEOREM FixedFit == Narrow => (Spec => []FixedFits)
<1> SUFFICES ASSUME Narrow PROVE Spec => []FixedFits
  OBVIOUS
<1>1. FramingInv => FixedFits
  <2> SUFFICES ASSUME FramingInv, pc = "fixed" PROVE arg <= cfg.size
    BY DEF FixedFits
  <2>0. taken \in Seq(Byte) /\ Len(taken) \in Nat /\ arg \in Nat /\ cfg.size \in Nat
    BY ConfigType, LenProperties DEF FramingInv, TypeOK, StreamOK
  <2>1. PICK h \in 0..Len(taken) : Cut(h)
    BY DEF FramingInv, StreamOK
  <2>2. h + arg <= cfg.size
    BY <2>1 DEF Cut
  <2> QED
    BY <2>0, <2>1, <2>2
<1> QED
  BY <1>1, FramingInvariant, PTL
=============================================================================
