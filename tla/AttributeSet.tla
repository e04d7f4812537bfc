---------------------------- MODULE AttributeSet ----------------------------
(***************************************************************************)
(* attribute_set and the servlets kept in it: an intrusive ordered map     *)
(* under a spinlock, used by several threads.  Most operations are one     *)
(* critical section.  compute() calls a function inside it, foreach()      *)
(* leaves it for every call of f and goes on at upper_bound of the key it  *)
(* visited, and swap() takes two locks with std::lock, which lets the      *)
(* first go when the second is not free.                                   *)
(***************************************************************************)
EXTENDS Servlets, FiniteSets, FiniteSetsExt, Functions

CONSTANTS
  Threads, NoThread,
  Sets,       (* the attribute_sets                                          *)
  Keys,
  Requests,   (* the calls that threads make                                 *)
  Lists,      (* the initializer list each set is constructed from           *)
  MaxCalls    (* bound: calls                                                *)

ASSUME SetAssumption ==
  /\ NoThread \notin Threads /\ MaxCalls \in Nat
  /\ Null # Absent /\ New \notin {Null, Absent} /\ {Null, Absent, New} \cap Nat = {}
  /\ Null \notin Keys \X (Nat \cup {Null, Absent})
  /\ Keys \subseteq Seq(Nat) /\ IsFiniteSet(Keys)
  /\ Lists \in [Sets -> Seq(Keys \X {Raw, Null})]
  /\ \A r \in Requests :
       /\ r.set \in Sets
       /\ r.op = "swap" => r.other \in Sets \ {r.set}
       /\ r.op \notin {"swap", "move", "foreach"} => r.key \in Keys
       /\ r.op \in {"set", "servlet_set", "emplace", "replace", "replace_if"} =>
            r.val \in {New, Raw, Null}
       /\ r.op = "compute" =>
            /\ r.f \in {"ret", "add", "op", "clear", "throw"} /\ r.built \in BOOLEAN
            /\ r.ops \in {"get", "set", "del", "ret", "add"}
       /\ r.op = "foreach" =>
            /\ r.mode \in {"all", "prefix", "range"} /\ {r.min, r.max} \subseteq Seq(Nat)
            /\ {r.include_min, r.include_max} \subseteq BOOLEAN

VARIABLES
  guard,   (* of each set: the thread that has its spinlock                  *)
  map,     (* map[s][k]: an object, Null, or Absent                          *)
  pc, req, res, (* what each thread does, for which call, and its result     *)
  arg,     (* the key and the copied value that f is called for              *)
  visited, (* foreach: its key is the last, its count c the length           *)
  made,    (* objects created so far                                         *)
  calls,   (* calls so far                                                   *)
  given, departed, (* history: objects ret() and add() returned, objects     *)
           (* that were removed or replaced on request                       *)
  must     (* history: keys in range mapped throughout the foreach()         *)

hist  == <<calls, given>>
frame == <<pc, req, res, arg, visited>>
vars  == <<guard, map, frame, made, hist, departed, must>>

Objects == 0..MaxCalls
Labels  == {"idle", "lock", "compute", "swap_try", "visit", "done"}

TypeOK ==
  /\ guard \in [Sets -> Threads \cup {NoThread}]
  /\ map \in [Sets -> [Keys -> Objects \cup {Null, Absent}]]
  /\ pc \in [Threads -> Labels] /\ req \in [Threads -> Requests \cup {NoReq}]
  /\ visited \in [Threads -> Seq(Keys)] /\ must \in [Threads -> SUBSET Keys]
  /\ made \in Objects /\ calls \in 0..MaxCalls /\ made <= calls
  /\ given \subseteq Objects /\ departed \subseteq Objects \cup {Null, Absent}
  /\ \A s \in Sets : guard[s] # NoThread =>
       /\ pc[guard[s]] \in {"compute", "swap_try"}
       /\ s = req[guard[s]].set \/ (pc[guard[s]] = "swap_try" /\ s = req[guard[s]].other)

(* The constructor from a list: the first mapping of a key wins.             *)
FromList(l) ==
  [k \in Keys |->
     LET I == {i \in DOMAIN l : l[i][1] = k}
     IN IF I = {} THEN Absent ELSE l[Min(I)][2]]

Init ==
  /\ guard = [s \in Sets |-> NoThread]
  /\ map = [s \in Sets |-> FromList(Lists[s])]
  /\ pc = [t \in Threads |-> "idle"] /\ req = [t \in Threads |-> NoReq]
  /\ res = [t \in Threads |-> Ok(Null)] /\ arg = [t \in Threads |-> Null]
  /\ visited = [t \in Threads |-> <<>>] /\ must = [t \in Threads |-> {}]
  /\ made = 0 /\ calls = 0 /\ given = {} /\ departed = {}

----------------------------------------------------------------------------
(* Steps that operations are made of.                                        *)

Cur(t)     == map[req[t].set][req[t].key]
Found(t)   == Cur(t) # Absent
Value(v)   == IF v = Absent THEN Null ELSE v

(* The object a caller passes: one at hand, or one it has just created.      *)
Given(t) == IF req[t].val = New THEN made + 1 ELSE req[t].val
Made(t)  == made' = IF req[t].val = New THEN made + 1 ELSE made

(* A thread at the lock of its set, in an operation that is one critical     *)
(* section and returns out.                                                  *)
Section(t, op, out) ==
  /\ pc[t] = "lock" /\ req[t].op = op /\ guard[req[t].set] = NoThread
  /\ pc' = [pc EXCEPT ![t] = "done"]
  /\ res' = [res EXCEPT ![t] = out]
  /\ UNCHANGED <<guard, req, arg, visited>>

(* What the histories remember of a change of the map.                       *)
Attend == must' = [t \in Threads |-> {k \in must[t] : map'[req[t].set][k] # Absent}]

Store(t, v) ==
  /\ map' = [map EXCEPT ![req[t].set][req[t].key] = v]
  /\ departed' = IF Displaces(req[t]) THEN departed \cup {Cur(t)} ELSE departed
  /\ Attend

Same == UNCHANGED <<map, departed, must>>

----------------------------------------------------------------------------
(* The operations that are one critical section.                             *)

Contains(t) == Section(t, "contains", Ok(Found(t))) /\ Same /\ UNCHANGED <<made, hist>>

Get(t) == Section(t, "get", Outcome(req[t].as, Value(Cur(t)))) /\ Same /\ UNCHANGED <<made, hist>>

Remove(t) ==
  /\ Section(t, "remove", Outcome(req[t].as, Value(Cur(t))))
  /\ IF Found(t) THEN Store(t, Absent) ELSE Same
  /\ UNCHANGED <<made, hist>>

RemoveIf(t) ==
  /\ LET hit == Found(t) /\ Cur(t) = req[t].old
     IN Section(t, "remove_if", Ok(hit)) /\ IF hit THEN Store(t, Absent) ELSE Same
  /\ UNCHANGED <<made, hist>>

(* A node that is inserted holds Null before its value is swapped with the   *)
(* argument, so that every case returns what was swapped out.                *)
Set(t) ==
  /\ Section(t, "set", Ok(Value(Cur(t))))
  /\ Store(t, Given(t)) /\ Made(t) /\ UNCHANGED hist

ServletSet(t) ==
  /\ Section(t, "servlet_set", AsRef(Given(t)))
  /\ Store(t, Given(t)) /\ Made(t) /\ UNCHANGED hist

Emplace(t) ==
  /\ Section(t, "emplace", Ok(Value(Cur(t))))
  /\ IF Found(t) THEN Same ELSE Store(t, Given(t))
  /\ Made(t) /\ UNCHANGED hist

Replace(t) ==
  /\ Section(t, "replace", Ok(Value(Cur(t))))
  /\ IF Found(t) THEN Store(t, Given(t)) ELSE Same
  /\ Made(t) /\ UNCHANGED hist

ReplaceIf(t) ==
  /\ LET hit == Found(t) /\ Cur(t) = req[t].old
     IN Section(t, "replace_if", Ok(hit)) /\ IF hit THEN Store(t, Given(t)) ELSE Same
  /\ Made(t) /\ UNCHANGED hist

(* The move constructor, with the new set destroyed by its owner.            *)
MoveOut(t) ==
  /\ Section(t, "move", Ok(Null))
  /\ map' = [map EXCEPT ![req[t].set] = [k \in Keys |-> Absent]]
  /\ departed' = departed \cup {map[req[t].set][k] : k \in Keys}
  /\ Attend /\ UNCHANGED <<made, hist>>

----------------------------------------------------------------------------
(* compute(key, f): f works on a copy, with the lock held.                   *)

(* Fault: f runs without the lock.                                           *)
ComputeBeginUnlocked(t) ==
  /\ pc[t] = "lock" /\ req[t].op = "compute" /\ guard[req[t].set] = NoThread
  /\ pc' = [pc EXCEPT ![t] = "compute"]
  /\ arg' = [arg EXCEPT ![t] = <<req[t].key, Value(Cur(t))>>]
  /\ UNCHANGED <<guard, map, req, res, visited, made, hist, departed, must>>

ComputeBegin(t) ==
  /\ pc[t] = "lock" /\ req[t].op = "compute" /\ guard[req[t].set] = NoThread
  /\ guard' = [guard EXCEPT ![req[t].set] = t]
  /\ pc' = [pc EXCEPT ![t] = "compute"]
  /\ arg' = [arg EXCEPT ![t] = <<req[t].key, Value(Cur(t))>>]
  /\ UNCHANGED <<map, req, res, visited, made, hist, departed, must>>

(* Fault: Null is stored instead of erasing the entry.                       *)
ComputeEndNull(t) ==
  /\ pc[t] = "compute" /\ pc' = [pc EXCEPT ![t] = "done"]
  /\ guard' = [guard EXCEPT ![req[t].set] = NoThread]
  /\ LET out == Transform(req[t], arg[t][2], made + 1)
         end == Finish(req[t], out)
     IN /\ IF out.thrown THEN Same ELSE Store(t, out.val)
        /\ made' = IF out.val = made + 1 THEN made + 1 ELSE made
        /\ res' = [res EXCEPT ![t] = end]
        /\ given' = IF end.kind = "ok" /\ out.val # Null THEN given \cup {out.val} ELSE given
  /\ arg' = [arg EXCEPT ![t] = Null]
  /\ UNCHANGED <<req, visited, calls>>

(* An exception of f unlocks and changes nothing; Null is not stored.        *)
ComputeEnd(t) ==
  /\ pc[t] = "compute" /\ pc' = [pc EXCEPT ![t] = "done"]
  /\ guard' = [guard EXCEPT ![req[t].set] = NoThread]
  /\ LET out == Transform(req[t], arg[t][2], made + 1)
         end == Finish(req[t], out)
     IN /\ IF out.thrown THEN Same ELSE Store(t, IF out.val = Null THEN Absent ELSE out.val)
        /\ made' = IF out.val = made + 1 THEN made + 1 ELSE made
        /\ res' = [res EXCEPT ![t] = end]
        /\ given' = IF end.kind = "ok" /\ out.val # Null THEN given \cup {out.val} ELSE given
  /\ arg' = [arg EXCEPT ![t] = Null]
  /\ UNCHANGED <<req, visited, calls>>

----------------------------------------------------------------------------
(* swap(other): std::lock starts with one of the two.                        *)

Pair(t) == {req[t].set, req[t].other}

SwapFirst(t) ==
  /\ pc[t] = "lock" /\ req[t].op = "swap" /\ pc' = [pc EXCEPT ![t] = "swap_try"]
  /\ \E s \in Pair(t) : guard[s] = NoThread /\ guard' = [guard EXCEPT ![s] = t]
  /\ UNCHANGED <<map, req, res, arg, visited, made, hist, departed, must>>

SwapBoth(t) ==
  /\ pc[t] = "swap_try" /\ pc' = [pc EXCEPT ![t] = "done"]
  /\ \A s \in Pair(t) : guard[s] \in {t, NoThread}
  /\ guard' = [s \in Sets |-> IF s \in Pair(t) THEN NoThread ELSE guard[s]]
  /\ LET a == req[t].set  b == req[t].other
     IN map' = [map EXCEPT ![a] = map[b], ![b] = map[a]]
  /\ res' = [res EXCEPT ![t] = Ok(Null)]
  /\ Attend /\ UNCHANGED <<req, arg, visited, made, hist, departed>>

(* Fault: the first lock is kept.                                            *)
SwapBackKeep(t) ==
  /\ pc[t] = "swap_try" /\ pc' = [pc EXCEPT ![t] = "lock"]
  /\ \E s \in Pair(t) : guard[s] \notin {t, NoThread}
  /\ UNCHANGED <<guard, map, req, res, arg, visited, made, hist, departed, must>>

SwapBack(t) ==
  /\ pc[t] = "swap_try" /\ pc' = [pc EXCEPT ![t] = "lock"]
  /\ \E s \in Pair(t) : guard[s] \notin {t, NoThread}
  /\ guard' = [s \in Sets |-> IF guard[s] = t THEN NoThread ELSE guard[s]]
  /\ UNCHANGED <<map, req, res, arg, visited, made, hist, departed, must>>

----------------------------------------------------------------------------
(* foreach(f).                                                               *)

Mapped(t) == {k \in Keys : map[req[t].set][k] # Absent}

(* Fault: the position is the number of entries visited.                     *)
OnwardByCount(t) ==
  {k \in Mapped(t) : Cardinality({j \in Mapped(t) : Less(j, k)}) >= Len(visited[t])}

(* The entries from begin(), lower_bound or upper_bound on.                  *)
Onward(t) ==
  LET r == req[t]
  IN IF visited[t] # <<>>         THEN {k \in Mapped(t) : Less(visited[t][Len(visited[t])], k)}
     ELSE IF r.mode = "all"       THEN Mapped(t)
     ELSE IF r.mode = "prefix" \/ r.include_min
                                  THEN {k \in Mapped(t) : ~Less(k, r.min)}
     ELSE {k \in Mapped(t) : Less(r.min, k)}

(* The entries that end the loops.                                           *)
PrefixEnd(r, k) == SubSeq(k, 1, Min({Len(k), Len(r.min)})) # r.min
RangeEnd(r, k)  == Less(r.max, k) \/ (~r.include_max /\ k = r.max)

Beyond(t, k) ==
  \/ req[t].mode = "prefix" /\ PrefixEnd(req[t], k)
  \/ req[t].mode = "range" /\ RangeEnd(req[t], k)

(* With the lock taken anew: the next entry is copied, or the loop ends.     *)
ForeachNext(t) ==
  /\ pc[t] = "lock" /\ req[t].op = "foreach" /\ guard[req[t].set] = NoThread
  /\ LET next == {k \in Onward(t) : \A j \in Onward(t) : ~Less(j, k)}
     IN \/ /\ \A k \in next : Beyond(t, k)
           /\ pc' = [pc EXCEPT ![t] = "done"]
           /\ res' = [res EXCEPT ![t] = [kind |-> "end", val |-> Len(visited[t])]]
           /\ UNCHANGED arg
        \/ \E k \in next :
           /\ ~Beyond(t, k)
           /\ pc' = [pc EXCEPT ![t] = "visit"]
           /\ arg' = [arg EXCEPT ![t] = <<k, map[req[t].set][k]>>]
           /\ UNCHANGED res
  /\ UNCHANGED <<guard, map, req, visited, made, hist, departed, must>>

(* f returns true to go on; the entry at which it stops is not counted.      *)
Visit(t) ==
  /\ pc[t] = "visit"
  /\ visited' = [visited EXCEPT ![t] = Append(@, arg[t][1])]
  /\ arg' = [arg EXCEPT ![t] = Null]
  /\ \/ pc' = [pc EXCEPT ![t] = "lock"] /\ UNCHANGED res
     \/ /\ pc' = [pc EXCEPT ![t] = "done"]
        /\ res' = [res EXCEPT ![t] = [kind |-> "stopped", val |-> Len(visited[t])]]
  /\ UNCHANGED <<guard, map, req, made, hist, departed, must>>

----------------------------------------------------------------------------
Call(t) ==
  /\ pc[t] = "idle" /\ pc' = [pc EXCEPT ![t] = "lock"]
  /\ calls < MaxCalls /\ calls' = calls + 1
  /\ \E r \in Requests :
       /\ req' = [req EXCEPT ![t] = r]
       /\ must' = [must EXCEPT ![t] =
            IF r.op = "foreach" THEN {k \in Keys : InRange(r, k) /\ map[r.set][k] # Absent} ELSE {}]
  /\ UNCHANGED <<guard, map, res, arg, visited, made, given, departed>>

Return(t) ==
  /\ pc[t] = "done" /\ pc' = [pc EXCEPT ![t] = "idle"]
  /\ req' = [req EXCEPT ![t] = NoReq] /\ res' = [res EXCEPT ![t] = Ok(Null)]
  /\ visited' = [visited EXCEPT ![t] = <<>>] /\ must' = [must EXCEPT ![t] = {}]
  /\ UNCHANGED <<guard, map, arg, made, hist, departed>>

(* std::terminate ends every thread.                                         *)
Running  == \A t \in Threads : res[t].kind # "terminate"
Finished == (~Running \/ (calls = MaxCalls /\ \A t \in Threads : pc[t] = "idle")) /\ UNCHANGED vars

Step(t) ==
  \/ Call(t) \/ Return(t)
  \/ Contains(t) \/ Get(t) \/ Remove(t) \/ RemoveIf(t) \/ Set(t) \/ ServletSet(t)
  \/ Emplace(t) \/ Replace(t) \/ ReplaceIf(t) \/ MoveOut(t)
  \/ ComputeBegin(t) \/ ComputeEnd(t)
  \/ SwapFirst(t) \/ SwapBoth(t) \/ SwapBack(t)
  \/ ForeachNext(t) \/ Visit(t)

Next == (Running /\ \E t \in Threads : Step(t)) \/ Finished

Spec == Init /\ [][Next]_vars

----------------------------------------------------------------------------
(* Properties.                                                               *)

(* A foreach() calls f in strictly ascending order of keys and only for keys *)
(* it was asked for; one that comes to the end has called f with every such  *)
(* key that was mapped from its beginning to its end, whatever other threads *)
(* and f itself did to the set between two calls, and returns their number.  *)
ForeachComplete ==
  \A t \in Threads : pc[t] \in {"lock", "visit", "done"} =>
    /\ \A i \in DOMAIN visited[t] : InRange(req[t], visited[t][i])
    /\ \A i, j \in DOMAIN visited[t] : i < j => Less(visited[t][i], visited[t][j])
    /\ pc[t] = "done" /\ req[t].op = "foreach" /\ res[t].kind = "end" =>
         must[t] \subseteq Range(visited[t])

(* ret() and add() on several threads agree on one servlet: an object that a *)
(* caller was given stays the mapped one until somebody removes or replaces  *)
(* it on purpose; a concurrent ret() or add() never displaces it.            *)
OneServlet == \A v \in given \ departed : \E s \in Sets, k \in Keys : map[s][k] = v

(* What a caller sees of a call: that it has begun or is done, and the pair  *)
(* that foreach() calls f with.                                              *)
Phase == [t \in Threads |-> IF pc[t] \in {"idle", "done"} THEN pc[t] ELSE "called"]
Shown == [t \in Threads |-> IF pc[t] = "visit" THEN arg[t] ELSE Null]

Map == INSTANCE AttributeMap WITH phase <- Phase, arg <- Shown

(* attribute_set does what its header says of each operation, in one step    *)
(* between call and return; taking locks, backing off in swap() and calling  *)
(* f inside compute() cannot be observed.                                    *)
ImplementsMap == Map!Spec
=============================================================================
