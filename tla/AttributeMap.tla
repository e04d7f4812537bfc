---------------------------- MODULE AttributeMap ----------------------------
(***************************************************************************)
(* What attribute_set promises to its callers, as attribute_set.hpp states *)
(* it: every operation is one atomic step on a map, written there in terms *)
(* of contains(), get(), set() and remove(), between its call and its      *)
(* return.  foreach() is not atomic: each pair given to f was in the map   *)
(* at some time during the call, and no key is given twice.                *)
(***************************************************************************)
EXTENDS Servlets

CONSTANTS Threads, Sets, Keys, Requests

VARIABLES
  map,     (* map[s][k]: an object, Null, or Absent                          *)
  phase,   (* of each thread: "idle", "called" or "done"                     *)
  req, res, (* the call and its result                                       *)
  arg,     (* foreach: the pair that f is called with                        *)
  visited, (* foreach: the keys given to f                                   *)
  made     (* objects created so far                                         *)

vars == <<map, phase, req, res, arg, visited, made>>

Init ==
  /\ map \in [Sets -> [Keys -> {Raw, Null, Absent}]]
  /\ phase = [t \in Threads |-> "idle"]
  /\ req = [t \in Threads |-> NoReq] /\ res = [t \in Threads |-> Ok(Null)]
  /\ arg = [t \in Threads |-> Null] /\ visited = [t \in Threads |-> <<>>]
  /\ made = 0

----------------------------------------------------------------------------
(* contains, get, set, remove: the words the other operations are stated in. *)

contains(m, k)  == m[k] # Absent
get(m, k)       == IF contains(m, k) THEN m[k] ELSE Null
set(m, k, v)    == [m EXCEPT ![k] = v]
remove(m, k)    == [m EXCEPT ![k] = Absent]

Fresh(r) == r.val = New
Given(r) == IF Fresh(r) THEN made + 1 ELSE r.val
Made(r)  == made' = IF Fresh(r) THEN made + 1 ELSE made

(* The call of t takes effect: its set becomes m, it returns out.            *)
Effect(t, m, out) ==
  /\ phase[t] = "called" /\ phase' = [phase EXCEPT ![t] = "done"]
  /\ map' = [map EXCEPT ![req[t].set] = m]
  /\ res' = [res EXCEPT ![t] = out]
  /\ UNCHANGED <<req, arg, visited>>

Read(t, r, m) ==
  /\ r.op \in {"contains", "get"} /\ UNCHANGED made
  /\ \/ r.op = "contains" /\ Effect(t, m, Ok(contains(m, r.key)))
     \/ r.op = "get"      /\ Effect(t, m, Outcome(r.as, get(m, r.key)))

Remove(t, r, m) ==
  /\ r.op = "remove" /\ UNCHANGED made
  /\ Effect(t, remove(m, r.key), Outcome(r.as, get(m, r.key)))

Update(t, r, m) ==
  /\ r.op \in {"set", "servlet_set", "emplace", "replace"} /\ Made(r)
  /\ \/ r.op = "set" /\ Effect(t, set(m, r.key, Given(r)), Ok(get(m, r.key)))
     \/ r.op = "servlet_set" /\ Effect(t, set(m, r.key, Given(r)), AsRef(Given(r)))
     \/ /\ r.op = "emplace"
        /\ IF ~contains(m, r.key)
             THEN Effect(t, set(m, r.key, Given(r)), Ok(get(m, r.key)))
             ELSE Effect(t, m, Ok(get(m, r.key)))
     \/ /\ r.op = "replace"
        /\ IF contains(m, r.key)
             THEN Effect(t, set(m, r.key, Given(r)), Ok(get(m, r.key)))
             ELSE Effect(t, m, Ok(Null))

Conditional(t, r, m) ==
  /\ r.op \in {"remove_if", "replace_if"}
  /\ LET hit == contains(m, r.key) /\ get(m, r.key) = r.old
     IN \/ /\ r.op = "remove_if" /\ UNCHANGED made
           /\ Effect(t, IF hit THEN remove(m, r.key) ELSE m, Ok(hit))
        \/ /\ r.op = "replace_if" /\ Made(r)
           /\ Effect(t, IF hit THEN set(m, r.key, Given(r)) ELSE m, Ok(hit))

(* If f throws, the map is as before.                                        *)
Compute(t, r, m) ==
  /\ r.op = "compute"
  /\ LET out == Transform(r, get(m, r.key), made + 1)
     IN /\ Effect(t, IF out.thrown THEN m
                     ELSE IF out.val # Null THEN set(m, r.key, out.val) ELSE remove(m, r.key),
                  Finish(r, out))
        /\ made' = IF out.val = made + 1 THEN made + 1 ELSE made

Swap(t, r) ==
  /\ r.op = "swap"
  /\ phase[t] = "called" /\ phase' = [phase EXCEPT ![t] = "done"]
  /\ map' = [map EXCEPT ![r.set] = map[r.other], ![r.other] = map[r.set]]
  /\ res' = [res EXCEPT ![t] = Ok(Null)]
  /\ UNCHANGED <<req, arg, visited, made>>

(* Moved into another set, which its caller destroys.                        *)
Move(t, r) ==
  /\ r.op = "move" /\ Effect(t, [k \in Keys |-> Absent], Ok(Null))
  /\ UNCHANGED made

----------------------------------------------------------------------------
(* foreach().                                                                *)

Pick(t, r, m) ==
  /\ r.op = "foreach" /\ phase[t] = "called" /\ arg[t] = Null
  /\ \E k \in Keys : /\ contains(m, k) /\ InRange(r, k)
                     /\ \A i \in DOMAIN visited[t] : visited[t][i] # k
                     /\ arg' = [arg EXCEPT ![t] = <<k, get(m, k)>>]
  /\ UNCHANGED <<map, phase, req, res, visited, made>>

End(t, r) ==
  /\ r.op = "foreach" /\ phase[t] = "called" /\ arg[t] = Null
  /\ phase' = [phase EXCEPT ![t] = "done"]
  /\ res' = [res EXCEPT ![t] = [kind |-> "end", val |-> Len(visited[t])]]
  /\ UNCHANGED <<map, req, arg, visited, made>>

(* The entry at which f says stop is not counted.                            *)
Visit(t) ==
  /\ arg[t] # Null
  /\ arg' = [arg EXCEPT ![t] = Null]
  /\ visited' = [visited EXCEPT ![t] = Append(@, arg[t][1])]
  /\ \/ UNCHANGED <<phase, res>>
     \/ /\ phase' = [phase EXCEPT ![t] = "done"]
        /\ res' = [res EXCEPT ![t] = [kind |-> "stopped", val |-> Len(visited[t])]]
  /\ UNCHANGED <<map, req, made>>

----------------------------------------------------------------------------
Call(t) ==
  /\ phase[t] = "idle" /\ phase' = [phase EXCEPT ![t] = "called"]
  /\ \E r \in Requests : req' = [req EXCEPT ![t] = r]
  /\ UNCHANGED <<map, res, arg, visited, made>>

Return(t) ==
  /\ phase[t] = "done" /\ phase' = [phase EXCEPT ![t] = "idle"]
  /\ req' = [req EXCEPT ![t] = NoReq] /\ res' = [res EXCEPT ![t] = Ok(Null)]
  /\ visited' = [visited EXCEPT ![t] = <<>>]
  /\ UNCHANGED <<map, arg, made>>

Perform(t, r) ==
  \/ Read(t, r, map[r.set]) \/ Remove(t, r, map[r.set]) \/ Update(t, r, map[r.set])
  \/ Conditional(t, r, map[r.set]) \/ Compute(t, r, map[r.set]) \/ Swap(t, r) \/ Move(t, r)
  \/ Pick(t, r, map[r.set]) \/ End(t, r)

Next == \E t \in Threads :
  \/ Call(t) \/ (phase[t] = "called" /\ Perform(t, req[t])) \/ Visit(t) \/ Return(t)

Spec == Init /\ [][Next]_vars
=============================================================================
