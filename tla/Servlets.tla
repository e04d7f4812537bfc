------------------------------ MODULE Servlets ------------------------------
(***************************************************************************)
(* The values that move through an attribute_set, without its state: keys  *)
(* and their order, what a caller makes of an object it gets back, and the *)
(* functions that servlets passes to compute().                            *)
(*                                                                         *)
(* A key is a sequence of small numbers.  The servlet of type x and        *)
(* instance y has the key <<x>> \o y, so that its instances have the key   *)
(* without instance as a prefix.  Object 0 has a type that is no servlet's *)
(* and the others are servlets of the type that their key names.           *)
(***************************************************************************)
EXTENDS Integers, Sequences
Seqs == INSTANCE SequencesExt

CONSTANTS
  Null,   (* the null object                                                 *)
  Absent, (* no mapping                                                      *)
  New     (* as an argument: an object created for the call                  *)

Raw == 0
Id(type, instance) == <<type>> \o instance

Ok(v)   == [kind |-> "ok", val |-> v]
Fail(e) == [kind |-> e, val |-> Null]

(* Of a thread that is in no call.                                           *)
NoReq == [op |-> "none"]

----------------------------------------------------------------------------
(* Keys are compared as strings are.                                         *)

Less(j, k) ==
  \E n \in 0..Len(j) :
    /\ n < Len(k) /\ \A i \in 1..n : j[i] = k[i]
    /\ n = Len(j) \/ j[n + 1] < k[n + 1]

(* The keys a foreach() is about, whatever way it finds them.                *)
InRange(r, k) ==
  \/ r.mode = "all"
  \/ r.mode = "prefix" /\ Seqs!IsPrefix(r.min, k)
  \/ /\ r.mode = "range"
     /\ Less(r.min, k) \/ (r.include_min /\ k = r.min)
     /\ Less(k, r.max) \/ (r.include_max /\ k = r.max)

----------------------------------------------------------------------------
(* What callers get: an object, or an exception.                             *)

(* object::ref<T>, object::ptr<T>.                                           *)
AsRef(v) == IF v \in {Null, Raw} THEN Fail("type_mismatch") ELSE Ok(v)
AsPtr(v) == IF v = Raw THEN Fail("bad_object_cast") ELSE Ok(v)

(* get<Value>(key) and get(key, value), which is false for Null.             *)
GetValue(v) == IF v = Null THEN Fail("out_of_range") ELSE AsPtr(v)
GetInto(v)  == Ok(IF v = Raw THEN Null ELSE v)

(* servlets::get(), del() and remove(), which is noexcept.                   *)
ServletGet(v)    == IF v = Null THEN Fail("not_exists") ELSE AsRef(v)
ServletDel(v)    == IF v = Null THEN Fail("not_exists") ELSE AsRef(v)
ServletRemove(v) == IF AsPtr(v).kind = "ok" THEN AsPtr(v) ELSE Fail("terminate")

Outcome(as, v) ==
  [object |-> Ok(v), value |-> GetValue(v), into |-> GetInto(v),
   get |-> ServletGet(v), del |-> ServletDel(v), remove |-> ServletRemove(v)][as]

----------------------------------------------------------------------------
(* The functions given to compute(): val becomes the mapping (Null for none),*)
(* srv is what the caller goes on with, unless the function threw.           *)

Leave(v, s) == [val |-> v, srv |-> s, thrown |-> FALSE, kind |-> "ok"]
Throw(e)    == [val |-> Null, srv |-> Null, thrown |-> TRUE, kind |-> e]

RetF(v, new) == IF v = Null THEN Leave(new, new) ELSE Leave(v, v)
AddF(v, new) == IF v = Null THEN Leave(new, new) ELSE Leave(v, Null)

(* built: T is constructible from the arguments.                             *)
OpF(op, v, new, built) ==
  IF op \in {"get", "del"} /\ v = Null         THEN Throw("not_exists")
  ELSE IF op = "get"                           THEN Leave(v, v)
  ELSE IF op = "del"                           THEN Leave(Null, v)
  ELSE IF op = "ret" /\ v # Null               THEN Leave(v, v)
  ELSE IF op = "add" /\ v # Null               THEN Throw("already_exists")
  ELSE IF built                                THEN Leave(new, new)
  ELSE Throw("params_error")

(* The two last are functions of a user.                                     *)
Transform(r, v, new) ==
  [ret |-> RetF(v, new), add |-> AddF(v, new), op |-> OpF(r.ops, v, new, r.built),
   clear |-> Leave(Null, Null), throw |-> Throw("thrown")][r.f]

(* After compute(): servlets::ret() and op() cast, add() looks first.        *)
Finish(r, out) ==
  IF out.thrown THEN Fail(out.kind)
  ELSE IF r.f = "clear" THEN Ok(Null)
  ELSE IF r.f = "add" /\ out.srv = Null THEN Fail("already_exists")
  ELSE AsRef(out.srv)

(* The functions that take the object mapped so far out of the set.          *)
Displaces(r) == r.op # "compute" \/ r.f = "clear" \/ (r.f = "op" /\ r.ops \in {"set", "del"})
=============================================================================
