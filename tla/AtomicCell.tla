----------------------------- MODULE AtomicCell -----------------------------
(***************************************************************************)
(* What object::atomic promises: a cell whose operations take effect at    *)
(* one moment between their call and their return, as those of             *)
(* std::atomic<std::shared_ptr> would.                                     *)
(***************************************************************************)
EXTENDS Naturals

CONSTANTS Threads, Handles, Null

VARIABLES
  value,          (* the handle in the cell                                  *)
  phase, op,      (* each thread: "idle", "called" or "done", and with what  *)
  mine, desired   (* its variables: expected or argument, and desired        *)

cell == <<value, phase, op, mine, desired>>

Kinds == {"load", "exchange", "store", "compare", "set"}

CellInit ==
  /\ value = Null /\ phase = [t \in Threads |-> "idle"]
  /\ op = [t \in Threads |-> "none"]
  /\ mine = [t \in Threads |-> Null] /\ desired = [t \in Threads |-> Null]

(* A new object, or a new variable.                                          *)
Assign(t) ==
  /\ phase[t] = "idle"
  /\ \E h \in Handles : mine' = [mine EXCEPT ![t] = h]
  /\ UNCHANGED <<value, phase, op, desired>>

Call(t) ==
  /\ phase[t] = "idle" /\ phase' = [phase EXCEPT ![t] = "called"]
  /\ \E k \in Kinds : op' = [op EXCEPT ![t] = k]
  /\ \E h \in Handles : desired' = [desired EXCEPT ![t] = h]
  /\ UNCHANGED <<value, mine>>

Apply(t) ==
  /\ phase[t] = "called" /\ phase' = [phase EXCEPT ![t] = "done"]
  /\ \/ op[t] = "load" /\ mine' = [mine EXCEPT ![t] = value] /\ UNCHANGED value
     \/ op[t] = "store" /\ value' = desired[t] /\ UNCHANGED mine
     \/ /\ op[t] \in {"exchange", "set"}
        /\ value' = mine[t] /\ mine' = [mine EXCEPT ![t] = value]
     \/ /\ op[t] = "compare" /\ value = mine[t]
        /\ value' = desired[t] /\ UNCHANGED mine
     \/ /\ op[t] = "compare" /\ value # mine[t]
        /\ mine' = [mine EXCEPT ![t] = value] /\ UNCHANGED value
  /\ desired' = [desired EXCEPT ![t] = Null]
  /\ UNCHANGED op

Return(t) ==
  /\ phase[t] = "done" /\ phase' = [phase EXCEPT ![t] = "idle"]
  /\ op' = [op EXCEPT ![t] = "none"]
  /\ UNCHANGED <<value, mine, desired>>

CellNext == \E t \in Threads : Assign(t) \/ Call(t) \/ Apply(t) \/ Return(t)

Spec == CellInit /\ [][CellNext]_cell
=============================================================================
