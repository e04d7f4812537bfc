------------------------------ MODULE OutQueue ------------------------------
(***************************************************************************)
(* What the write side of a session promises: items are accepted at the    *)
(* end of a queue; the whole queue is taken out when the previous batch is *)
(* done with; the batch is sent front to back; nothing else happens to it. *)
(***************************************************************************)
EXTENDS Naturals, SequencesExt

VARIABLES
  queue,  (* accepted, not yet taken                                         *)
  out,    (* the batch taken                                                 *)
  sent,   (* how many of the batch have been sent                            *)
  log     (* everything sent so far                                          *)

vars == <<queue, out, sent, log>>

Init == queue = <<>> /\ out = <<>> /\ sent = 0 /\ log = <<>>

Accept == /\ IsStrictPrefix(queue, queue')
          /\ UNCHANGED <<out, sent, log>>

Take == /\ out = <<>> /\ queue # <<>>
        /\ out' = queue /\ queue' = <<>>
        /\ UNCHANGED <<sent, log>>

Send == /\ sent < sent' /\ sent' <= Len(out)
        /\ log' = log \o SubSeq(out, sent + 1, sent')
        /\ UNCHANGED <<queue, out>>

Done == /\ out # <<>> /\ sent = Len(out)
        /\ out' = <<>> /\ sent' = 0
        /\ UNCHANGED <<queue, log>>

Next == Accept \/ Take \/ Send \/ Done

Spec == Init /\ [][Next]_vars
=============================================================================
