------------------------------ MODULE Framing ------------------------------
(***************************************************************************)
(* How session::read() cuts the received byte stream into packets, over    *)
(* the triple_buffer                                                       *)
(*                                                                         *)
(*      external input | internal input | output                           *)
(*                                                                         *)
(* The handler may switch to another protocol, buffer size and options in  *)
(* every callback, so a read starts with whatever the previous protocol    *)
(* left in the internal input.  One chain of reads runs at a time (see     *)
(* SingleReader in Session), hence no threads here.                        *)
(*                                                                         *)
(* Bytes are scaled down: Byte = 0..2*Half-1, the upper half has the       *)
(* continuation bit of a varint, and std::uintmax_t has Word bytes (2*Half *)
(* stands for 256, Word for 8).  DynamicBuffer_v2 (Boost 1.70 and later)   *)
(* is modelled.                                                            *)
(***************************************************************************)
EXTENDS Naturals, SequencesExt

CONSTANTS
  Half, Word,
  Configs,     (* settings the handler chooses from, see Config              *)
  MaxBytes     (* bound: bytes received                                      *)

Byte  == 0..(2 * Half - 1)
Junk  == 2 * Half     (* what resize() or an earlier read left in the output *)

(* b to the n.  A function defined over an interval, as every recursion      *)
(* here, can be reasoned about.                                              *)
Power(b, n) == LET p[i \in 0..n] == IF i = 0 THEN 1 ELSE b * p[i - 1] IN p[n]

Limit == Power(2 * Half, Word)

(* protocol, width of prefix or delimiter, read_buffer_size_ and options.    *)
Config == [proto  : {"none", "any", "fixed", "delim", "prefix", "var"},
           width  : Nat, delim : Seq(Byte), size : Nat \ {0},
           keep   : BOOLEAN,   (* do_not_consume_buffer                      *)
           ignore : BOOLEAN,   (* ignore_protocol_bytes                      *)
           little : BOOLEAN,   (* use_little_endian                          *)
           incl   : BOOLEAN]   (* include_prefix_in_payload                  *)

ASSUME FramingAssumption ==
  /\ Half \in Nat \ {0} /\ Word \in Nat \ {0} /\ MaxBytes \in Nat
  /\ Configs # {} /\ \A c \in Configs : c \in Config
  /\ \A c \in Configs : c.proto = "prefix" => c.width \in 1..Word
  (* a varint of Word + 1 bytes, added to its length, fits the word          *)
  /\ Power(Half, Word + 1) + Word < Limit

VARIABLES
  cfg,       (* protocol_, protocol_options_, read_buffer_size_, delimiter_  *)
  external, internal, output,   (* buf_                                      *)
  view,      (* the mutable_buffer the handler sees: offset and length       *)
  pc, arg,   (* the function that runs, and its parameter                    *)
  need,      (* bytes the outstanding operation waits for                    *)
  post,      (* delimiter bytes to skip when the handler returns             *)
  total,     (* bytes received so far                                        *)
  taken      (* history: the stream from the start of the current packet     *)

buf  == <<external, internal, output, view>>
vars == <<cfg, buf, pc, arg, need, post, total, taken>>

Labels == {"read", "some", "fixed", "delim", "prefix", "handler", "return",
           "wait_some", "wait_fixed", "wait_delim", "wait_prefix",
           "idle", "failed", "eof"}
Waiting == {"wait_some", "wait_fixed", "wait_delim", "wait_prefix"}

TypeOK ==
  /\ cfg \in Configs
  /\ external \in Seq(Byte) /\ internal \in Seq(Byte)
  /\ output \in Seq(Byte \cup {Junk})
  /\ view \in [at : Nat, len : Nat]
  /\ pc \in Labels /\ arg \in Nat /\ need \in Nat /\ post \in Nat
  /\ total \in 0..MaxBytes /\ taken \in Seq(Byte \cup {Junk})

Init ==
  /\ cfg \in Configs
  /\ external = <<>> /\ internal = <<>> /\ output = <<>>
  /\ view = [at |-> 0, len |-> 0]
  /\ pc = "read" /\ arg = 0 /\ need = 0 /\ post = 0
  /\ total = 0 /\ taken = <<>>

----------------------------------------------------------------------------
(* triple_buffer.                                                            *)

Least(m, n)    == IF m <= n THEN m ELSE n
Take(s, n)     == SubSeq(s, 1, n)
Rest(s, n)     == SubSeq(s, n + 1, Len(s))
Prepared(n)    == [i \in 1..n |-> Junk]                (* prepare_output_buffer *)
Marked(e)      == [at |-> 0, len |-> Len(e)]           (* mark_current_...      *)
NewSegment(e)  == [at |-> view.len, len |-> Len(e) - view.len]

(* commit_to_external_input(n), move_to_new_external_input_segment(), and    *)
(* the call of handler::read; skip is committed after it.                    *)
Deliver(e, i, n, skip) ==
  LET m == Least(n, Len(i))
  IN  /\ external' = e \o Take(i, m)
      /\ internal' = Rest(i, m)
      /\ view' = NewSegment(external')
      /\ pc' = "handler" /\ post' = skip

(* commit_to_internal_input of what an operation brought.                    *)
Received(s) == /\ total + Len(s) <= MaxBytes /\ total' = total + Len(s)
               /\ taken' = taken \o s

Await(l, n) == pc' = l /\ need' = n

(* check() with an error of the protocol itself.                             *)
Fail == pc' = "failed"

----------------------------------------------------------------------------
(* session::read().                                                          *)

Read ==
  /\ pc = "read"
  /\ external' = IF cfg.keep THEN external ELSE <<>>
  /\ view' = Marked(external')
  /\ CASE cfg.proto = "none"   -> pc' = "idle"   /\ arg' = 0
       [] cfg.proto = "any"    -> pc' = "some"   /\ arg' = cfg.size
       [] cfg.proto = "fixed"  -> pc' = "fixed"  /\ arg' = cfg.size
       [] cfg.proto = "delim"  -> arg' = cfg.size /\ pc' = IF cfg.delim = <<>> THEN "some" ELSE "delim"
       [] cfg.proto = "prefix" -> pc' = "prefix" /\ arg' = cfg.width
       [] cfg.proto = "var"    -> pc' = "prefix" /\ arg' = 0
  /\ UNCHANGED <<cfg, internal, output, need, post, total, taken>>

----------------------------------------------------------------------------
(* read_some, read_fixed.                                                    *)

ReadSome ==
  /\ pc = "some"
  /\ \/ /\ internal # <<>> /\ Deliver(external, internal, arg, 0)
        /\ UNCHANGED <<output, need>>
     \/ /\ internal = <<>> /\ Await("wait_some", arg)
        /\ output' = Prepared(arg) /\ UNCHANGED <<external, internal, view, post>>
  /\ UNCHANGED <<cfg, arg, total, taken>>

SomeDone ==
  /\ pc = "wait_some"
  /\ \E n \in 1..need : \E s \in [1..n -> Byte] :
       /\ Received(s) /\ Deliver(external, internal \o s, Len(internal) + n, 0)
       /\ output' = Rest(output, n)
  /\ UNCHANGED <<cfg, arg, need>>

(* Fault: a buffered packet of exactly the size asked for is not noticed.    *)
ReadFixedStrict ==
  /\ pc = "fixed"
  /\ \/ /\ Len(internal) > arg /\ Deliver(external, internal, arg, 0)
        /\ UNCHANGED <<output, need>>
     \/ /\ Len(internal) <= arg /\ Await("wait_fixed", arg - Len(internal))
        /\ output' = Prepared(arg - Len(internal))
        /\ UNCHANGED <<external, internal, view, post>>
  /\ UNCHANGED <<cfg, arg, total, taken>>

ReadFixed ==
  /\ pc = "fixed"
  /\ \/ /\ Len(internal) >= arg /\ Deliver(external, internal, arg, 0)
        /\ UNCHANGED <<output, need>>
     \/ /\ Len(internal) < arg /\ Await("wait_fixed", arg - Len(internal))
        /\ output' = Prepared(arg - Len(internal))
        /\ UNCHANGED <<external, internal, view, post>>
  /\ UNCHANGED <<cfg, arg, total, taken>>

FixedDone ==
  /\ pc = "wait_fixed"
  /\ \E s \in [1..need -> Byte] :
       /\ Received(s) /\ Deliver(external, internal \o s, Len(internal) + need, 0)
       /\ output' = Rest(output, need)
  /\ UNCHANGED <<cfg, arg, need>>

----------------------------------------------------------------------------
(* read_delim: async_read_until looks for the delimiter in the internal      *)
(* input and the output, which it treats as one buffer of at most arg bytes. *)

Ends(d, s) == {n \in Len(d)..Len(s) : SubSeq(s, n - Len(d) + 1, n) = d}

(* What async_read_until decides about the bytes s.                          *)
Search(s) ==
  LET d == cfg.delim
      ends == Ends(d, Take(s, Least(Len(s), arg)))
      skip == IF cfg.ignore THEN Len(d) ELSE 0
  IN  \/ /\ ends # {} /\ Deliver(external, s, Min(ends) - skip, skip)
         /\ output' = <<>> /\ UNCHANGED need
      \/ /\ ends = {} /\ Len(s) >= arg /\ Fail
         /\ output' = Rest(s, Len(internal)) /\ UNCHANGED <<external, internal, view, post, need>>
      \/ /\ ends = {} /\ Len(s) < arg /\ Await("wait_delim", arg - Len(s))
         /\ output' = Rest(s, Len(internal)) /\ UNCHANGED <<external, internal, view, post>>

(* Fault: the output of an earlier read is not removed.                      *)
ReadDelimNoShrink ==
  /\ pc = "delim" /\ Search(internal \o output)
  /\ UNCHANGED <<cfg, arg, total, taken>>

ReadDelim ==
  /\ pc = "delim" /\ Search(internal)
  /\ UNCHANGED <<cfg, arg, total, taken>>

DelimMore ==
  /\ pc = "wait_delim"
  /\ \E n \in 1..need : \E s \in [1..n -> Byte] : Received(s) /\ Search(internal \o output \o s)
  /\ UNCHANGED <<cfg, arg>>

----------------------------------------------------------------------------
(* read_prefix(len): arg is the length known so far, 0 to look for the end   *)
(* of a varint.                                                              *)

Continued(b)  == b >= Half
Value(s, base) ==
  LET u == IF cfg.little THEN s ELSE Reverse(s)
      v[i \in 0..Len(u)] == IF i = 0 THEN 0 ELSE v[i - 1] + (u[i] % base) * Power(base, i - 1)
  IN  v[Len(u)]

(* Fault: a packet that fills the buffer is refused.                         *)
ExceedsFull(n) == n >= cfg.size

(* Fault: a size the peer declares is taken as it is.                        *)
ExceedsNever(n) == n = Junk + MaxBytes + Limit

Exceeds(n) == n > cfg.size

(* The prefix is complete and len bytes long.                                *)
Decoded(len) ==
  LET head == Take(internal, len)
      v    == Value(head, IF cfg.proto = "var" THEN Half ELSE 2 * Half)
      size == IF cfg.incl THEN v - len ELSE v
      ext  == external \o head
  IN  IF (cfg.incl /\ v < len) \/ Exceeds((size + len) % Limit)
        THEN Fail /\ UNCHANGED <<arg, external, internal, view>>
        ELSE /\ pc' = "fixed" /\ arg' = size
             /\ external' = ext /\ internal' = Rest(internal, len)
             /\ view' = IF cfg.ignore THEN Marked(ext) ELSE view

ReadPrefix ==
  LET var  == cfg.proto = "var"
      stop == SelectInSeq(internal, LAMBDA b : ~Continued(b))
      len  == IF arg > 0 THEN arg ELSE IF stop > 0 THEN stop ELSE Len(internal) + 1
      more == var /\ Len(internal) >= len /\ Continued(internal[len])
      goal == IF more THEN len + 1 ELSE len
  IN  /\ pc = "prefix"
      /\ \/ /\ Len(internal) < goal /\ Exceeds(goal)
            /\ Fail /\ UNCHANGED <<arg, need, buf>>
         \/ /\ Len(internal) < goal /\ ~Exceeds(goal)
            /\ Await("wait_prefix", goal - Len(internal)) /\ arg' = goal
            /\ output' = Prepared(goal - Len(internal))
            /\ UNCHANGED <<external, internal, view>>
         \/ /\ Len(internal) >= goal /\ goal > Word + (IF var THEN 1 ELSE 0)
            /\ Fail /\ UNCHANGED <<arg, need, buf>>
         \/ /\ Len(internal) >= goal /\ goal <= Word + (IF var THEN 1 ELSE 0)
            /\ Decoded(goal) /\ UNCHANGED <<output, need>>
      /\ UNCHANGED <<cfg, post, total, taken>>

PrefixDone ==
  /\ pc = "wait_prefix" /\ pc' = "prefix"
  /\ \E s \in [1..need -> Byte] :
       Received(s) /\ internal' = internal \o s /\ output' = Rest(output, need)
  /\ UNCHANGED <<cfg, external, view, arg, need, post>>

----------------------------------------------------------------------------
(* The handler and the network.                                              *)

(* buffer::consume(n) by the handler.                                        *)
Consume ==
  /\ pc = "handler" /\ pc' = "return"
  /\ \E n \in 1..Len(external) :
       LET end == view.at + view.len
       IN  /\ external' = Rest(external, n)
           /\ view' = CASE n < view.at -> [at |-> view.at - n, len |-> end - (view.at - n)]
                        [] n >= view.at /\ n < end -> [at |-> 0, len |-> end - n]
                        [] OTHER -> [at |-> 0, len |-> 0]
  /\ UNCHANGED <<cfg, internal, output, arg, need, post, total, taken>>

(* Fault: the ignored delimiter stays in the internal input.                 *)
HandlerReturnKeep ==
  /\ pc \in {"handler", "return"} /\ pc' = "read"
  /\ cfg' \in Configs
  /\ post' = 0 /\ taken' = Rest(internal, post)
  /\ UNCHANGED <<buf, arg, need, total>>

(* The handler returns, having chosen the settings of the next read; the     *)
(* ignored delimiter goes to the external input.                             *)
HandlerReturn ==
  /\ pc \in {"handler", "return"} /\ pc' = "read"
  /\ cfg' \in Configs
  /\ LET m == Least(post, Len(internal))
     IN  external' = external \o Take(internal, m) /\ internal' = Rest(internal, m)
  /\ post' = 0 /\ taken' = Rest(internal, post)
  /\ UNCHANGED <<output, view, arg, need, total>>

ReadError == /\ pc \in Waiting /\ pc' = "eof"
             /\ UNCHANGED <<cfg, buf, arg, need, post, total, taken>>

(* After protocol::none nothing reads any more: read() is private.           *)
Stopped == pc \in {"idle", "failed", "eof"} /\ UNCHANGED vars

Next ==
  \/ Read \/ ReadSome \/ SomeDone \/ ReadFixed \/ FixedDone
  \/ ReadDelim \/ DelimMore \/ ReadPrefix \/ PrefixDone
  \/ Consume \/ HandlerReturn \/ ReadError \/ Stopped

Spec == Init /\ [][Next]_vars

----------------------------------------------------------------------------
(* Reference: what a packet is, regardless of how its bytes arrive.  A frame *)
(* of the stream s is its number of bytes, those of them that are protocol   *)
(* bytes before and after the body.                                          *)

Digits(s, base) ==
  LET d[i \in 0..Len(s)] == IF i = 0 THEN 0 ELSE d[i - 1] * base + (s[i] % base) IN d[Len(s)]

Number(c, s) == LET base == IF c.proto = "var" THEN Half ELSE 2 * Half
                IN  Digits(IF c.little THEN Reverse(s) ELSE s, base)

(* head, the first h bytes of a packet of n bytes, is a prefix that says so. *)
SaysSo(c, head, h, n) ==
  /\ CASE c.proto = "prefix" -> h = c.width
       [] c.proto = "var"    -> /\ h >= 1 /\ h <= Word + 1 /\ ~Continued(head[h])
                                /\ \A i \in 1..(h - 1) : Continued(head[i])
  /\ Number(c, head) = IF c.incl THEN n ELSE n - h

Frames(c, s) ==
  LET F == [len : 0..Len(s), head : 0..Len(s), tail : 0..Len(c.delim)]
  IN  CASE c.proto = "any" \/ (c.proto = "delim" /\ c.delim = <<>>) ->
             {f \in F : f.len \in 1..c.size /\ f.head = 0 /\ f.tail = 0}
        [] c.proto = "fixed" -> {f \in F : f.len = c.size /\ f.head = 0 /\ f.tail = 0}
        [] c.proto = "delim" /\ c.delim # <<>> ->
             {f \in F : /\ f.len <= c.size /\ f.head = 0 /\ f.tail = Len(c.delim)
                        /\ IsSuffix(c.delim, Take(s, f.len))
                        /\ \A n \in 0..(f.len - 1) : ~IsSuffix(c.delim, Take(s, n))}
        [] c.proto \in {"prefix", "var"} ->
             {f \in F : /\ f.len <= c.size /\ f.tail = 0 /\ f.head <= f.len
                        /\ SaysSo(c, Take(s, f.head), f.head, f.len)}
        [] OTHER -> {}

Payload(c, s, f) == IF c.ignore THEN SubSeq(s, f.head + 1, f.len - f.tail) ELSE Take(s, f.len)

----------------------------------------------------------------------------
(* Properties.                                                               *)

(* handler::read sees exactly one packet of the stream, its protocol bytes   *)
(* stripped when they are to be ignored, and the next read starts at the     *)
(* byte after it: no byte is lost, repeated or read from stale memory,       *)
(* however the stream was cut into segments and the protocol was switched.   *)
PacketExact ==
  pc = "handler" =>
    \E f \in Frames(cfg, taken) :
      /\ SubSeq(external, view.at + 1, view.at + view.len) = Payload(cfg, taken, f)
      /\ Rest(internal, post) = Rest(taken, f.len)

(* The reader does not wait for more while a whole packet is there.          *)
NoStall == pc \in Waiting => Frames(cfg, taken) = {}

(* A protocol error is raised only when no packet can be completed from the  *)
(* bytes received, however the stream goes on (two more bytes are tried).    *)
ErrorJustified ==
  pc = "failed" =>
    \A n \in 0..2 : \A more \in [1..n -> Byte] : Frames(cfg, taken \o more) = {}

(* read_buffer_size() bounds what one read stores: leftovers of an earlier   *)
(* protocol apart, a packet in progress never takes more (as long as the     *)
(* prefix is narrower than std::uintmax_t, see FixedFits).                   *)
BufferBound ==
  pc \in Waiting => Len(taken) + need <= cfg.size

(* The assertion of read_fixed(): it is never asked for more than            *)
(* read_buffer_size().  The check before it adds the prefix to the size      *)
(* modulo the word, which a prefix as wide as the word can make wrap.        *)
FixedFits == pc = "fixed" => arg <= cfg.size

(* "external input: access from handler::read()": what the handler sees lies *)
(* in the external input, after buffer::consume() too.                       *)
ViewInExternal ==
  pc \in {"handler", "return"} => view.at + view.len <= Len(external)
=============================================================================
