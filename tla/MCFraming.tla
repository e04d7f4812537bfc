----------------------------- MODULE MCFraming -----------------------------
EXTENDS Framing

(* The settings tried: each protocol with the options that change how it     *)
(* reads; a delimiter of one and of two bytes; a varint as large as the word *)
(* and beyond; buffers that a packet fills exactly.                          *)
Base == [proto |-> "any", width |-> 1, delim |-> <<>>, size |-> 2,
         keep |-> FALSE, ignore |-> FALSE, little |-> FALSE, incl |-> FALSE]

MCConfigs ==
  { [Base EXCEPT !.size = 3],
    [Base EXCEPT !.proto = "none"],
    [Base EXCEPT !.proto = "fixed", !.keep = TRUE],
    [Base EXCEPT !.proto = "delim", !.delim = <<3>>, !.ignore = TRUE, !.keep = TRUE],
    [Base EXCEPT !.proto = "delim", !.delim = <<3, 1>>, !.size = 4],
    [Base EXCEPT !.proto = "prefix", !.size = 3, !.incl = TRUE],
    [Base EXCEPT !.proto = "prefix", !.width = 2, !.size = 4, !.little = TRUE],
    [Base EXCEPT !.proto = "prefix", !.size = 3, !.ignore = TRUE, !.keep = TRUE],
    [Base EXCEPT !.proto = "var", !.size = 5],
    [Base EXCEPT !.proto = "var", !.size = 4, !.little = TRUE, !.ignore = TRUE] }

(* prefix_64: as wide as std::uintmax_t.                                     *)
WrapConfigs == {[Base EXCEPT !.proto = "prefix", !.width = Word, !.size = 4]}
============================================================================
