--------------------------- MODULE MCAttributeSet ---------------------------
(* Instance of AttributeSet for TLC: two sets, keys of one type with and     *)
(* without instance and of another type, and one request of every kind.     *)
EXTENDS AttributeSet, TLC

CONSTANTS A, B

MCSets == {A, B}
K1     == Id(1, <<>>)
K12    == Id(1, <<2>>)
K2     == Id(2, <<>>)
MCKeys == {K1, K12, K2}

(* The second mapping of K1 does not count.                                  *)
MCLists == (A :> <<<<K1, Raw>>, <<K2, Null>>, <<K1, Null>>>>) @@ (B :> <<<<K12, Raw>>>>)

On(op, s, k)   == [op |-> op, set |-> s, key |-> k]
As(op, k, as)  == On(op, A, k) @@ [val |-> Null, as |-> as]
Val(op, k, v)  == On(op, A, k) @@ [val |-> v]
Cond(op, o, v) == On(op, A, K12) @@ [old |-> o, val |-> v]
Fn(k, f, ops, built) == On("compute", A, k) @@ [f |-> f, ops |-> ops, built |-> built]
Each(s, mode, min, max, imin, imax) ==
  [op |-> "foreach", set |-> s, mode |-> mode, min |-> min, max |-> max,
   include_min |-> imin, include_max |-> imax]

MCRequests ==
  {On("contains", A, K12), As("get", K12, "get"), As("get", K2, "value"), As("get", K12, "into"),
   As("remove", K1, "object"), As("remove", K12, "del"), As("remove", K12, "remove"),
   Cond("remove_if", 1, Null), Cond("replace_if", 1, Raw),
   Val("set", K12, Raw), Val("set", K2, Null), Val("servlet_set", K12, New),
   Val("emplace", K12, New), Val("replace", K12, New),
   Fn(K12, "ret", "ret", TRUE), Fn(K12, "add", "add", TRUE),
   Fn(K12, "op", "get", TRUE), Fn(K12, "op", "set", TRUE), Fn(K12, "op", "ret", TRUE),
   Fn(K12, "op", "add", FALSE), Fn(K12, "op", "del", TRUE),
   Fn(K2, "clear", "get", TRUE), Fn(K1, "throw", "get", TRUE),
   [op |-> "swap", set |-> A, other |-> B], [op |-> "swap", set |-> B, other |-> A],
   [op |-> "move", set |-> A],
   Each(A, "all", K1, K1, TRUE, TRUE), Each(A, "prefix", K1, K1, TRUE, TRUE),
   Each(A, "range", K1, K2, FALSE, FALSE), Each(A, "range", K1, K12, TRUE, TRUE)}

ThreadSymmetry == Permutations(Threads)
=============================================================================
