---------------------------- MODULE Instructions ----------------------------
(***************************************************************************)
(* What an instruction of the bytecode takes from the stack and leaves on  *)
(* it (crates/bloqade-lanes-bytecode-core/src/bytecode, and the handlers   *)
(* of python/bloqade/lanes/bytecode/decode.py).                            *)
(*                                                                         *)
(* An instruction is a record: its op, its arity or first dimension `n`,   *)
(* its second dimension `m` and its immediate `v` (an address, a number,   *)
(* the element type of an array).                                          *)
(***************************************************************************)
EXTENDS Naturals, Sequences

CONSTANTS Instructions, Immediates, NoValue

Any == "any"
Kinds == {"float", "int", "array", "location", "lane", "zone", "future", "detector", "observable"}

ConstKind ==
    [const_float |-> "float", const_int |-> "int", const_loc |-> "location",
     const_lane |-> "lane", const_zone |-> "zone"]
Constants == DOMAIN ConstKind

Ops == Constants \cup
       {"pop", "dup", "swap", "initial_fill", "fill", "move", "local_r", "local_rz",
        "global_r", "global_rz", "cz", "measure", "await_measure", "new_array", "get_item",
        "set_detector", "set_observable", "return", "halt"}

\* The ops whose instruction word holds a count.
HasArity == {"initial_fill", "fill", "move", "local_r", "local_rz", "measure", "get_item"}

\* What an instruction's variant has no field for is 0, or no value.
ASSUME InstructionAssumption ==
    /\ Instructions \subseteq [op : Ops, n : Nat, m : Nat, v : Immediates \cup {NoValue}]
    /\ NoValue \notin Immediates
    /\ \A i \in Instructions :
         /\ i.op \notin HasArity \cup {"new_array"} => i.n = 0
         /\ i.op # "new_array" => i.m = 0
         /\ i.op = "halt" => i.v = NoValue

Terminators == {"return", "halt"}

LeastOf(a, b) == IF a <= b THEN a ELSE b
Times(count, kind) == [k \in 1..count |-> kind]

\* How many cells a new_array names: dim0 * max(dim1, 1).
Cells(i) == i.n * (IF i.m = 0 THEN 1 ELSE i.m)

\* The kinds an op takes, the top of the stack first; `count` is its arity.
Operands(op, count) ==
    CASE op \in {"initial_fill", "fill"} -> Times(count, "location")
      [] op = "move"                     -> Times(count, "lane")
      [] op = "local_r"                  -> <<"float", "float">> \o Times(count, "location")
      [] op = "local_rz"                 -> <<"float">> \o Times(count, "location")
      [] op = "global_r"                 -> <<"float", "float">>
      [] op = "global_rz"                -> <<"float">>
      [] op = "cz"                       -> <<"zone">>
      [] op = "measure"                  -> Times(count, "zone")
      [] op = "await_measure"            -> <<"future">>
      [] op = "new_array"                -> Times(count, Any)
      [] op = "get_item"                 -> Times(count, "int") \o <<"array">>
      [] op \in {"set_detector", "set_observable"} -> <<"array">>
      [] op \in {"pop", "dup", "return"} -> <<Any>>
      [] op = "swap"                     -> <<Any, Any>>
      [] OTHER                           -> << >>

\* The kinds an op leaves, but for dup and swap, which pass on what they took.
\* The element of an array counts as a float, whatever it holds.
Results(op, count) ==
    CASE op \in Constants                     -> <<ConstKind[op]>>
      [] op = "measure"                       -> Times(count, "future")
      [] op \in {"await_measure", "new_array"} -> <<"array">>
      [] op = "get_item"                      -> <<"float">>
      [] op = "set_detector"                  -> <<"detector">>
      [] op = "set_observable"                -> <<"observable">>
      [] OTHER                                -> << >>

\* The k topmost entries of a stack, the top first, and what lies below them.
Topmost(stack, k) == [j \in 1..k |-> stack[Len(stack) + 1 - j]]
Below(stack, k) == SubSeq(stack, 1, Len(stack) - k)

Backwards(s) == [k \in 1..Len(s) |-> s[Len(s) + 1 - k]]

\* How many operands a statement declares before its variadic ones, which
\* pop_n hands over with the deepest first.
Fixed(op) ==
    CASE op \in {"local_r", "global_r", "swap"} -> 2
      [] op \in {"local_rz", "get_item"}        -> 1
      [] OTHER                                  -> 0

\* The operands of a statement as its dialect declares them, from what its
\* instruction took; a get_item declares its array, which lies below the indices,
\* first.
Arranged(op, taken) ==
    IF op = "get_item"
    THEN Backwards(taken)
    ELSE SubSeq(taken, 1, Fixed(op)) \o Backwards(SubSeq(taken, Fixed(op) + 1, Len(taken)))
=============================================================================
