----------------------------- MODULE MCBytecode -----------------------------
(***************************************************************************)
(* The programs TLC considers: every stream over four alphabets, one for   *)
(* the atoms and the local gates, one for the measurements, one for the    *)
(* arrays and one for the stack operations among operands of every kind.   *)
(***************************************************************************)
EXTENDS Bytecode

CONSTANT off   \* no address of the architecture

MCImmediates == {"a", "b", off, "x", "word"}

Of(op, n) == [op |-> op, n |-> n, m |-> 0, v |-> NoValue]
Push(op, v) == [op |-> op, n |-> 0, m |-> 0, v |-> v]
Array(n, m, v) == [op |-> "new_array", n |-> n, m |-> m, v |-> v]

Atoms == {Push("const_loc", "a"), Push("const_loc", "b"), Push("const_loc", off),
          Push("const_float", "x"), Of("dup", 0), Of("initial_fill", 1), Of("initial_fill", 2),
          Of("fill", 2), Of("local_rz", 1), Of("local_r", 2), Of("halt", 0)}
Measures == {Push("const_zone", "a"), Push("const_int", "x"), Of("swap", 0), Of("measure", 1),
             Of("measure", 2), Of("await_measure", 0), Of("get_item", 1), Of("set_detector", 0),
             Of("set_observable", 0), Of("return", 0), Of("cz", 0)}
Arrays == {Push("const_int", "x"), Push("const_loc", "a"), Array(1, 0, "word"), Array(1, 2, "word"),
           Array(0, 0, "word"), Array(1, 0, off), Of("get_item", 1), Of("get_item", 2),
           Of("swap", 0), Of("pop", 0), Of("fill", 1), Of("return", 0)}
Moves == {Push("const_lane", "a"), Push("const_lane", "b"), Push("const_float", "x"), Of("dup", 0),
          Of("swap", 0), Of("pop", 0), Of("move", 1), Of("move", 2), Of("move", 3),
          Of("global_r", 0), Of("global_rz", 0), Of("halt", 0)}

MCAlphabets == {Atoms, Measures, Arrays, Moves}
MCInstructions == UNION MCAlphabets
=============================================================================
