----------------------------- MODULE MCPipeline -----------------------------
(***************************************************************************)
(* The programs of MCBytecode, and the kernels of MCStackify with the      *)
(* instructions they are written in.                                       *)
(***************************************************************************)
EXTENDS Pipeline, MCBytecode, MCStackify

Addresses == {"a", "b", "c", "t", "u", "v", "w", "x", "y", "z"}
Emitted ==
    [op : Constants, n : {0}, m : {0}, v : Addresses \cup {NoValue}]
    \cup [op : HasArity, n : 0..3, m : {0}, v : {NoValue}]
    \cup [op : Ops \ (Constants \cup HasArity \cup {"new_array"}), n : {0}, m : {0}, v : {NoValue}]
    \cup [op : {"new_array"}, n : 1..3, m : {0}, v : {"word"}]

AllImmediates == MCImmediates \cup Addresses
AllInstructions == MCInstructions \cup Emitted
=============================================================================
