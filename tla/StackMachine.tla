---------------------------- MODULE StackMachine ----------------------------
(***************************************************************************)
(* What an instruction stream means, to the type of every stack slot: each *)
(* instruction takes its operands from the top, leaves its results there,  *)
(* and a stream that asks for more than the stack holds, or for an array   *)
(* of no known element type, is stuck at that instruction for good.  The   *)
(* validator and the decoder were written apart, in two languages; both    *)
(* are shown to implement this machine.                                    *)
(***************************************************************************)
EXTENDS Instructions

CONSTANTS KnownTypes    \* the element types a new_array may name

VARIABLES program,      \* the instructions seen so far
          kinds,        \* the kind of every stack slot, the top last
          stuckAt       \* the position of the instruction it is stuck at, or 0

machineVars == <<program, kinds, stuckAt>>

Arity(i) == IF i.op = "new_array" THEN Cells(i) ELSE i.n

Runs(i) ==
    /\ Len(kinds) >= Len(Operands(i.op, Arity(i)))
    /\ i.op = "new_array" => i.v \in KnownTypes

Leaves(i) ==
    LET taken == Topmost(kinds, Len(Operands(i.op, Arity(i))))
    IN  CASE i.op = "dup"  -> <<taken[1], taken[1]>>
          [] i.op = "swap" -> <<taken[1], taken[2]>>
          [] OTHER         -> Results(i.op, Arity(i))

Execute(i) ==
    /\ stuckAt = 0 /\ Runs(i)
    /\ kinds' = Below(kinds, Len(Operands(i.op, Arity(i)))) \o Leaves(i)
    /\ UNCHANGED stuckAt

Stick(i) ==
    /\ stuckAt = 0 /\ ~ Runs(i)
    /\ stuckAt' = Len(program) + 1 /\ kinds' = << >>

Ignore == stuckAt # 0 /\ UNCHANGED <<kinds, stuckAt>>

MachineInit == program = << >> /\ kinds = << >> /\ stuckAt = 0

MachineNext ==
    \E i \in Instructions :
        /\ program' = Append(program, i)
        /\ Execute(i) \/ Stick(i) \/ Ignore

MachineSpec == MachineInit /\ [][MachineNext]_machineVars
=============================================================================
