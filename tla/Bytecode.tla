------------------------------ MODULE Bytecode ------------------------------
(***************************************************************************)
(* A bytecode program on its way from the file to the compiler: the        *)
(* validator of the Rust crate (validate_structure, validate_addresses,    *)
(* validate_capabilities and StackSimulator in                             *)
(* crates/bloqade-lanes-bytecode-core/src/bytecode/validate.rs), the       *)
(* decoder that builds the stack_move IR from it                           *)
(* (python/bloqade/lanes/bytecode/decode.py) and the encoder that writes   *)
(* it back (encode.py).  Each of them walks the program once, so a step of *)
(* this module is one instruction in all of the walks.                     *)
(*                                                                         *)
(* An SSA value is a record: the statement and result that define it, the  *)
(* kind its type stands for, and the constant that reaches it through      *)
(* Dups and Swaps.  An error is its kind at its pc, counted from 1.        *)
(***************************************************************************)
EXTENDS Instructions, FiniteSets

CONSTANTS KnownTypes,        \* the element types up to MAX_TYPE_TAG
          Width,             \* new_array's dimensions are multiplied modulo this
          RefusedAddresses,  \* what the ArchSpec says is no address; none without one
          RefusedGroups,     \* the sets of addresses it says are no group
          FeedForward, AtomReloading,
          Alphabets,         \* a program keeps to the instructions of one of these
          MaxLength,         \* and to this length,
          MaxErrors          \* and goes on only after so few errors

ASSUME BytecodeAssumption ==
    /\ Alphabets \subseteq SUBSET Instructions
    /\ Width \in Nat \ {0} /\ MaxLength \in Nat /\ MaxErrors \in Nat
    /\ KnownTypes \subseteq Immediates
    /\ {FeedForward, AtomReloading} \subseteq BOOLEAN

VARIABLES program,  \* the instructions walked so far
          scan,     \* the locals of validate_structure and validate_capabilities
          stack,    \* StackSimulator.stack
          errors,   \* what the validators have reported
          frame,    \* the decoder's StackMachineFrame.stack
          block,    \* its current_block
          failed    \* the instruction its DecodingError names, or 0

vars == <<program, scan, stack, errors, frame, block, failed>>

pc == Len(program) + 1

ErrorKinds == {"underflow", "mismatch", "group", "zero_dim", "type_tag", "late_fill",
               "unreachable", "address", "feed_forward", "reloading"}

----------------------------------------------------------------------------
(***************************************************************************)
(* validate_structure, validate_addresses and validate_capabilities.       *)
(***************************************************************************)
Scanned(i) ==
    [nonConstant |-> scan.nonConstant \/ i.op \notin Constants,
     terminated  |-> scan.terminated \/ i.op \in Terminators,
     measured    |-> scan.measured \/ i.op = "measure"]

StructureErrors(i) ==
    {e \in {"zero_dim", "type_tag", "late_fill", "unreachable"} :
        \/ e = "zero_dim"    /\ i.op = "new_array" /\ i.n = 0
        \/ e = "type_tag"    /\ i.op = "new_array" /\ i.v \notin KnownTypes
        \/ e = "late_fill"   /\ i.op = "initial_fill" /\ scan.nonConstant
        \/ e = "unreachable" /\ scan.terminated}

ArchErrors(i) ==
    {e \in {"address", "feed_forward", "reloading"} :
        \/ e = "address"      /\ i.op \in Constants /\ i.v \in RefusedAddresses
        \/ e = "feed_forward" /\ i.op = "measure" /\ scan.measured /\ ~ FeedForward
        \/ e = "reloading"    /\ i.op = "fill" /\ ~ AtomReloading}

(***************************************************************************)
(* StackSimulator.  It reports and carries on: an operand of the wrong     *)
(* kind is popped all the same, and what is missing is missed one by one.  *)
(***************************************************************************)
\* Plausible bug: the second dimension is forgotten.
SimFirstDim(i) == i.n

\* The product of the two u16 dimensions of a new_array wraps.
SimArity(i) == IF i.op = "new_array" THEN Cells(i) % Width ELSE i.n

Wanted(i) == Operands(i.op, SimArity(i))
Popped(i) == Topmost(stack, LeastOf(Len(stack), Len(Wanted(i))))

Short(i) == Len(stack) < Len(Wanted(i))

\* Plausible bug: only the topmost operand is looked at.
MismatchedTop(i) ==
    Popped(i) # << >> /\ Wanted(i)[1] \notin {Any, Popped(i)[1].tag}

Mismatched(i) ==
    \E k \in DOMAIN Popped(i) : Wanted(i)[k] \notin {Any, Popped(i)[k].tag}

Grouped(i) ==
    {k \in DOMAIN Popped(i) :
        /\ Wanted(i)[k] \in {"location", "lane"}
        /\ Popped(i)[k].tag = Wanted(i)[k] /\ Popped(i)[k].value # NoValue}

\* check_locations and check_lanes, or the duplicates alone without an ArchSpec.
Refused(i) ==
    \/ \E j, k \in Grouped(i) : j # k /\ Popped(i)[j].value = Popped(i)[k].value
    \/ {Popped(i)[k].value : k \in Grouped(i)} \in RefusedGroups

StackErrors(i) ==
    {e \in {"underflow", "mismatch", "group"} :
        \/ e = "underflow" /\ Short(i)
        \/ e = "mismatch"  /\ Mismatched(i)
        \/ e = "group"     /\ Refused(i)}

Entries(i) ==
    [k \in DOMAIN Results(i.op, SimArity(i)) |->
        [tag   |-> Results(i.op, SimArity(i))[k],
         value |-> IF i.op \in Constants THEN i.v ELSE NoValue]]

\* Plausible bug: sim_swap leaves the two entries as they were.
SimulatedSwapless(i) ==
    CASE i.op \in {"dup", "swap"} /\ Short(i) -> stack
      [] i.op = "dup" /\ ~ Short(i)  -> Append(stack, Popped(i)[1])
      [] i.op = "swap" /\ ~ Short(i) -> stack
      [] OTHER         -> Below(stack, Len(Popped(i))) \o Entries(i)

Simulated(i) ==
    CASE i.op \in {"dup", "swap"} /\ Short(i) -> stack
      [] i.op = "dup" /\ ~ Short(i)  -> Append(stack, Popped(i)[1])
      [] i.op = "swap" /\ ~ Short(i) -> Below(stack, 2) \o Popped(i)
      [] OTHER         -> Below(stack, Len(Popped(i))) \o Entries(i)

Validate(i) ==
    /\ scan' = Scanned(i)
    /\ stack' = Simulated(i)
    /\ errors' = errors \cup [kind : StructureErrors(i) \cup ArchErrors(i) \cup StackErrors(i),
                              pc : {pc}]

\* What the validators report of a program that ends here.  A missing
\* terminator is not reported of a program that goes on after one.
EndErrors ==
    {e \in {"empty", "no_terminator"} :
        \/ e = "empty" /\ program = << >>
        \/ /\ e = "no_terminator" /\ program # << >>
           /\ \A error \in errors : error.kind # "unreachable"
           /\ program[Len(program)].op \notin Terminators}

Accepted == errors = {} /\ EndErrors = {}
----------------------------------------------------------------------------
(***************************************************************************)
(* BytecodeDecoder.                                                        *)
(***************************************************************************)
Needed(i) == Operands(i.op, IF i.op = "new_array" THEN Cells(i) ELSE i.n)
Taken(i) == Topmost(frame, Len(Needed(i)))

Decodable(i) ==
    /\ Len(frame) >= Len(Needed(i))
    /\ i.op = "new_array" => i.v \in KnownTypes

Args(i) == Arranged(i.op, Taken(i))

\* The kind and the constant of each result, as declared: Swap's are out_top,
\* which is in_bot, and out_bot.
Declared(i) ==
    CASE i.op = "dup"  -> <<Taken(i)[1]>>
      [] i.op = "swap" -> <<Taken(i)[2], Taken(i)[1]>>
      [] OTHER -> [k \in DOMAIN Results(i.op, i.n) |->
                     [kind  |-> Results(i.op, i.n)[k],
                      value |-> IF i.op \in Constants THEN i.v ELSE NoValue]]

Defined(i) ==
    [k \in DOMAIN Declared(i) |->
        [stmt |-> Len(block) + 1, out |-> k,
         kind |-> Declared(i)[k].kind, value |-> Declared(i)[k].value]]

Statement(op, args, dims, v) == [op |-> op, args |-> args, dims |-> dims, v |-> v]

\* ConstantNone and the Return that consumes it at once.
HaltStatements ==
    << Statement("none", << >>, <<0, 0>>, NoValue),
       Statement("return",
                 << [stmt |-> Len(block) + 1, out |-> 1, kind |-> "none", value |-> NoValue] >>,
                 <<0, 0>>, NoValue) >>

Statements(i) ==
    IF i.op = "halt"
    THEN HaltStatements
    ELSE << Statement(i.op, Args(i),
                      IF i.op = "new_array" THEN <<i.n, i.m>> ELSE <<0, 0>>, i.v) >>

\* frame.push pushes the results in reverse: the first declared ends on top.
\* Plausible bug: it pushes them in order.
PushedInOrder(i) ==
    (IF i.op = "dup" THEN frame ELSE Below(frame, Len(Needed(i)))) \o Defined(i)

Pushed(i) ==
    (IF i.op = "dup" THEN frame ELSE Below(frame, Len(Needed(i)))) \o Backwards(Defined(i))

Visit(i) ==
    /\ failed = 0 /\ Decodable(i)
    /\ block' = block \o Statements(i)
    /\ frame' = Pushed(i)
    /\ UNCHANGED failed

\* The DecodingError ends the walk: what was decoded is never looked at.
VisitFails(i) ==
    /\ failed = 0 /\ ~ Decodable(i)
    /\ failed' = pc /\ frame' = << >> /\ block' = << >>

Abandoned == failed # 0 /\ UNCHANGED <<frame, block, failed>>

(***************************************************************************)
(* BytecodeEncoder: one instruction for each statement but ConstantNone.   *)
(***************************************************************************)
EncodedArity(s) ==
    CASE s.op \in HasArity  -> Len(s.args) - Fixed(s.op)
      [] s.op = "new_array" -> s.dims[1]
      [] OTHER              -> 0

\* Plausible bug: the fixed operands are counted too.
EncodedAllArgs(s) ==
    [op |-> IF s.op = "return" /\ s.args[1].kind = "none" THEN "halt" ELSE s.op,
     n |-> IF s.op \in HasArity THEN Len(s.args) ELSE EncodedArity(s), m |-> s.dims[2], v |-> s.v]

Encoded(s) ==
    [op |-> IF s.op = "return" /\ s.args[1].kind = "none" THEN "halt" ELSE s.op,
     n |-> EncodedArity(s), m |-> s.dims[2], v |-> s.v]

\* dump_program's loop over the statements.
Dump(statements) ==
    LET dump[k \in 0..Len(statements)] ==
          IF k = 0 THEN << >>
          ELSE IF statements[k].op = "none" THEN dump[k - 1]
          ELSE Append(dump[k - 1], Encoded(statements[k]))
    IN  dump[Len(statements)]

DumpProgram == Dump(block)

----------------------------------------------------------------------------
Init ==
    /\ program = << >> /\ stack = << >> /\ errors = {}
    /\ scan = [nonConstant |-> FALSE, terminated |-> FALSE, measured |-> FALSE]
    /\ frame = << >> /\ block = << >> /\ failed = 0

Considered(i) ==
    /\ Len(program) < MaxLength /\ Cardinality(errors) <= MaxErrors
    /\ \E A \in Alphabets : i \in A /\ \A k \in 1..Len(program) : program[k] \in A

Walk(i) ==
    /\ program' = Append(program, i)
    /\ Validate(i)
    /\ Visit(i) \/ VisitFails(i) \/ Abandoned

Step(i) == Considered(i) /\ Walk(i)

Next == \E i \in Instructions : Step(i)

Spec == Init /\ [][Next]_vars

----------------------------------------------------------------------------
Entry == [tag : Kinds, value : Immediates \cup {NoValue}]

\* Every operand of a statement is a result of an earlier one, and what is on
\* the decoder's stack is a result of the block.
TypeOK ==
    /\ program \in Seq(Instructions)
    /\ scan \in [nonConstant : BOOLEAN, terminated : BOOLEAN, measured : BOOLEAN]
    /\ stack \in Seq(Entry)
    /\ errors \subseteq [kind : ErrorKinds, pc : 1..Len(program)]
    /\ failed \in 0..Len(program)
    /\ \A k \in 1..Len(frame) : frame[k].stmt \in 1..Len(block)
    /\ \A s \in 1..Len(block) : \A a \in 1..Len(block[s].args) :
         block[s].args[a].stmt \in 1..(s - 1)

\* The positions of the errors that mean there is nothing to decode.
Fatal == {error.pc : error \in {e \in errors : e.kind \in {"underflow", "type_tag"}}}

\* The validator and the decoder agree on which programs decode, and the
\* decoder stops at the first error of that sort the validator reports: a
\* program that validates always decodes.
FailsWhereReported ==
    /\ failed = 0 <=> Fatal = {}
    /\ failed # 0 => failed \in Fatal /\ \A other \in Fatal : failed <= other

\* The operands of a statement have the kinds its dialect declares.
OperandsTyped(op, args) ==
    LET declared == Operands(op, IF op \in HasArity THEN Len(args) - Fixed(op) ELSE Len(args))
        kinds == IF op = "get_item" THEN Backwards(declared)
                 ELSE SubSeq(declared, 1, Fixed(op))
                      \o Backwards(SubSeq(declared, Fixed(op) + 1, Len(declared)))
    IN  /\ Len(args) = Len(kinds)
        /\ \A a \in 1..Len(args) : kinds[a] \in {Any, args[a].kind} \/ args[a].kind = "none"

\* A program the simulation finds no fault with gives every statement operands
\* of the kinds its dialect declares, the elements of arrays apart, although
\* the simulator never sees a statement or the order of its operands.
AcceptedOperandsTyped ==
    errors = {} => \A s \in {t \in 1..Len(block) : block[t].op # "none"} :
        OperandsTyped(block[s].op, block[s].args)

\* What was decoded encodes to what was read (encode.py, "load_program always
\* produces stack-consistent IR, so round-trips work unconditionally").
RoundTrip == failed = 0 => DumpProgram = program

(***************************************************************************)
(* Both walks implement the stack machine.                                 *)
(***************************************************************************)
FirstFatal == IF Fatal = {} THEN 0 ELSE CHOOSE p \in Fatal : \A other \in Fatal : p <= other

ValidatorMachine ==
    INSTANCE StackMachine WITH
        stuckAt <- FirstFatal,
        kinds <- IF FirstFatal # 0 THEN << >> ELSE [k \in 1..Len(stack) |-> stack[k].tag]

DecoderMachine ==
    INSTANCE StackMachine WITH
        stuckAt <- failed,
        kinds <- [k \in 1..Len(frame) |-> frame[k].kind]

\* The simulator's stack of tags is the machine's, up to the first instruction
\* that cannot run.
ValidatorRuns == ValidatorMachine!MachineSpec

\* So is the decoder's virtual stack of SSA values, by their types.
DecoderRuns == DecoderMachine!MachineSpec
=============================================================================
