------------------------------ MODULE Pipeline ------------------------------
(***************************************************************************)
(* The compiler's output meets the tools that read it: a kernel is lowered *)
(* and stackified (Stackify), and what is written down goes through the    *)
(* validator and the decoder (Bytecode) as it is executed.  Or any other   *)
(* program is read.                                                        *)
(***************************************************************************)
EXTENDS Bytecode, Stackify

pipelineVars == <<vars, kernelVars>>

NoKernel ==
    /\ kernel = << >> /\ stage = "none" /\ stmts = << >> /\ next = 1
    /\ plan = << >> /\ live = << >> /\ machine = NewMachine

PipelineInit == Init /\ (NoKernel \/ KernelInit)

\* A statement of the stackified kernel as the encoder writes it.  What an index
\* is nobody but Stackify needs to know.
Written(s) ==
    LET v == CASE s.op \in Constants \ {"const_int"} -> s.v
               [] s.op = "new_array" -> CHOOSE t \in KnownTypes : TRUE
               [] OTHER -> NoValue
    IN  Encoded(Statement(s.op, [k \in DOMAIN s.args |-> [kind |-> Any]], <<Len(s.args), 0>>, v))

Read == stage = "none" /\ Next /\ UNCHANGED kernelVars
Compile == (CloneConstants \/ DeadCode \/ DupSwap \/ Splice) /\ UNCHANGED vars
Load == Run /\ Walk(Written(stmts[next]))

PipelineNext == Read \/ Compile \/ Load

PipelineSpec == PipelineInit /\ [][PipelineNext]_pipelineVars

----------------------------------------------------------------------------
\* A kernel begins by filling, if it fills at all.
FillsFirst ==
    \A k \in DOMAIN kernel :
        kernel[k].op = "fill" => \E j \in 1..k : /\ kernel[j].op = "fill"
                                                /\ \A i \in 1..(j - 1) : kernel[i].op = "constant"

\* What the compiler writes the other tools accept: it never underflows the
\* stack of the machine, the validator or the decoder, and the validator reports
\* nothing else either (stackify.py:3-5, validate.rs:322).
KernelsAccepted ==
    /\ stage # "failed"
    /\ stage = "run" => failed = 0
    /\ Finished /\ FillsFirst => Accepted
=============================================================================
