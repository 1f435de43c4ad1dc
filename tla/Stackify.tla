------------------------------ MODULE Stackify ------------------------------
(***************************************************************************)
(* A kernel on its way from the compiler to the bytecode and back:         *)
(* RewriteMoveToStackMove lowers it to stack_move statements, stackify     *)
(* clones the constants and inserts Dups and Swaps                         *)
(* (python/bloqade/lanes/rewrite/stackify.py), the encoder writes the      *)
(* statements down in order and forgets who their operands were, and the   *)
(* decoder and RewriteStackMoveToMove find the operands on the stack       *)
(* again.  On the way the constants of a statement change places: every    *)
(* list of addresses comes back the other way round.  What must survive is *)
(* everything else, which results each detector is made of above all.      *)
(*                                                                         *)
(* A kernel is a sequence of records: an op, the addresses it is given as  *)
(* attributes and the statements whose results it uses.  "result" is       *)
(* move.GetFutureResult, with its zone and its location's index there;     *)
(* "new" is ilist.New.  A statement of stack_move has a name (`id`), its   *)
(* operands are values <<id, result>>.                                     *)
(***************************************************************************)
EXTENDS Instructions

CONSTANTS Kernels,       \* the kernels considered
          Sites          \* the locations of a zone, as many in each

ASSUME SitesAssumption == Sites \in Nat \ {0}

VARIABLES kernel, stage, stmts, next, plan, live, machine

kernelVars == <<kernel, stage, stmts, next, plan, live, machine>>

Stmt(id, op, args, v) == [id |-> id, op |-> op, args |-> args, v |-> v]
Consts(k, op, addresses) ==
    [j \in 1..Len(addresses) |-> Stmt(<<k, j>>, op, << >>, addresses[j])]
Firsts(statements) == [j \in 1..Len(statements) |-> <<statements[j].id, 1>>]

----------------------------------------------------------------------------
(***************************************************************************)
(* RewriteMoveToStackMove.  The lowered form of kernel statement k ends    *)
(* with the statement named <<k>>; the AwaitMeasure of a measurement goes  *)
(* before the first of its results.                                        *)
(***************************************************************************)
Measured(kern, k) == kern[k].uses[1]
FirstResult(kern, k) ==
    \A j \in 1..(k - 1) : kern[j].op = "result" => Measured(kern, j) # Measured(kern, k)

\* The zones a move.Measure is asked for, each once; _measure_flat_index.
\* Plausible bug: the zones before are not counted.
PositionOf(zones, zone) == CHOOSE j \in 1..Len(zones) : zones[j] = zone
FlatIndexInZone(zones, zone, site) == site
FlatIndex(zones, zone, site) == (PositionOf(zones, zone) - 1) * Sites + site

Lowered(kern, k) ==
    LET s == kern[k]
        used == [j \in 1..Len(s.uses) |-> << <<s.uses[j]>>, 1>>]
        addressed(const, op, fixed) ==
            Consts(k, const, s.addresses)
            \o << Stmt(<<k>>, op, fixed \o Firsts(Consts(k, const, s.addresses)), NoValue) >>
    IN  CASE s.op = "fill" ->
               addressed("const_loc",
                         IF \A j \in 1..(k - 1) : kern[j].op # "fill" THEN "initial_fill" ELSE "fill",
                         << >>)
          [] s.op = "move"     -> addressed("const_lane", "move", << >>)
          [] s.op = "cz"       -> addressed("const_zone", "cz", << >>)
          [] s.op = "measure"  -> addressed("const_zone", "measure", << >>)
          [] s.op = "local_rz" -> addressed("const_loc", "local_rz", used)
          [] s.op = "constant" -> << Stmt(<<k>>, "const_float", << >>, s.addresses[1]) >>
          [] s.op = "result" ->
               LET m == Measured(kern, k)
               IN  (IF FirstResult(kern, k)
                    THEN << Stmt(<<m, 0>>, "await_measure", << << <<m>>, 1>> >>, NoValue) >>
                    ELSE << >>)
                   \o << Stmt(<<k, 1>>, "const_int", << >>,
                              FlatIndex(kern[m].addresses, s.addresses[1], s.addresses[2])),
                         Stmt(<<k>>, "get_item", << << <<m, 0>>, 1>>, << <<k, 1>>, 1>> >>, NoValue) >>
          [] s.op = "new"    -> << Stmt(<<k>>, "new_array", used, NoValue) >>
          [] OTHER           -> << Stmt(<<k>>, s.op, used, NoValue) >>

LoweredKernel(kern) ==
    LET upTo[k \in 0..Len(kern)] == IF k = 0 THEN << >> ELSE upTo[k - 1] \o Lowered(kern, k)
    IN  upTo[Len(kern)]

----------------------------------------------------------------------------
(***************************************************************************)
(* Pass 1: each constant operand becomes a clone right before its          *)
(* consumer, the highest operand's first.  Pass 2: constants nobody uses   *)
(* are deleted.                                                            *)
(***************************************************************************)
DefinedBy(value) == stmts[CHOOSE k \in 1..Len(stmts) : stmts[k].id = value[1]]
IsConst(value) == DefinedBy(value).op \in Constants

CloneId(s, j) == s.id \o <<"clone", j>>

Clones(s) ==
    LET clone(j) == [DefinedBy(s.args[j]) EXCEPT !.id = CloneId(s, j)]
        upTo[j \in 0..Len(s.args)] ==
            IF j = 0 THEN << >>
            ELSE (IF IsConst(s.args[j]) THEN <<clone(j)>> ELSE << >>) \o upTo[j - 1]
    IN  upTo[Len(s.args)]

Recloned(s) ==
    [s EXCEPT !.args = [j \in 1..Len(s.args) |->
        IF IsConst(s.args[j]) THEN <<CloneId(s, j), 1>> ELSE s.args[j]]]

CloneConstants ==
    /\ stage = "clone" /\ next <= Len(stmts)
    /\ LET s == stmts[next]
       IN  /\ stmts' = SubSeq(stmts, 1, next - 1) \o Clones(s) \o <<Recloned(s)>>
                       \o SubSeq(stmts, next + 1, Len(stmts))
           /\ next' = next + Len(Clones(s)) + 1
    /\ UNCHANGED <<kernel, stage, plan, live, machine>>

UsesOf(value) ==
    {u \in (1..Len(stmts)) \X (1..8) : u[2] <= Len(stmts[u[1]].args) /\ stmts[u[1]].args[u[2]] = value}

DeadCode ==
    /\ stage = "clone" /\ next > Len(stmts)
    /\ stmts' = SelectSeq(stmts, LAMBDA s : s.op \in Constants => UsesOf(<<s.id, 1>>) # {})
    /\ stage' = "duplicate" /\ next' = 1
    /\ UNCHANGED <<kernel, plan, live, machine>>

----------------------------------------------------------------------------
(***************************************************************************)
(* Pass 3.  For each operand that is used more than once: a Dup of the     *)
(* live copy below the constants of a consumer that is not the last, and,  *)
(* when that consumer has a result, a Swap that brings the live copy back  *)
(* to the top.  Everything is inserted at the end.                         *)
(***************************************************************************)
LastConsumer(value) ==
    CHOOSE k \in 1..Len(stmts) :
        /\ \E u \in UsesOf(value) : u[1] = k
        /\ \A u \in UsesOf(value) : u[1] <= k

ConstRunStart(k) ==
    CHOOSE j \in 1..k :
        /\ \A i \in j..(k - 1) : stmts[i].op \in Constants
        /\ j > 1 => stmts[j - 1].op \notin Constants

HasResult(s) == s.op \in Constants \/ Results(s.op, Len(s.args)) # << >>

Live(l, value) == IF value \in DOMAIN l THEN l[value] ELSE value
DupId(s, j) == s.id \o <<"dup", j>>
SwapId(s, j) == s.id \o <<"swap", j>>

Inserted(stmt, before) == [stmt |-> stmt, before |-> before]

\* Plausible bug: two uses are taken for one.
SharedThrice(value) ==
    \E t, u, v \in UsesOf(value) : t # u /\ u # v /\ t # v

Shared(value) == \E u, v \in UsesOf(value) : u # v

SwapFor(s, j, at, alive) ==
    IF HasResult(s)
    THEN << Inserted(Stmt(SwapId(s, j), "swap", << <<s.id, 1>>, alive>>, NoValue), stmts[at + 1].id) >>
    ELSE << >>

\* One operand of statement `at`, given the plan and the live copies so far.  The
\* code re-points the operand as well, which no instruction remembers, and the
\* uses it reads meanwhile stay more than one: each re-pointed operand leaves a
\* Dup that uses the value.
Planned(at, j, done) ==
    LET s == stmts[at]
        value == s.args[j]
        alive == Live(done.live, value)
    IN  IF IsConst(value) \/ ~ Shared(value) \/ LastConsumer(value) = at THEN done
        ELSE [plan |-> done.plan
                       \o << Inserted(Stmt(DupId(s, j), "dup", <<alive>>, NoValue),
                                      stmts[ConstRunStart(at)].id) >>
                       \o SwapFor(s, j, at, alive),
              live |-> IF HasResult(s)
                       THEN [v \in DOMAIN done.live \cup {value} |->
                               IF v = value THEN <<SwapId(s, j), 1>> ELSE done.live[v]]
                       ELSE done.live]

DupSwap ==
    /\ stage = "duplicate" /\ next <= Len(stmts)
    /\ LET upTo[j \in 0..Len(stmts[next].args)] ==
             IF j = 0 THEN [plan |-> plan, live |-> live]
             ELSE Planned(next, j, upTo[j - 1])
           done == upTo[Len(stmts[next].args)]
       IN  /\ plan' = done.plan /\ live' = done.live
    /\ next' = next + 1
    /\ UNCHANGED <<kernel, stage, stmts, machine>>

NewMachine == [stack |-> << >>, effects |-> << >>, measures |-> << >>]

Splice ==
    /\ stage = "duplicate" /\ next > Len(stmts)
    /\ LET before(s) == SelectSeq(plan, LAMBDA e : e.before = s.id)
           upTo[k \in 0..Len(stmts)] ==
             IF k = 0 THEN << >>
             ELSE upTo[k - 1]
                  \o [j \in 1..Len(before(stmts[k])) |-> before(stmts[k])[j].stmt]
                  \o <<stmts[k]>>
       IN  stmts' = upTo[Len(stmts)]
    /\ stage' = "run" /\ next' = 1
    /\ UNCHANGED <<kernel, plan, live, machine>>

----------------------------------------------------------------------------
(***************************************************************************)
(* BytecodeEncoder, BytecodeDecoder and RewriteStackMoveToMove: a          *)
(* statement is its op and its number of operands, the operands are what   *)
(* the stack holds, and all futures of a measurement stand for its         *)
(* distinct zones.  A value is a pair of what it is and what it carries.   *)
(***************************************************************************)
Distinct(zones) ==
    LET upTo[j \in 0..Len(zones)] ==
          IF j = 0 THEN << >>
          ELSE IF \E k \in 1..Len(upTo[j - 1]) : upTo[j - 1][k] = zones[j] THEN upTo[j - 1]
          ELSE Append(upTo[j - 1], zones[j])
    IN  upTo[Len(zones)]

Carried(args) == [j \in 1..Len(args) |-> args[j][2]]
AllAre(args, what) == \A j \in 1..Len(args) : args[j][1] = what

\* The results of an await, zone by zone.
ResultAt(zones, m, index) == <<m, zones[index \div Sites + 1], index % Sites>>

\* What a statement leaves on the stack, given its operands as declared;
\* "wrong" is a value no rewrite expects there.
Left(s, args) ==
    CASE s.op \in Constants -> << <<"const", s.v>> >>
      [] s.op = "measure" -> [j \in 1..Len(args) |-> <<"future", Len(machine.measures) + 1>>]
      [] s.op = "await_measure" ->
           << IF AllAre(args, "future") THEN <<"results", args[1][2]>> ELSE <<"wrong", 0>> >>
      [] s.op = "get_item" ->
           << IF args[1][1] = "results" /\ args[2][1] = "const"
              THEN <<"result", ResultAt(machine.measures[args[1][2]], args[1][2], args[2][2])>>
              ELSE <<"wrong", 0>> >>
      [] s.op = "new_array" ->
           << IF AllAre(args, "result") THEN <<"array", Carried(args)>> ELSE <<"wrong", 0>> >>
      [] s.op \in {"set_detector", "set_observable"} -> << <<"record", args[1]>> >>
      [] OTHER -> << >>

\* What a statement does for good: its addresses as it lists them, the distinct
\* zones of a measurement, the array of a detector.
Effect(s, args) ==
    CASE s.op \in {"initial_fill", "fill", "move", "cz"} -> << <<s.op, Carried(args)>> >>
      [] s.op = "measure"  -> << <<s.op, Distinct(Carried(args))>> >>
      [] s.op = "local_rz" -> << <<s.op, args[1][2], Carried(Tail(args))>> >>
      [] s.op \in {"set_detector", "set_observable", "return"} -> << <<s.op, args[1]>> >>
      [] OTHER -> << >>

\* The stack, the effects and the measurements after a statement.
Executed(s) ==
    LET n == Len(s.args)
        args == Arranged(s.op, Topmost(machine.stack, n))
    IN  [stack |-> CASE s.op = "dup"  -> Append(machine.stack, args[1])
                     [] s.op = "swap" -> Below(machine.stack, 2) \o args
                     [] OTHER -> Below(machine.stack, n) \o Left(s, args),
         effects |-> machine.effects \o Effect(s, args),
         measures |-> IF s.op = "measure"
                      THEN Append(machine.measures, Distinct(Carried(args)))
                      ELSE machine.measures]

\* A statement runs, or the decoder's StackUnderflowError ends it all.
Run ==
    /\ stage = "run" /\ next <= Len(stmts)
    /\ IF Len(machine.stack) >= Len(stmts[next].args)
       THEN machine' = Executed(stmts[next]) /\ next' = next + 1 /\ UNCHANGED stage
       ELSE stage' = "failed" /\ UNCHANGED <<machine, next>>
    /\ UNCHANGED <<kernel, stmts, plan, live>>

KernelInit ==
    /\ kernel \in Kernels
    /\ stage = "clone" /\ next = 1
    /\ stmts = LoweredKernel(kernel)
    /\ plan = << >> /\ live = << >>
    /\ machine = NewMachine

KernelNext == CloneConstants \/ DeadCode \/ DupSwap \/ Splice \/ Run

KernelSpec == KernelInit /\ [][KernelNext]_kernelVars

----------------------------------------------------------------------------
(***************************************************************************)
(* What the kernel means by its own SSA values, when the addresses of a    *)
(* statement are taken as `listed` has them and the results of a zone come *)
(* from zoneOf(the zones measured, the zone).                              *)
(***************************************************************************)
MeasureNumber(m) == 1 + Len(SelectSeq(SubSeq(kernel, 1, m - 1), LAMBDA s : s.op = "measure"))

Meant(listed(_), zoneOf(_, _)) ==
    LET result(k) ==
          LET m == Measured(kernel, k)
          IN  <<MeasureNumber(m), zoneOf(kernel[m].addresses, kernel[k].addresses[1]),
                kernel[k].addresses[2]>>
        value[k \in 1..Len(kernel)] ==
          CASE kernel[k].op = "constant" -> <<"const", kernel[k].addresses[1]>>
            [] kernel[k].op = "result"   -> <<"result", result(k)>>
            [] kernel[k].op = "new" ->
                 <<"array", [j \in 1..Len(kernel[k].uses) |-> value[kernel[k].uses[j]][2]]>>
            [] kernel[k].op \in {"set_detector", "set_observable"} ->
                 <<"record", value[kernel[k].uses[1]]>>
            [] OTHER -> <<"none", 0>>
        addresses(k) == listed(kernel[k].addresses)
        effect(k) ==
          CASE kernel[k].op = "fill" ->
                 << <<IF \A j \in 1..(k - 1) : kernel[j].op # "fill" THEN "initial_fill" ELSE "fill",
                      addresses(k)>> >>
            [] kernel[k].op \in {"move", "cz", "measure"} -> << <<kernel[k].op, addresses(k)>> >>
            [] kernel[k].op = "local_rz" ->
                 << <<"local_rz", value[kernel[k].uses[1]][2], addresses(k)>> >>
            [] kernel[k].op \in {"set_detector", "set_observable", "return"} ->
                 << <<kernel[k].op, value[kernel[k].uses[1]]>> >>
            [] OTHER -> << >>
        upTo[k \in 0..Len(kernel)] == IF k = 0 THEN << >> ELSE upTo[k - 1] \o effect(k)
    IN  upTo[Len(kernel)]

Meaning == Meant(LAMBDA list : list, LAMBDA zones, zone : zone)

\* Every list of addresses the other way round, the zones of a measurement too;
\* and since the index of a result counts the zones in the kernel's order, the
\* results of the first zone are those of the last.
Mirrored ==
    Meant(Backwards, LAMBDA zones, zone : zones[Len(zones) + 1 - PositionOf(zones, zone)])

Finished == stage = "run" /\ next > Len(stmts)

\* What comes back from the bytecode is the kernel statement by statement, with
\* its angles, the result of each place in each detector, and its addresses all
\* there, but mirrored.  A kernel whose lists and measurements have one address
\* comes back as it was.  Any other does not do what it did, though load_program
\* of dump_program is said to be "an equivalent ir.Method" (encode.py:289): the
\* clones stand in operand order (stackify.py:65), the decoder reads a group
\* bottom to top, the atoms of a fill get each other's numbers
\* (analysis/atom/impl.py:164), the lanes of a move run in reverse
\* (atom_state.rs:174), and a detector on a measurement of several zones is made
\* of another zone's results (move2stack_move.py:86-105).
ComesBackMirrored == Finished => machine.effects = Mirrored

\* Even of one zone: every detector and observable is made of the results the
\* kernel put into it, and they come in its order (stackify.py:5, "emit correct
\* bytecode").
RecordsKept ==
    LET records(effects) ==
          SelectSeq(effects, LAMBDA e : e[1] \in {"set_detector", "set_observable"})
    IN  Finished => records(machine.effects) = records(Meaning)
=============================================================================
