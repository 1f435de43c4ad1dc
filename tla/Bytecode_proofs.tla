--------------------------- MODULE Bytecode_proofs ---------------------------
(***************************************************************************)
(* The validator's simulated stack and the decoder's frame of SSA values   *)
(* both implement StackMachine, and so give up at the same instruction,    *)
(* for any set of instructions whose array dimensions fit in 16 bits.      *)
(*                                                                         *)
(* Both stacks are mapped to their kinds (Mapped), and mapping commutes    *)
(* with what an instruction takes and leaves.  The first fatal error is    *)
(* the least element of a set of positions (OrderLemmas).                  *)
(***************************************************************************)
EXTENDS Bytecode, OrderLemmas

\* The products of the dimensions fit in 16 bits.
DimensionsFit == \A i \in Instructions : i.op = "new_array" => Cells(i) < Width

----------------------------------------------------------------------------
(***************************************************************************)
(* Sequences.                                                              *)
(***************************************************************************)
Slots == Kinds \cup {Any}

\* What an op takes is a sequence.
LEMMA OperandsType ==
    ASSUME NEW op, NEW count \in Nat
    PROVE  Operands(op, count) \in Seq(Slots) /\ Len(Operands(op, count)) \in Nat
<1>1. \A kind \in Slots : Times(count, kind) \in Seq(Slots)
  BY DEF Times
<1>2. {Any, "float", "int", "array", "location", "lane", "zone", "future"} \subseteq Slots
  BY DEF Slots, Kinds
<1>3. /\ << >> \in Seq(Slots) /\ \A k \in Slots : <<k>> \in Seq(Slots)
      /\ \A j, k \in Slots : <<j, k>> \in Seq(Slots)
  OBVIOUS
<1>4. \A s, t \in Seq(Slots) : s \o t \in Seq(Slots)
  OBVIOUS
<1> HIDE DEF Slots
<1>5. /\ Times(count, "location") \in Seq(Slots) /\ Times(count, "lane") \in Seq(Slots)
      /\ Times(count, "zone") \in Seq(Slots) /\ Times(count, Any) \in Seq(Slots)
      /\ <<"float", "float">> \o Times(count, "location") \in Seq(Slots)
      /\ <<"float">> \o Times(count, "location") \in Seq(Slots)
      /\ Times(count, "int") \o <<"array">> \in Seq(Slots)
      /\ <<"float", "float">> \in Seq(Slots) /\ <<"float">> \in Seq(Slots) /\ <<"zone">> \in Seq(Slots)
      /\ <<"future">> \in Seq(Slots) /\ <<"array">> \in Seq(Slots) /\ <<Any>> \in Seq(Slots)
      /\ <<Any, Any>> \in Seq(Slots) /\ << >> \in Seq(Slots)
  BY <1>1, <1>2, <1>3, <1>4
<1>6. Operands(op, count) \in Seq(Slots)
  BY <1>5 DEF Operands
<1> QED BY <1>6

\* What it leaves is one.
LEMMA ResultsType ==
    ASSUME NEW op, NEW count \in Nat
    PROVE  Results(op, count) \in Seq(Kinds) /\ Len(Results(op, count)) \in Nat
<1>1. ASSUME op \in Constants PROVE ConstKind[op] \in Kinds
  BY <1>1 DEF Constants, ConstKind, Kinds
<1>2. Times(count, "future") \in Seq(Kinds)
  BY DEF Times, Kinds
<1>3. \A k \in {"array", "float", "detector", "observable"} : <<k>> \in Seq(Kinds)
  BY DEF Kinds
<1>4. << >> \in Seq(Kinds) /\ \A k \in Kinds : <<k>> \in Seq(Kinds)
  OBVIOUS
<1> HIDE DEF Kinds
<1>5. Results(op, count) \in Seq(Kinds)
  BY <1>1, <1>2, <1>3, <1>4 DEF Results
<1> QED BY <1>5

\* Two sequences one after the other.
LEMMA Joined ==
    ASSUME NEW S, NEW s \in Seq(S), NEW t \in Seq(S)
    PROVE  /\ s \o t \in Seq(S) /\ Len(s \o t) = Len(s) + Len(t)
           /\ \A k \in 1..Len(s) + Len(t) :
                (s \o t)[k] = IF k <= Len(s) THEN s[k] ELSE t[k - Len(s)]
  OBVIOUS

\* Sequences are equal when their elements are.
LEMMA SameSequence ==
    ASSUME NEW S, NEW s \in Seq(S), NEW t \in Seq(S), Len(s) = Len(t),
           \A k \in 1..Len(s) : s[k] = t[k]
    PROVE  s = t
  OBVIOUS

\* What lies below the n topmost entries.
LEMMA BelowIs ==
    ASSUME NEW S, NEW s \in Seq(S), NEW n \in 0..Len(s)
    PROVE  /\ Below(s, n) \in Seq(S) /\ Len(Below(s, n)) = Len(s) - n
           /\ \A k \in 1..Len(s) - n : Below(s, n)[k] = s[k]
  BY DEF Below

\* A sequence, element by element through f.
Mapped(f, s) == [k \in 1..Len(s) |-> f[s[k]]]

\* Mapping commutes with what the stack operations leave.
LEMMA MappedBelow ==
    ASSUME NEW X, NEW f, NEW s \in Seq(X), NEW n \in 0..Len(s)
    PROVE  Mapped(f, Below(s, n)) = Below(Mapped(f, s), n)
<1> DEFINE Y == {f[x] : x \in X}
<1>y. \A x \in X : f[x] \in Y
  OBVIOUS
<1> HIDE DEF Y
<1>0. \A u \in Seq(X) : /\ Mapped(f, u) \in Seq(Y) /\ Len(Mapped(f, u)) = Len(u)
                       /\ \A k \in 1..Len(u) : Mapped(f, u)[k] = f[u[k]]
  BY <1>y DEF Mapped
<1>1. /\ Below(s, n) \in Seq(X) /\ Len(Below(s, n)) = Len(s) - n
      /\ \A k \in 1..Len(s) - n : Below(s, n)[k] = s[k]
  BY BelowIs
<1>2. /\ Mapped(f, s) \in Seq(Y) /\ Len(Mapped(f, s)) = Len(s)
      /\ \A k \in 1..Len(s) : Mapped(f, s)[k] = f[s[k]]
  BY <1>0, Zenon
<1>3. /\ Below(Mapped(f, s), n) \in Seq(Y) /\ Len(Below(Mapped(f, s), n)) = Len(s) - n
      /\ \A k \in 1..Len(s) - n : Below(Mapped(f, s), n)[k] = Mapped(f, s)[k]
  <2>1. \A m \in 0..Len(Mapped(f, s)) :
          LET b == Below(Mapped(f, s), m)
          IN  /\ b \in Seq(Y) /\ Len(b) = Len(Mapped(f, s)) - m
              /\ \A k \in 1..Len(Mapped(f, s)) - m : b[k] = Mapped(f, s)[k]
    BY <1>2, BelowIs, Zenon
  <2>2. n \in 0..Len(Mapped(f, s))
    BY <1>2
  <2> QED BY <2>1, <2>2, <1>2
<1>4. /\ Mapped(f, Below(s, n)) \in Seq(Y) /\ Len(Mapped(f, Below(s, n))) = Len(s) - n
      /\ \A k \in 1..Len(s) - n : Mapped(f, Below(s, n))[k] = f[Below(s, n)[k]]
  <2>1. /\ Mapped(f, Below(s, n)) \in Seq(Y) /\ Len(Mapped(f, Below(s, n))) = Len(Below(s, n))
        /\ \A k \in 1..Len(Below(s, n)) : Mapped(f, Below(s, n))[k] = f[Below(s, n)[k]]
    BY <1>0, <1>1, Zenon
  <2> QED BY <2>1, <1>1
<1>5. \A k \in 1..Len(s) - n : k \in 1..Len(s)
  OBVIOUS
<1>6. ASSUME NEW k \in 1..Len(s) - n PROVE Mapped(f, Below(s, n))[k] = Below(Mapped(f, s), n)[k]
  <2>1. Mapped(f, s)[k] = f[s[k]]
    BY <1>2, <1>5
  <2>2. Below(s, n)[k] = s[k]
    BY <1>1
  <2> QED BY <2>1, <2>2, <1>3, <1>4
<1> QED BY <1>3, <1>4, <1>6, SameSequence

\* And with what they push.
LEMMA MappedJoin ==
    ASSUME NEW X, NEW f, NEW s \in Seq(X), NEW t \in Seq(X)
    PROVE  Mapped(f, s \o t) = Mapped(f, s) \o Mapped(f, t)
<1> DEFINE Y == {f[x] : x \in X}
<1>y. \A x \in X : f[x] \in Y
  OBVIOUS
<1> HIDE DEF Y
<1>0. \A u \in Seq(X) : /\ Mapped(f, u) \in Seq(Y) /\ Len(Mapped(f, u)) = Len(u)
                       /\ \A k \in 1..Len(u) : Mapped(f, u)[k] = f[u[k]]
  BY <1>y DEF Mapped
<1>1. /\ s \o t \in Seq(X) /\ Len(s \o t) = Len(s) + Len(t)
      /\ \A k \in 1..Len(s) + Len(t) : (s \o t)[k] = IF k <= Len(s) THEN s[k] ELSE t[k - Len(s)]
  BY Joined
<1>2. /\ Mapped(f, s) \in Seq(Y) /\ Len(Mapped(f, s)) = Len(s)
      /\ \A k \in 1..Len(s) : Mapped(f, s)[k] = f[s[k]]
  BY <1>0, Zenon
<1>3. /\ Mapped(f, t) \in Seq(Y) /\ Len(Mapped(f, t)) = Len(t)
      /\ \A k \in 1..Len(t) : Mapped(f, t)[k] = f[t[k]]
  BY <1>0, Zenon
<1>4. /\ Mapped(f, s \o t) \in Seq(Y) /\ Len(Mapped(f, s \o t)) = Len(s) + Len(t)
      /\ \A k \in 1..Len(s) + Len(t) : Mapped(f, s \o t)[k] = f[(s \o t)[k]]
  <2>1. /\ Mapped(f, s \o t) \in Seq(Y) /\ Len(Mapped(f, s \o t)) = Len(s \o t)
        /\ \A k \in 1..Len(s \o t) : Mapped(f, s \o t)[k] = f[(s \o t)[k]]
    BY <1>0, <1>1, Zenon
  <2> QED BY <2>1, <1>1
<1> DEFINE joined == Mapped(f, s) \o Mapped(f, t)
<1>5. /\ joined \in Seq(Y) /\ Len(joined) = Len(s) + Len(t)
      /\ \A k \in 1..Len(s) + Len(t) :
           joined[k] = IF k <= Len(s) THEN Mapped(f, s)[k] ELSE Mapped(f, t)[k - Len(s)]
  <2>1. /\ joined \in Seq(Y) /\ Len(joined) = Len(Mapped(f, s)) + Len(Mapped(f, t))
        /\ \A k \in 1..Len(Mapped(f, s)) + Len(Mapped(f, t)) :
             joined[k] = IF k <= Len(Mapped(f, s)) THEN Mapped(f, s)[k]
                         ELSE Mapped(f, t)[k - Len(Mapped(f, s))]
    BY <1>2, <1>3, Joined
  <2> HIDE DEF joined
  <2> QED BY <2>1, <1>2, <1>3
<1> HIDE DEF joined
<1>6. ASSUME NEW k \in 1..Len(s) + Len(t) PROVE Mapped(f, s \o t)[k] = joined[k]
  <2>1. CASE k <= Len(s)
    <3>1. k \in 1..Len(s)
      BY <2>1
    <3> QED BY <3>1, <2>1, <1>1, <1>2, <1>4, <1>5
  <2>2. CASE ~ (k <= Len(s))
    <3>1. k - Len(s) \in 1..Len(t)
      BY <2>2
    <3> QED BY <3>1, <2>2, <1>1, <1>3, <1>4, <1>5
  <2> QED BY <2>1, <2>2
<1>7. Mapped(f, s \o t) = joined
  BY <1>4, <1>5, <1>6, SameSequence
<1> QED BY <1>7 DEF joined

----------------------------------------------------------------------------
(***************************************************************************)
(* The machine.                                                            *)
(***************************************************************************)
Arity(i) == IF i.op = "new_array" THEN Cells(i) ELSE i.n
Takes(i) == Len(Operands(i.op, Arity(i)))
Fails(ks, i) == Len(ks) < Takes(i) \/ (i.op = "new_array" /\ i.v \notin KnownTypes)

\* The kinds on the stack after an instruction.
Leaving(ks, i) ==
    CASE i.op = "dup"  -> <<ks[Len(ks)], ks[Len(ks)]>>
      [] i.op = "swap" -> <<ks[Len(ks)], ks[Len(ks) - 1]>>
      [] OTHER         -> Results(i.op, Arity(i))
After(ks, i) == Below(ks, Takes(i)) \o Leaving(ks, i)

\* The instances of StackMachine speak of the same instructions.
LEMMA SameOperators ==
    /\ \A op, count : ValidatorMachine!Operands(op, count) = Operands(op, count)
    /\ \A op, count : ValidatorMachine!Results(op, count) = Results(op, count)
    /\ \A s, k : ValidatorMachine!Below(s, k) = Below(s, k)
    /\ \A s, k : ValidatorMachine!Topmost(s, k) = Topmost(s, k)
    /\ \A i : ValidatorMachine!Arity(i) = Arity(i)
  BY DEF ValidatorMachine!Operands, Operands, ValidatorMachine!Results, Results, ValidatorMachine!Below,
         Below, ValidatorMachine!Topmost, Topmost, ValidatorMachine!Arity, Arity,
         ValidatorMachine!Cells, Cells, ValidatorMachine!Times, Times, ValidatorMachine!Any, Any,
         ValidatorMachine!ConstKind, ConstKind, ValidatorMachine!Constants, Constants

\* An instruction of the machine, one of the walks at a time: it runs, sticks or
\* is ignored.
Moves(stuck, ks, stuck2, ks2) ==
    \E i \in Instructions :
        /\ program' = Append(program, i)
        /\ \/ stuck = 0 /\ ~ Fails(ks, i) /\ ks2 = After(ks, i) /\ stuck2 = stuck
           \/ stuck = 0 /\ Fails(ks, i) /\ stuck2 = Len(program) + 1 /\ ks2 = << >>
           \/ stuck # 0 /\ ks2 = ks /\ stuck2 = stuck

TagOf == [e \in Entry |-> e.tag]
Value == [stmt : Nat, out : Nat, kind : Kinds, value : Immediates \cup {NoValue}]
KindOf == [e \in Value |-> e.kind]

ValidatorKinds == IF FirstFatal # 0 THEN << >> ELSE [k \in 1..Len(stack) |-> stack[k].tag]
DecoderKinds == [k \in 1..Len(frame) |-> frame[k].kind]

\* What an instruction takes is counted by a number.
LEMMA TakesType ==
    ASSUME NEW i \in Instructions
    PROVE  Arity(i) \in Nat /\ Takes(i) \in Nat
<1>1. i.n \in Nat /\ i.m \in Nat
  BY InstructionAssumption
<1>2. Arity(i) \in Nat
  BY <1>1 DEF Arity, Cells
<1> QED BY <1>2, OperandsType DEF Takes

\* A step of either walk that does what the machine does is a step of its
\* instance.
LEMMA ValidatorStep ==
    ASSUME Moves(FirstFatal, ValidatorKinds, FirstFatal', ValidatorKinds'),
           ValidatorKinds \in Seq(Kinds)
    PROVE  ValidatorMachine!MachineNext
<1>1. PICK i \in Instructions :
        /\ program' = Append(program, i)
        /\ \/ FirstFatal = 0 /\ ~ Fails(ValidatorKinds, i) /\ ValidatorKinds' = After(ValidatorKinds, i) /\ FirstFatal' = FirstFatal
           \/ FirstFatal = 0 /\ Fails(ValidatorKinds, i) /\ FirstFatal' = Len(program) + 1 /\ ValidatorKinds' = << >>
           \/ FirstFatal # 0 /\ ValidatorKinds' = ValidatorKinds /\ FirstFatal' = FirstFatal
  BY DEF Moves
<1>2. CASE FirstFatal = 0 /\ ~ Fails(ValidatorKinds, i) /\ ValidatorKinds' = After(ValidatorKinds, i) /\ FirstFatal' = FirstFatal
  <2>0. /\ Takes(i) \in Nat /\ Len(ValidatorKinds) \in Nat /\ Len(ValidatorKinds) >= Takes(i)
        /\ i.op = "new_array" => i.v \in KnownTypes
    BY <1>2, TakesType DEF Fails
  <2>1. ValidatorMachine!Leaves(i) = Leaving(ValidatorKinds, i)
    <3>1. Takes(i) = Len(ValidatorMachine!Operands(i.op, ValidatorMachine!Arity(i)))
      BY SameOperators DEF Takes
    <3>2. /\ i.op = "dup" => Takes(i) = 1
          /\ i.op = "swap" => Takes(i) = 2
      BY DEF Takes, Operands
    <3>3. /\ i.op = "dup" => Topmost(ValidatorKinds, Takes(i))[1] = ValidatorKinds[Len(ValidatorKinds)]
          /\ i.op = "swap" => /\ Topmost(ValidatorKinds, Takes(i))[1] = ValidatorKinds[Len(ValidatorKinds)]
                             /\ Topmost(ValidatorKinds, Takes(i))[2] = ValidatorKinds[Len(ValidatorKinds) - 1]
      <4> HIDE DEF ValidatorKinds
      <4> QED BY <2>0, <3>2 DEF Topmost
    <3>4. ValidatorMachine!Leaves(i) =
            LET taken == Topmost(ValidatorKinds, Takes(i))
            IN  CASE i.op = "dup"  -> <<taken[1], taken[1]>>
                  [] i.op = "swap" -> <<taken[1], taken[2]>>
                  [] OTHER         -> Results(i.op, Arity(i))
      BY SameOperators, <3>1 DEF ValidatorMachine!Leaves, ValidatorKinds
    <3> QED BY <3>3, <3>4 DEF Leaving
  <2>2. ValidatorMachine!Runs(i)
    BY <2>0, SameOperators DEF ValidatorMachine!Runs, Takes, ValidatorKinds
  <2>3. ValidatorKinds' = Below(ValidatorKinds, Takes(i)) \o ValidatorMachine!Leaves(i)
    BY <1>2, <2>1 DEF After
  <2>4. ValidatorMachine!Execute(i)
    BY <1>2, <2>2, <2>3, SameOperators DEF ValidatorMachine!Execute, Takes, ValidatorKinds
  <2> QED BY <1>1, <2>4 DEF ValidatorMachine!MachineNext
<1>3. CASE FirstFatal = 0 /\ Fails(ValidatorKinds, i) /\ FirstFatal' = Len(program) + 1 /\ ValidatorKinds' = << >>
  <2>1. ValidatorMachine!Stick(i)
    BY <1>3, SameOperators DEF ValidatorMachine!Stick, ValidatorMachine!Runs, Fails, Takes, ValidatorKinds
  <2> QED BY <1>1, <2>1 DEF ValidatorMachine!MachineNext
<1>4. CASE FirstFatal # 0 /\ ValidatorKinds' = ValidatorKinds /\ FirstFatal' = FirstFatal
  <2>1. ValidatorMachine!Ignore
    BY <1>4 DEF ValidatorMachine!Ignore, ValidatorKinds
  <2> QED BY <1>1, <2>1 DEF ValidatorMachine!MachineNext
<1> QED BY <1>1, <1>2, <1>3, <1>4

\* The same of the decoder's.
LEMMA DecoderOperators ==
    /\ \A op, count : DecoderMachine!Operands(op, count) = Operands(op, count)
    /\ \A op, count : DecoderMachine!Results(op, count) = Results(op, count)
    /\ \A s, k : DecoderMachine!Below(s, k) = Below(s, k)
    /\ \A s, k : DecoderMachine!Topmost(s, k) = Topmost(s, k)
    /\ \A i : DecoderMachine!Arity(i) = Arity(i)
  BY DEF DecoderMachine!Operands, Operands, DecoderMachine!Results, Results, DecoderMachine!Below,
         Below, DecoderMachine!Topmost, Topmost, DecoderMachine!Arity, Arity,
         DecoderMachine!Cells, Cells, DecoderMachine!Times, Times, DecoderMachine!Any, Any,
         DecoderMachine!ConstKind, ConstKind, DecoderMachine!Constants, Constants

\* A step of the decoder that does what the machine does is one of its instance.
LEMMA DecoderStep ==
    ASSUME Moves(failed, DecoderKinds, failed', DecoderKinds'),
           DecoderKinds \in Seq(Kinds)
    PROVE  DecoderMachine!MachineNext
<1>1. PICK i \in Instructions :
        /\ program' = Append(program, i)
        /\ \/ failed = 0 /\ ~ Fails(DecoderKinds, i) /\ DecoderKinds' = After(DecoderKinds, i) /\ failed' = failed
           \/ failed = 0 /\ Fails(DecoderKinds, i) /\ failed' = Len(program) + 1 /\ DecoderKinds' = << >>
           \/ failed # 0 /\ DecoderKinds' = DecoderKinds /\ failed' = failed
  BY DEF Moves
<1>2. CASE failed = 0 /\ ~ Fails(DecoderKinds, i) /\ DecoderKinds' = After(DecoderKinds, i) /\ failed' = failed
  <2>0. /\ Takes(i) \in Nat /\ Len(DecoderKinds) \in Nat /\ Len(DecoderKinds) >= Takes(i)
        /\ i.op = "new_array" => i.v \in KnownTypes
    BY <1>2, TakesType DEF Fails
  <2>1. DecoderMachine!Leaves(i) = Leaving(DecoderKinds, i)
    <3>1. Takes(i) = Len(DecoderMachine!Operands(i.op, DecoderMachine!Arity(i)))
      BY DecoderOperators DEF Takes
    <3>2. /\ i.op = "dup" => Takes(i) = 1
          /\ i.op = "swap" => Takes(i) = 2
      BY DEF Takes, Operands
    <3>3. /\ i.op = "dup" => Topmost(DecoderKinds, Takes(i))[1] = DecoderKinds[Len(DecoderKinds)]
          /\ i.op = "swap" => /\ Topmost(DecoderKinds, Takes(i))[1] = DecoderKinds[Len(DecoderKinds)]
                             /\ Topmost(DecoderKinds, Takes(i))[2] = DecoderKinds[Len(DecoderKinds) - 1]
      <4> HIDE DEF DecoderKinds
      <4> QED BY <2>0, <3>2 DEF Topmost
    <3>4. DecoderMachine!Leaves(i) =
            LET taken == Topmost(DecoderKinds, Takes(i))
            IN  CASE i.op = "dup"  -> <<taken[1], taken[1]>>
                  [] i.op = "swap" -> <<taken[1], taken[2]>>
                  [] OTHER         -> Results(i.op, Arity(i))
      BY DecoderOperators, <3>1 DEF DecoderMachine!Leaves, DecoderKinds
    <3> QED BY <3>3, <3>4 DEF Leaving
  <2>2. DecoderMachine!Runs(i)
    BY <2>0, DecoderOperators DEF DecoderMachine!Runs, Takes, DecoderKinds
  <2>3. DecoderKinds' = Below(DecoderKinds, Takes(i)) \o DecoderMachine!Leaves(i)
    BY <1>2, <2>1 DEF After
  <2>4. DecoderMachine!Execute(i)
    BY <1>2, <2>2, <2>3, DecoderOperators DEF DecoderMachine!Execute, Takes, DecoderKinds
  <2> QED BY <1>1, <2>4 DEF DecoderMachine!MachineNext
<1>3. CASE failed = 0 /\ Fails(DecoderKinds, i) /\ failed' = Len(program) + 1 /\ DecoderKinds' = << >>
  <2>1. DecoderMachine!Stick(i)
    BY <1>3, DecoderOperators DEF DecoderMachine!Stick, DecoderMachine!Runs, Fails, Takes, DecoderKinds
  <2> QED BY <1>1, <2>1 DEF DecoderMachine!MachineNext
<1>4. CASE failed # 0 /\ DecoderKinds' = DecoderKinds /\ failed' = failed
  <2>1. DecoderMachine!Ignore
    BY <1>4 DEF DecoderMachine!Ignore, DecoderKinds
  <2> QED BY <1>1, <2>1 DEF DecoderMachine!MachineNext
<1> QED BY <1>1, <1>2, <1>3, <1>4

----------------------------------------------------------------------------
(***************************************************************************)
(* The validator's stack.                                                  *)
(***************************************************************************)
\* The simulator's arity is the machine's when the dimensions fit.
LEMMA AritiesAgree ==
    ASSUME NEW i \in Instructions, DimensionsFit
    PROVE  SimArity(i) = Arity(i) /\ Wanted(i) = Operands(i.op, Arity(i)) /\ Len(Wanted(i)) = Takes(i)
<1>1. i.n \in Nat /\ i.m \in Nat
  BY InstructionAssumption
<1>2. Cells(i) \in Nat
  BY <1>1 DEF Cells
<1>3. i.op = "new_array" => Cells(i) % Width = Cells(i)
  BY <1>2, BytecodeAssumption DEF DimensionsFit
<1>4. SimArity(i) = Arity(i)
  BY <1>3 DEF SimArity, Arity
<1> QED BY <1>4 DEF Wanted, Takes

\* A constant has an immediate or the mark of none; what is popped are entries.
LEMMA PoppedType ==
    ASSUME NEW i \in Instructions, stack \in Seq(Entry)
    PROVE  /\ Len(Popped(i)) = LeastOf(Len(stack), Len(Wanted(i)))
           /\ Len(Popped(i)) \in 0..Len(stack) /\ Popped(i) \in Seq(Entry)
           /\ \A k \in 1..Len(Popped(i)) : Popped(i)[k] = stack[Len(stack) + 1 - k]
<1>1. Len(Wanted(i)) \in Nat
  <2>1. i.n \in Nat /\ i.m \in Nat
    BY InstructionAssumption
  <2>2. Cells(i) \in Nat
    BY <2>1 DEF Cells
  <2>3. Width \in Nat \ {0}
    BY BytecodeAssumption
  <2>4. SimArity(i) \in Nat
    BY <2>1, <2>2, <2>3 DEF SimArity
  <2> QED BY <2>4, OperandsType DEF Wanted
<1> DEFINE n == LeastOf(Len(stack), Len(Wanted(i)))
<1>2. n \in 0..Len(stack)
  BY <1>1 DEF LeastOf
<1>3. \A k \in 1..n : Len(stack) + 1 - k \in 1..Len(stack)
  BY <1>2
<1> HIDE DEF n
<1>4. \A k \in 1..n : stack[Len(stack) + 1 - k] \in Entry
  BY <1>3
<1>5. Popped(i) = [k \in 1..n |-> stack[Len(stack) + 1 - k]]
  BY DEF Popped, Topmost, n
<1>6. Popped(i) \in Seq(Entry) /\ Len(Popped(i)) = n
  BY <1>2, <1>4, <1>5
<1> QED BY <1>2, <1>5, <1>6 DEF n

\* So is what is pushed.
LEMMA EntriesType ==
    ASSUME NEW i \in Instructions
    PROVE  /\ Entries(i) \in Seq(Entry) /\ Len(Entries(i)) = Len(Results(i.op, SimArity(i)))
           /\ \A k \in 1..Len(Entries(i)) : Entries(i)[k].tag = Results(i.op, SimArity(i))[k]
<1> DEFINE res == Results(i.op, SimArity(i))
           val == IF i.op \in Constants THEN i.v ELSE NoValue
<1>1. res \in Seq(Kinds)
  <2>1. i.n \in Nat /\ i.m \in Nat
    BY InstructionAssumption
  <2>2. Cells(i) \in Nat
    BY <2>1 DEF Cells
  <2>3. Width \in Nat \ {0}
    BY BytecodeAssumption
  <2>4. SimArity(i) \in Nat
    BY <2>1, <2>2, <2>3 DEF SimArity
  <2> QED BY <2>4, ResultsType
<1>2. val \in Immediates \cup {NoValue}
  BY InstructionAssumption
<1>3. Entries(i) = [k \in DOMAIN res |-> [tag |-> res[k], value |-> val]]
  BY DEF Entries
<1> HIDE DEF res, val
<1>4. \A k \in DOMAIN res : [tag |-> res[k], value |-> val] \in Entry
  BY <1>1, <1>2 DEF Entry
<1>5. Entries(i) \in Seq(Entry) /\ Len(Entries(i)) = Len(res) /\ DOMAIN res = 1..Len(res)
  BY <1>1, <1>3, <1>4
<1>6. \A k \in 1..Len(Entries(i)) : Entries(i)[k].tag = res[k]
  BY <1>3, <1>5
<1> QED BY <1>5, <1>6 DEF res

\* The stack holds entries after every instruction.
LEMMA SimulatedType ==
    ASSUME NEW i \in Instructions, stack \in Seq(Entry)
    PROVE  Simulated(i) \in Seq(Entry)
<1>0. Len(stack) \in Nat
  OBVIOUS
<1>1. /\ Len(Popped(i)) = LeastOf(Len(stack), Len(Wanted(i)))
      /\ Len(Popped(i)) \in 0..Len(stack) /\ Popped(i) \in Seq(Entry)
  BY PoppedType
<1>2. Entries(i) \in Seq(Entry)
  BY EntriesType
<1>3. Below(stack, Len(Popped(i))) \o Entries(i) \in Seq(Entry)
  <2>1. Below(stack, Len(Popped(i))) \in Seq(Entry)
    BY <1>1, BelowIs
  <2> QED BY <2>1, <1>2, Joined
<1>4. CASE i.op \in {"dup", "swap"} /\ Short(i)
  BY <1>4 DEF Simulated
<1>5. CASE i.op = "dup" /\ ~ Short(i)
  <2>1. Len(Wanted(i)) = 1
    BY <1>5 DEF Wanted, Operands
  <2>2. Len(Popped(i)) = 1
    <3>1. Len(stack) >= 1
      BY <1>0, <1>5, <2>1 DEF Short
    <3>2. LeastOf(Len(stack), 1) = 1
      <4>1. \A n \in Nat : n >= 1 => LeastOf(n, 1) = 1
        BY DEF LeastOf
      <4> QED BY <1>0, <3>1, <4>1
    <3> QED BY <1>1, <2>1, <3>2
  <2>3. Popped(i)[1] \in Entry
    BY <1>1, <2>2
  <2>4. Simulated(i) = Append(stack, Popped(i)[1])
    BY <1>5 DEF Simulated
  <2> QED BY <2>3, <2>4
<1>6. CASE i.op = "swap" /\ ~ Short(i)
  <2>1. Len(Wanted(i)) = 2
    BY <1>6 DEF Wanted, Operands
  <2>2. 2 \in 0..Len(stack)
    BY <1>6, <2>1 DEF Short
  <2>3. Below(stack, 2) \in Seq(Entry)
    BY <2>2, BelowIs
  <2>4. Simulated(i) = Below(stack, 2) \o Popped(i)
    BY <1>6 DEF Simulated
  <2> QED BY <1>1, <2>3, <2>4, Joined
<1>7. CASE i.op \notin {"dup", "swap"}
  BY <1>3, <1>7 DEF Simulated
<1> QED BY <1>4, <1>5, <1>6, <1>7

\* The tags of what is left and what is pushed.
LEMMA TagsJoin ==
    ASSUME NEW s \in Seq(Entry), NEW n \in 0..Len(s), NEW top \in Seq(Entry)
    PROVE  Mapped(TagOf, Below(s, n) \o top) = Below(Mapped(TagOf, s), n) \o Mapped(TagOf, top)
<1>1. Below(s, n) \in Seq(Entry)
  BY BelowIs
<1> HIDE DEF TagOf, Entry
<1>2. Mapped(TagOf, Below(s, n) \o top) = Mapped(TagOf, Below(s, n)) \o Mapped(TagOf, top)
  BY <1>1, MappedJoin
<1>3. Mapped(TagOf, Below(s, n)) = Below(Mapped(TagOf, s), n)
  BY MappedBelow
<1> QED BY <1>2, <1>3

\* Likewise the kinds of the decoder's values.
LEMMA KindsJoin ==
    ASSUME NEW s \in Seq(Value), NEW n \in 0..Len(s), NEW top \in Seq(Value)
    PROVE  Mapped(KindOf, Below(s, n) \o top) = Below(Mapped(KindOf, s), n) \o Mapped(KindOf, top)
<1>1. Below(s, n) \in Seq(Value)
  BY BelowIs
<1> HIDE DEF KindOf, Value
<1>2. Mapped(KindOf, Below(s, n) \o top) = Mapped(KindOf, Below(s, n)) \o Mapped(KindOf, top)
  BY <1>1, MappedJoin
<1>3. Mapped(KindOf, Below(s, n)) = Below(Mapped(KindOf, s), n)
  BY MappedBelow
<1> QED BY <1>2, <1>3

\* The tags of two entries.
LEMMA TagsOfTwo ==
    \A a, b \in Entry : <<a, b>> \in Seq(Entry) /\ Mapped(TagOf, <<a, b>>) = <<a.tag, b.tag>>
<1> SUFFICES ASSUME NEW a \in Entry, NEW b \in Entry
             PROVE  <<a, b>> \in Seq(Entry) /\ Mapped(TagOf, <<a, b>>) = <<a.tag, b.tag>>
  OBVIOUS
<1>1. a.tag \in Kinds /\ b.tag \in Kinds /\ TagOf[a] = a.tag /\ TagOf[b] = b.tag
  BY DEF Entry, TagOf
<1> HIDE DEF Entry, Kinds, TagOf
<1>2. <<a, b>> \in Seq(Entry) /\ Len(<<a, b>>) = 2 /\ <<a, b>>[1] = a /\ <<a, b>>[2] = b
  OBVIOUS
<1>3. Mapped(TagOf, <<a, b>>) = [k \in 1..2 |-> TagOf[<<a, b>>[k]]]
  BY <1>2 DEF Mapped
<1>4. \A k \in 1..2 : TagOf[<<a, b>>[k]] = <<a.tag, b.tag>>[k]
  BY <1>1, <1>2
<1>5. Mapped(TagOf, <<a, b>>) = <<a.tag, b.tag>>
  <2>1. \A x, y : <<x, y>> = [k \in 1..2 |-> <<x, y>>[k]]
    OBVIOUS
  <2> QED BY <1>3, <1>4, <2>1
<1> QED BY <1>2, <1>5

\* A Dup leaves its operand and one more.
LEMMA Duplicated ==
    ASSUME NEW S, NEW s \in Seq(S), NEW n \in Nat, Len(s) = n, n >= 1, NEW x \in S
    PROVE  s \o <<x>> = Below(s, 1) \o <<s[n], x>>
<1>1. 1 \in 0..Len(s) /\ n \in 1..Len(s)
  OBVIOUS
<1>2. /\ Below(s, 1) \in Seq(S) /\ Len(Below(s, 1)) = n - 1
      /\ \A k \in 1..n - 1 : Below(s, 1)[k] = s[k]
  BY <1>1, BelowIs
<1>3. s[n] \in S /\ <<s[n], x>> \in Seq(S) /\ <<x>> \in Seq(S)
  BY <1>1
<1> DEFINE a == s \o <<x>>
           b == Below(s, 1) \o <<s[n], x>>
<1>4. /\ a \in Seq(S) /\ Len(a) = n + 1
      /\ \A k \in 1..n + 1 : a[k] = IF k <= n THEN s[k] ELSE x
  OBVIOUS
<1>5. /\ b \in Seq(S) /\ Len(b) = n + 1
      /\ \A k \in 1..n + 1 : b[k] = IF k <= n - 1 THEN Below(s, 1)[k] ELSE <<s[n], x>>[k - (n - 1)]
  BY <1>2, <1>3
<1> HIDE DEF a, b
<1>6. ASSUME NEW k \in 1..n + 1 PROVE a[k] = b[k]
  <2>1. CASE k <= n - 1
    BY <2>1, <1>2, <1>4, <1>5
  <2>2. CASE k = n
    BY <2>2, <1>4, <1>5
  <2>3. CASE k = n + 1
    BY <2>3, <1>4, <1>5
  <2> QED BY <2>1, <2>2, <2>3
<1>7. a = b
  BY <1>4, <1>5, <1>6, SameSequence
<1> QED BY <1>7 DEF a, b

\* What the simulator leaves has the kinds the machine leaves.
LEMMA SimulatedIs ==
    ASSUME NEW i \in Instructions, DimensionsFit, stack \in Seq(Entry), Len(stack) >= Takes(i)
    PROVE  Mapped(TagOf, Simulated(i)) = After(Mapped(TagOf, stack), i)
<1> DEFINE ks == Mapped(TagOf, stack)
<1>1. Takes(i) \in Nat /\ Len(Wanted(i)) = Takes(i) /\ SimArity(i) = Arity(i) /\ Len(stack) \in Nat
  BY TakesType, AritiesAgree
<1>2. Takes(i) \in 0..Len(stack) /\ ~ Short(i)
  BY <1>1 DEF Short
<1>3. Len(Popped(i)) = Takes(i)
  <2>1. \A m, n \in Nat : m >= n => LeastOf(m, n) = n
    BY DEF LeastOf
  <2>2. Len(Popped(i)) = LeastOf(Len(stack), Takes(i))
    BY <1>1, PoppedType
  <2> QED BY <1>1, <2>1, <2>2
<1>4. \A k \in 1..Takes(i) : Popped(i)[k] = stack[Len(stack) + 1 - k]
  BY <1>3, PoppedType
<1>5. /\ Len(ks) = Len(stack) /\ \A k \in 1..Len(stack) : ks[k] = stack[k].tag
  BY DEF Mapped, TagOf
<1>6. \A s \in Seq(Entry) : Mapped(TagOf, s) = [k \in 1..Len(s) |-> s[k].tag]
  BY DEF Mapped, TagOf
<1> SUFFICES \E top \in Seq(Entry) :
               Simulated(i) = Below(stack, Takes(i)) \o top /\ Mapped(TagOf, top) = Leaving(ks, i)
  BY <1>2, TagsJoin DEF After
<1> HIDE DEF ks
<1>7. CASE i.op = "dup"
  <2>1. Takes(i) = 1
    BY <1>7 DEF Takes, Operands
  <2> DEFINE t == stack[Len(stack)]
  <2>2. t \in Entry /\ Popped(i)[1] = t /\ ks[Len(ks)] = t.tag
    BY <1>1, <1>2, <1>4, <1>5, <2>1
  <2>3. Simulated(i) = Append(stack, t)
    BY <1>7, <1>2, <2>2 DEF Simulated
  <2> HIDE DEF t
  <2>4. Append(stack, t) = stack \o <<t>>
    BY <2>2
  <2>5. stack \o <<t>> = Below(stack, 1) \o <<t, t>>
    BY <1>1, <1>2, <2>1, <2>2, Duplicated DEF t
  <2>6. <<t, t>> \in Seq(Entry) /\ Mapped(TagOf, <<t, t>>) = <<t.tag, t.tag>>
    BY <2>2, TagsOfTwo, Zenon
  <2>7. Leaving(ks, i) = <<t.tag, t.tag>>
    BY <1>7, <2>2 DEF Leaving
  <2> QED BY <2>1, <2>3, <2>4, <2>5, <2>6, <2>7
<1>8. CASE i.op = "swap"
  <2>1. Takes(i) = 2
    BY <1>8 DEF Takes, Operands
  <2> DEFINE t == stack[Len(stack)]
             u == stack[Len(stack) - 1]
  <2>2. /\ t \in Entry /\ Popped(i)[1] = t /\ ks[Len(ks)] = t.tag
        /\ u \in Entry /\ Popped(i)[2] = u /\ ks[Len(ks) - 1] = u.tag
    BY <1>1, <1>2, <1>4, <1>5, <2>1
  <2> HIDE DEF t, u
  <2>3. Popped(i) = <<t, u>>
    <3>1. Popped(i) \in Seq(Entry) /\ <<t, u>> \in Seq(Entry)
      BY <2>2, PoppedType
    <3> QED BY <3>1, <2>1, <2>2, <1>3
  <2>4. Simulated(i) = Below(stack, 2) \o <<t, u>>
    BY <1>8, <1>2, <2>3 DEF Simulated
  <2>5. <<t, u>> \in Seq(Entry) /\ Mapped(TagOf, <<t, u>>) = <<t.tag, u.tag>>
    BY <2>2, TagsOfTwo, Zenon
  <2>6. Leaving(ks, i) = <<t.tag, u.tag>>
    BY <1>8, <2>2 DEF Leaving
  <2> QED BY <2>1, <2>4, <2>5, <2>6
<1>9. CASE i.op \notin {"dup", "swap"}
  <2>1. Simulated(i) = Below(stack, Takes(i)) \o Entries(i)
    BY <1>9, <1>3 DEF Simulated
  <2>2. /\ Entries(i) \in Seq(Entry) /\ Len(Entries(i)) = Len(Results(i.op, Arity(i)))
        /\ \A k \in 1..Len(Entries(i)) : Entries(i)[k].tag = Results(i.op, Arity(i))[k]
    BY <1>1, EntriesType
  <2>3. Results(i.op, Arity(i)) \in Seq(Kinds)
    BY TakesType, ResultsType
  <2>4. Mapped(TagOf, Entries(i)) = [k \in 1..Len(Entries(i)) |-> Entries(i)[k].tag]
    BY <2>2, <1>6
  <2>5. Mapped(TagOf, Entries(i)) = Results(i.op, Arity(i))
    BY <2>2, <2>3, <2>4
  <2>6. Leaving(ks, i) = Results(i.op, Arity(i))
    BY <1>9 DEF Leaving
  <2> QED BY <2>1, <2>2, <2>5, <2>6
<1> QED BY <1>7, <1>8, <1>9

----------------------------------------------------------------------------
(***************************************************************************)
(* The decoder's frame.                                                    *)
(***************************************************************************)
\* The kinds of two values.
LEMMA KindsOfTwo ==
    \A a, b \in Value : <<a, b>> \in Seq(Value) /\ Mapped(KindOf, <<a, b>>) = <<a.kind, b.kind>>
<1> SUFFICES ASSUME NEW a \in Value, NEW b \in Value
             PROVE  <<a, b>> \in Seq(Value) /\ Mapped(KindOf, <<a, b>>) = <<a.kind, b.kind>>
  OBVIOUS
<1>1. a.kind \in Kinds /\ b.kind \in Kinds /\ KindOf[a] = a.kind /\ KindOf[b] = b.kind
  BY DEF Value, KindOf
<1> HIDE DEF Value, Kinds, KindOf
<1>2. <<a, b>> \in Seq(Value) /\ Len(<<a, b>>) = 2 /\ <<a, b>>[1] = a /\ <<a, b>>[2] = b
  OBVIOUS
<1>3. Mapped(KindOf, <<a, b>>) = [k \in 1..2 |-> KindOf[<<a, b>>[k]]]
  BY <1>2 DEF Mapped
<1>4. \A k \in 1..2 : KindOf[<<a, b>>[k]] = <<a.kind, b.kind>>[k]
  BY <1>1, <1>2
<1>5. Mapped(KindOf, <<a, b>>) = <<a.kind, b.kind>>
  <2>1. \A x, y : <<x, y>> = [k \in 1..2 |-> <<x, y>>[k]]
    OBVIOUS
  <2> QED BY <1>3, <1>4, <2>1
<1> QED BY <1>2, <1>5

\* An instruction's results are all of one kind, dup's and swap's apart, and
\* only a measure's depend on its arity.
LEMMA ResultsUniform ==
    ASSUME NEW i \in Instructions
    PROVE  /\ Results(i.op, i.n) = Results(i.op, Arity(i))
           /\ \A j, k \in 1..Len(Results(i.op, i.n)) : Results(i.op, i.n)[j] = Results(i.op, i.n)[k]
<1>0. i.n \in Nat
  BY InstructionAssumption
<1>1. Results(i.op, i.n) = Results(i.op, Arity(i))
  BY DEF Results, Arity
<1>2. /\ Len(Times(i.n, "future")) = i.n
      /\ \A j, k \in 1..i.n : Times(i.n, "future")[j] = Times(i.n, "future")[k]
  BY <1>0 DEF Times
<1>3. \/ Results(i.op, i.n) = Times(i.n, "future") \/ Results(i.op, i.n) = << >>
      \/ \E x : Results(i.op, i.n) = <<x>>
  BY DEF Results
<1>4. \A x : \A j, k \in 1..Len(<<x>>) : <<x>>[j] = <<x>>[k]
  OBVIOUS
<1>5. \A j, k \in 1..Len(<< >>) : << >>[j] = << >>[k]
  OBVIOUS
<1> QED BY <1>1, <1>2, <1>3, <1>4, <1>5

\* What a handler pops.
LEMMA TakenType ==
    ASSUME NEW i \in Instructions, frame \in Seq(Value), Len(frame) >= Takes(i)
    PROVE  /\ Taken(i) \in Seq(Value) /\ Len(Taken(i)) = Takes(i)
           /\ Takes(i) \in 0..Len(frame)
           /\ \A k \in 1..Takes(i) : /\ Len(frame) + 1 - k \in 1..Len(frame)
                                     /\ Taken(i)[k] = frame[Len(frame) + 1 - k]
<1>1. Takes(i) \in Nat /\ Len(frame) \in Nat /\ Len(Needed(i)) = Takes(i)
  BY TakesType DEF Needed, Takes, Arity
<1>2. \A k \in 1..Takes(i) : Len(frame) + 1 - k \in 1..Len(frame)
  BY <1>1
<1>3. Taken(i) = [k \in 1..Takes(i) |-> frame[Len(frame) + 1 - k]]
  BY <1>1 DEF Taken, Topmost
<1>4. \A k \in 1..Takes(i) : frame[Len(frame) + 1 - k] \in Value
  BY <1>2
<1>5. Taken(i) \in Seq(Value) /\ Len(Taken(i)) = Takes(i)
  BY <1>1, <1>3, <1>4
<1> QED BY <1>1, <1>2, <1>3, <1>5

\* The results of the statement that is built.
LEMMA DefinedType ==
    ASSUME NEW i \in Instructions, frame \in Seq(Value), Len(frame) >= Takes(i), Len(block) \in Nat
    PROVE  /\ Defined(i) \in Seq(Value) /\ Len(Defined(i)) = Len(Declared(i))
           /\ \A k \in 1..Len(Declared(i)) : /\ Defined(i)[k].kind = Declared(i)[k].kind
                                             /\ Defined(i)[k].stmt = Len(block) + 1
<1>1. /\ Taken(i) \in Seq(Value) /\ Len(Taken(i)) = Takes(i)
      /\ i.op = "dup" => Takes(i) = 1
      /\ i.op = "swap" => Takes(i) = 2
  BY TakenType DEF Takes, Operands
<1> DEFINE results == Results(i.op, i.n)
           val == IF i.op \in Constants THEN i.v ELSE NoValue
           built == [k \in DOMAIN results |-> [kind |-> results[k], value |-> val]]
<1>2. results \in Seq(Kinds) /\ val \in Immediates \cup {NoValue}
  <2>1. i.n \in Nat /\ i.v \in Immediates \cup {NoValue}
    BY InstructionAssumption
  <2> QED BY <2>1, ResultsType
<1>3. /\ i.op = "dup" => Declared(i) = <<Taken(i)[1]>>
      /\ i.op = "swap" => Declared(i) = <<Taken(i)[2], Taken(i)[1]>>
      /\ i.op \notin {"dup", "swap"} => Declared(i) = built
  BY DEF Declared
<1> HIDE DEF results, val
<1>4. /\ Len(Declared(i)) \in Nat /\ DOMAIN Declared(i) = 1..Len(Declared(i))
      /\ \A k \in 1..Len(Declared(i)) : /\ Declared(i)[k].kind \in Kinds
                                        /\ Declared(i)[k].value \in Immediates \cup {NoValue}
  <2>1. CASE i.op = "dup"
    <3>0. Len(Taken(i)) = 1 /\ Declared(i) = <<Taken(i)[1]>>
      BY <1>1, <1>3, <2>1
    <3>1. Taken(i)[1] \in Value
      <4>1. \A s \in Seq(Value) : \A k \in 1..Len(s) : s[k] \in Value
        OBVIOUS
      <4>2. 1 \in 1..Len(Taken(i))
        BY <3>0
      <4> QED BY <1>1, <4>1, <4>2
    <3>2. Taken(i)[1].kind \in Kinds /\ Taken(i)[1].value \in Immediates \cup {NoValue}
      BY <3>1 DEF Value
    <3>3. \A x : Len(<<x>>) = 1 /\ DOMAIN <<x>> = 1..1 /\ <<x>>[1] = x
      OBVIOUS
    <3> QED BY <3>0, <3>2, <3>3
  <2>2. CASE i.op = "swap"
    <3>0. Len(Taken(i)) = 2 /\ Declared(i) = <<Taken(i)[2], Taken(i)[1]>>
      BY <1>1, <1>3, <2>2
    <3>1. Taken(i)[1] \in Value /\ Taken(i)[2] \in Value
      <4>1. \A s \in Seq(Value) : Len(s) = 2 => s[1] \in Value /\ s[2] \in Value
        OBVIOUS
      <4> QED BY <1>1, <3>0, <4>1
    <3>2. \A k \in 1..2 : /\ Taken(i)[k].kind \in Kinds
                         /\ Taken(i)[k].value \in Immediates \cup {NoValue}
      BY <3>1 DEF Value
    <3>3. \A x, y : Len(<<x, y>>) = 2 /\ DOMAIN <<x, y>> = 1..2 /\ <<x, y>>[1] = x /\ <<x, y>>[2] = y
      OBVIOUS
    <3> QED BY <3>0, <3>2, <3>3
  <2>3. CASE i.op \notin {"dup", "swap"}
    BY <1>2, <1>3, <2>3
  <2> QED BY <2>1, <2>2, <2>3
<1>5. Defined(i) = [k \in 1..Len(Declared(i)) |->
                      [stmt |-> Len(block) + 1, out |-> k,
                       kind |-> Declared(i)[k].kind, value |-> Declared(i)[k].value]]
  BY <1>4 DEF Defined
<1>6. \A k \in 1..Len(Declared(i)) : Defined(i)[k] \in Value
  BY <1>4, <1>5 DEF Value
<1>7. Defined(i) \in Seq(Value) /\ Len(Defined(i)) = Len(Declared(i))
  BY <1>4, <1>5, <1>6
<1> QED BY <1>5, <1>7

\* Backwards.
LEMMA BackwardsIs ==
    ASSUME NEW S, NEW s \in Seq(S)
    PROVE  /\ Backwards(s) \in Seq(S) /\ Len(Backwards(s)) = Len(s)
           /\ \A k \in 1..Len(s) : Len(s) + 1 - k \in 1..Len(s) /\ Backwards(s)[k] = s[Len(s) + 1 - k]
<1>1. \A k \in 1..Len(s) : Len(s) + 1 - k \in 1..Len(s)
  OBVIOUS
<1>2. \A k \in 1..Len(s) : s[Len(s) + 1 - k] \in S
  BY <1>1
<1> QED BY <1>1, <1>2 DEF Backwards

\* What the decoder leaves has the kinds the machine leaves, and comes from the
\* block.
LEMMA PushedIs ==
    ASSUME NEW i \in Instructions, frame \in Seq(Value), Len(frame) >= Takes(i), Len(block) \in Nat
    PROVE  /\ Pushed(i) \in Seq(Value)
           /\ Mapped(KindOf, Pushed(i)) = After(Mapped(KindOf, frame), i)
           /\ \A k \in 1..Len(Pushed(i)) :
                \/ \E j \in 1..Len(frame) : Pushed(i)[k] = frame[j]
                \/ Pushed(i)[k].stmt = Len(block) + 1
<1> DEFINE ks == Mapped(KindOf, frame)
           new == Backwards(Defined(i))
           rest == IF i.op = "dup" THEN frame ELSE Below(frame, Takes(i))
<1>1. /\ Taken(i) \in Seq(Value) /\ Len(Taken(i)) = Takes(i)
      /\ Takes(i) \in 0..Len(frame)
      /\ \A k \in 1..Takes(i) : /\ Len(frame) + 1 - k \in 1..Len(frame)
                                /\ Taken(i)[k] = frame[Len(frame) + 1 - k]
  BY TakenType
<1>2. /\ Defined(i) \in Seq(Value) /\ Len(Defined(i)) = Len(Declared(i))
      /\ \A k \in 1..Len(Declared(i)) : /\ Defined(i)[k].kind = Declared(i)[k].kind
                                        /\ Defined(i)[k].stmt = Len(block) + 1
  BY DefinedType
<1>3. /\ new \in Seq(Value) /\ Len(new) = Len(Declared(i))
      /\ \A k \in 1..Len(Declared(i)) :
           /\ Len(Declared(i)) + 1 - k \in 1..Len(Declared(i))
           /\ new[k] = Defined(i)[Len(Declared(i)) + 1 - k]
  BY <1>2, BackwardsIs
<1>4. /\ Below(frame, Takes(i)) \in Seq(Value) /\ Len(Below(frame, Takes(i))) = Len(frame) - Takes(i)
      /\ \A k \in 1..Len(frame) - Takes(i) : Below(frame, Takes(i))[k] = frame[k]
  BY <1>1, BelowIs
<1>5. Pushed(i) = rest \o new
  BY <1>1, TakesType DEF Pushed, Needed, Takes, Arity
<1>6. \A s \in Seq(Value) : Mapped(KindOf, s) = [k \in 1..Len(s) |-> s[k].kind]
  BY DEF Mapped, KindOf
<1>7. rest \in Seq(Value) /\ \A k \in 1..Len(rest) : \E j \in 1..Len(frame) : rest[k] = frame[j]
  <2>1. CASE i.op = "dup"
    BY <2>1
  <2>2. CASE i.op # "dup"
    <3>1. rest = Below(frame, Takes(i))
      BY <2>2
    <3>2. \A k \in 1..Len(frame) - Takes(i) : k \in 1..Len(frame)
      BY <1>1
    <3> QED BY <3>1, <3>2, <1>4
  <2> QED BY <2>1, <2>2
<1>8. \A k \in 1..Len(new) : new[k].stmt = Len(block) + 1
  BY <1>2, <1>3
<1> HIDE DEF new, rest
<1>9. Pushed(i) \in Seq(Value) /\ Len(Pushed(i)) = Len(rest) + Len(new)
      /\ \A k \in 1..Len(rest) + Len(new) :
           Pushed(i)[k] = IF k <= Len(rest) THEN rest[k] ELSE new[k - Len(rest)]
  <2>1. \A s, t \in Seq(Value) :
          /\ s \o t \in Seq(Value) /\ Len(s \o t) = Len(s) + Len(t)
          /\ \A k \in 1..Len(s) + Len(t) :
               (s \o t)[k] = IF k <= Len(s) THEN s[k] ELSE t[k - Len(s)]
    BY Joined
  <2>2. rest \in Seq(Value) /\ new \in Seq(Value)
    BY <1>3, <1>7
  <2>3. /\ rest \o new \in Seq(Value) /\ Len(rest \o new) = Len(rest) + Len(new)
        /\ \A k \in 1..Len(rest) + Len(new) :
             (rest \o new)[k] = IF k <= Len(rest) THEN rest[k] ELSE new[k - Len(rest)]
    BY <2>1, <2>2
  <2> QED BY <1>5, <2>3
<1>10. ASSUME NEW k \in 1..Len(Pushed(i))
       PROVE  \/ \E j \in 1..Len(frame) : Pushed(i)[k] = frame[j]
              \/ Pushed(i)[k].stmt = Len(block) + 1
  <2>0. Len(rest) \in Nat /\ Len(new) \in Nat
    BY <1>3, <1>7
  <2>1. CASE k <= Len(rest)
    <3>1. k \in 1..Len(rest) /\ Pushed(i)[k] = rest[k]
      BY <2>0, <2>1, <1>9
    <3> QED BY <3>1, <1>7
  <2>2. CASE ~ (k <= Len(rest))
    <3>1. k - Len(rest) \in 1..Len(new) /\ Pushed(i)[k] = new[k - Len(rest)]
      BY <2>0, <2>2, <1>9
    <3> QED BY <3>1, <1>8
  <2> QED BY <2>1, <2>2
<1>11. Mapped(KindOf, Pushed(i)) = After(ks, i)
  <2> SUFFICES \E top \in Seq(Value) :
                 Pushed(i) = Below(frame, Takes(i)) \o top /\ Mapped(KindOf, top) = Leaving(ks, i)
    BY <1>1, KindsJoin DEF After
  <2>1. /\ Len(ks) = Len(frame) /\ Len(frame) \in Nat
        /\ \A k \in 1..Len(frame) : ks[k] = frame[k].kind
    BY DEF Mapped, KindOf
  <2> HIDE DEF ks
  <2>2. CASE i.op = "dup"
    <3>1. Takes(i) = 1
      BY <2>2 DEF Takes, Operands
    <3> DEFINE t == frame[Len(frame)]
    <3>2. t \in Value /\ Taken(i)[1] = t /\ ks[Len(ks)] = t.kind /\ Len(frame) >= 1
      BY <1>1, <2>1, <3>1
    <3>3. Declared(i) = <<t>>
      BY <2>2, <3>2 DEF Declared
    <3> HIDE DEF t
    <3>4. Len(new) = 1 /\ new[1] = Defined(i)[1] /\ Defined(i)[1].kind = t.kind
      BY <1>2, <1>3, <3>3
    <3> DEFINE u == new[1]
    <3>5. u \in Value /\ u.kind = t.kind /\ new = <<u>>
      <4>1. \A s \in Seq(Value) : Len(s) = 1 => s = <<s[1]>>
        OBVIOUS
      <4>2. \A s \in Seq(Value) : \A k \in 1..Len(s) : s[k] \in Value
        OBVIOUS
      <4>3. new \in Seq(Value) /\ 1 \in 1..Len(new)
        BY <1>3, <3>4
      <4> QED BY <3>4, <4>1, <4>2, <4>3
    <3> HIDE DEF u
    <3>6. Pushed(i) = frame \o <<u>>
      BY <1>5, <2>2, <3>5 DEF rest
    <3>7. frame \o <<u>> = Below(frame, 1) \o <<t, u>>
      BY <2>1, <3>2, <3>5, Duplicated DEF t
    <3>8. <<t, u>> \in Seq(Value) /\ Mapped(KindOf, <<t, u>>) = <<t.kind, u.kind>>
      BY <3>2, <3>5, KindsOfTwo, Zenon
    <3>9. Leaving(ks, i) = <<t.kind, t.kind>>
      BY <2>2, <3>2 DEF Leaving
    <3> QED BY <3>1, <3>5, <3>6, <3>7, <3>8, <3>9
  <2>3. CASE i.op = "swap"
    <3>1. Takes(i) = 2
      BY <2>3 DEF Takes, Operands
    <3> DEFINE t == frame[Len(frame)]
               u == frame[Len(frame) - 1]
    <3>2. /\ t \in Value /\ Taken(i)[1] = t /\ ks[Len(ks)] = t.kind
          /\ u \in Value /\ Taken(i)[2] = u /\ ks[Len(ks) - 1] = u.kind
      BY <1>1, <2>1, <3>1
    <3> HIDE DEF t, u
    <3>3. Declared(i) = <<u, t>>
      BY <2>3, <3>2 DEF Declared
    <3>4. /\ Len(new) = 2 /\ new[1] = Defined(i)[2] /\ Defined(i)[2].kind = t.kind
          /\ new[2] = Defined(i)[1] /\ Defined(i)[1].kind = u.kind
      BY <1>2, <1>3, <3>3
    <3> DEFINE a == new[1]
               b == new[2]
    <3>5. a \in Value /\ a.kind = t.kind /\ b \in Value /\ b.kind = u.kind /\ new = <<a, b>>
      <4>1. \A s \in Seq(Value) : Len(s) = 2 => s = <<s[1], s[2]>>
        OBVIOUS
      <4>2. \A s \in Seq(Value) : \A k \in 1..Len(s) : s[k] \in Value
        OBVIOUS
      <4>3. new \in Seq(Value) /\ 1 \in 1..Len(new) /\ 2 \in 1..Len(new)
        BY <1>3, <3>4
      <4> QED BY <3>4, <4>1, <4>2, <4>3
    <3> HIDE DEF a, b
    <3>6. Pushed(i) = Below(frame, 2) \o <<a, b>>
      BY <1>5, <2>3, <3>1, <3>5 DEF rest
    <3>7. <<a, b>> \in Seq(Value) /\ Mapped(KindOf, <<a, b>>) = <<a.kind, b.kind>>
      BY <3>5, KindsOfTwo, Zenon
    <3>8. Leaving(ks, i) = <<t.kind, u.kind>>
      BY <2>3, <3>2 DEF Leaving
    <3> QED BY <3>1, <3>5, <3>6, <3>7, <3>8
  <2>4. CASE i.op \notin {"dup", "swap"}
    <3> DEFINE results == Results(i.op, i.n)
    <3>1. results \in Seq(Kinds)
      BY InstructionAssumption, ResultsType
    <3>2. results = Results(i.op, Arity(i)) /\ \A j, k \in 1..Len(results) : results[j] = results[k]
      BY ResultsUniform
    <3>3. Declared(i) = [k \in DOMAIN results |->
                           [kind |-> results[k],
                            value |-> IF i.op \in Constants THEN i.v ELSE NoValue]]
      BY <2>4 DEF Declared
    <3> HIDE DEF results
    <3>4. Len(Declared(i)) = Len(results) /\ \A k \in 1..Len(results) : Declared(i)[k].kind = results[k]
      BY <3>1, <3>3
    <3>5. ASSUME NEW k \in 1..Len(results) PROVE new[k].kind = results[k]
      <4> DEFINE j == Len(Declared(i)) + 1 - k
      <4>1. j \in 1..Len(Declared(i)) /\ new[k] = Defined(i)[j]
        BY <1>3, <3>4
      <4> HIDE DEF j
      <4>2. Defined(i)[j].kind = results[j]
        BY <1>2, <3>4, <4>1
      <4>3. results[j] = results[k]
        BY <3>2, <3>4, <4>1 DEF results
      <4> QED BY <4>1, <4>2, <4>3
    <3>6. Mapped(KindOf, new) = [k \in 1..Len(results) |-> new[k].kind]
      BY <1>3, <1>6, <3>4
    <3>7. Mapped(KindOf, new) = results
      BY <3>1, <3>5, <3>6
    <3>8. Pushed(i) = Below(frame, Takes(i)) \o new
      BY <1>5, <2>4 DEF rest
    <3>9. Leaving(ks, i) = results
      BY <2>4, <3>2 DEF Leaving, results
    <3> QED BY <1>3, <3>7, <3>8, <3>9
  <2> QED BY <2>2, <2>3, <2>4
<1> QED BY <1>9, <1>10, <1>11

----------------------------------------------------------------------------
(***************************************************************************)
(* The statements.                                                         *)
(***************************************************************************)
Operand == [stmt : Nat, out : Nat, kind : Kinds \cup {"none"}, value : Immediates \cup {NoValue}]
Stmt == [op : Ops \cup {"none"}, args : Seq(Operand), dims : Nat \X Nat,
         v : Immediates \cup {NoValue}]

\* A part of a sequence.
LEMMA PartIs ==
    ASSUME NEW S, NEW s \in Seq(S), NEW m \in 1..Len(s) + 1, NEW n \in Nat, n <= Len(s)
    PROVE  /\ SubSeq(s, m, n) \in Seq(S)
           /\ \A k \in 1..Len(SubSeq(s, m, n)) : \E j \in 1..Len(s) : SubSeq(s, m, n)[k] = s[j]
<1>0. m \in Nat /\ Len(s) \in Nat /\ m >= 1
  OBVIOUS
<1>1. CASE m <= n
  <2>1. SubSeq(s, m, n) = [k \in 1..(n - m + 1) |-> s[m + k - 1]]
    BY <1>0
  <2>2. \A k \in 1..(n - m + 1) : m + k - 1 \in 1..Len(s)
    BY <1>0, <1>1
  <2>3. \A k \in 1..(n - m + 1) : s[m + k - 1] \in S
    BY <2>2
  <2>4. n - m + 1 \in Nat
    BY <1>0, <1>1
  <2> QED BY <2>1, <2>2, <2>3, <2>4
<1>2. CASE ~ (m <= n)
  <2>1. n - m + 1 <= 0
    BY <1>0, <1>2
  <2>2. 1..(n - m + 1) = {}
    BY <1>0, <2>1
  <2>3. SubSeq(s, m, n) = << >>
    BY <1>0, <1>2, <2>2
  <2> QED BY <2>3
<1> QED BY <1>1, <1>2

\* A statement declares the operands that were taken.
LEMMA ArrangedIs ==
    ASSUME NEW i \in Instructions, NEW taken \in Seq(Value), Len(taken) = Takes(i)
    PROVE  /\ Arranged(i.op, taken) \in Seq(Value)
           /\ \A k \in 1..Len(Arranged(i.op, taken)) :
                \E j \in 1..Len(taken) : Arranged(i.op, taken)[k] = taken[j]
<1> DEFINE From(s) == /\ s \in Seq(Value)
                      /\ \A k \in 1..Len(s) : \E j \in 1..Len(taken) : s[k] = taken[j]
<1>1. ASSUME NEW s, From(s) PROVE From(Backwards(s))
  BY <1>1, BackwardsIs
<1>2. ASSUME NEW s, NEW t, From(s), From(t) PROVE From(s \o t)
  <2>1. /\ s \o t \in Seq(Value) /\ Len(s \o t) = Len(s) + Len(t)
        /\ \A k \in 1..Len(s) + Len(t) :
             (s \o t)[k] = IF k <= Len(s) THEN s[k] ELSE t[k - Len(s)]
    BY <1>2, Joined
  <2>2. ASSUME NEW k \in 1..Len(s) + Len(t)
        PROVE  \E j \in 1..Len(taken) : (s \o t)[k] = taken[j]
    <3>1. CASE k <= Len(s)
      <4>1. k \in 1..Len(s)
        BY <3>1, <1>2
      <4> QED BY <4>1, <3>1, <2>1, <1>2
    <3>2. CASE ~ (k <= Len(s))
      <4>1. k - Len(s) \in 1..Len(t)
        BY <3>2, <1>2
      <4> QED BY <4>1, <3>2, <2>1, <1>2
    <3> QED BY <3>1, <3>2
  <2> QED BY <2>1, <2>2
<1>3. From(taken)
  OBVIOUS
<1>4. i.op # "get_item" => Fixed(i.op) <= Len(taken)
  <2>1. Arity(i) \in Nat /\ i.n \in Nat
    BY TakesType, InstructionAssumption
  <2>2. Fixed(i.op) \in {0, 1, 2}
    BY DEF Fixed
  <2>3. \A n \in Nat : \A kind : Len(Times(n, kind)) = n
    BY DEF Times
  <2>4. i.op = "local_r" => Len(<<"float", "float">> \o Times(Arity(i), "location")) >= 2
    <3>1. Times(Arity(i), "location") \in Seq({"location", "float"})
      BY <2>1 DEF Times
    <3> QED BY <3>1
  <2>5. i.op = "local_rz" => Len(<<"float">> \o Times(Arity(i), "location")) >= 1
    <3>1. Times(Arity(i), "location") \in Seq({"location", "float"})
      BY <2>1 DEF Times
    <3> QED BY <3>1
  <2>6. Len(<<"float", "float">>) = 2 /\ Len(<<Any, Any>>) = 2
    OBVIOUS
  <2>7. i.op # "get_item" => Takes(i) >= Fixed(i.op)
    <3>1. CASE i.op = "local_r"
      BY <3>1, <2>4 DEF Takes, Operands, Fixed
    <3>2. CASE i.op = "local_rz"
      BY <3>2, <2>5 DEF Takes, Operands, Fixed
    <3>3. CASE i.op \in {"global_r", "swap"}
      BY <3>3, <2>6 DEF Takes, Operands, Fixed
    <3>4. CASE i.op \notin {"local_r", "local_rz", "global_r", "swap", "get_item"}
      <4>1. Fixed(i.op) = 0
        BY <3>4 DEF Fixed
      <4> QED BY <4>1, TakesType
    <3> QED BY <3>1, <3>2, <3>3, <3>4
  <2> QED BY <2>7
<1>5. i.op # "get_item" => /\ From(SubSeq(taken, 1, Fixed(i.op)))
                          /\ From(SubSeq(taken, Fixed(i.op) + 1, Len(taken)))
  <2>1. Fixed(i.op) \in Nat
    BY DEF Fixed
  <2> SUFFICES ASSUME Fixed(i.op) <= Len(taken)
               PROVE  /\ From(SubSeq(taken, 1, Fixed(i.op)))
                      /\ From(SubSeq(taken, Fixed(i.op) + 1, Len(taken)))
    BY <1>4
  <2>2. /\ 1 \in 1..Len(taken) + 1 /\ Fixed(i.op) + 1 \in 1..Len(taken) + 1
        /\ Len(taken) \in Nat /\ Len(taken) <= Len(taken)
    BY <2>1
  <2>3. \A m \in 1..Len(taken) + 1 : \A n \in Nat : n <= Len(taken) => From(SubSeq(taken, m, n))
    BY PartIs
  <2> HIDE DEF From
  <2> QED BY <2>1, <2>2, <2>3
<1> HIDE DEF From
<1>6. From(Arranged(i.op, taken))
  <2>1. CASE i.op = "get_item"
    BY <2>1, <1>1, <1>3 DEF Arranged
  <2>2. CASE i.op # "get_item"
    BY <2>2, <1>1, <1>2, <1>5 DEF Arranged
  <2> QED BY <2>1, <2>2
<1> QED BY <1>6 DEF From

\* An op takes at least what its statement declares before the variadic operands.
LEMMA FixedFits ==
    ASSUME NEW i \in Instructions
    PROVE  Fixed(i.op) \in Nat /\ (i.op # "get_item" => Fixed(i.op) <= Takes(i))
<1>1. Arity(i) \in Nat /\ Takes(i) \in Nat
  BY TakesType
<1>2. Fixed(i.op) \in {0, 1, 2}
  BY DEF Fixed
<1>3. i.op = "local_r" => Len(<<"float", "float">> \o Times(Arity(i), "location")) >= 2
  <2>1. Times(Arity(i), "location") \in Seq({"location", "float"})
    BY <1>1 DEF Times
  <2> QED BY <2>1
<1>4. i.op = "local_rz" => Len(<<"float">> \o Times(Arity(i), "location")) >= 1
  <2>1. Times(Arity(i), "location") \in Seq({"location", "float"})
    BY <1>1 DEF Times
  <2> QED BY <2>1
<1>5. Len(<<"float", "float">>) = 2 /\ Len(<<Any, Any>>) = 2
  OBVIOUS
<1>6. CASE i.op = "local_r"
  BY <1>2, <1>3, <1>6 DEF Takes, Operands, Fixed
<1>7. CASE i.op = "local_rz"
  BY <1>2, <1>4, <1>7 DEF Takes, Operands, Fixed
<1>8. CASE i.op \in {"global_r", "swap"}
  BY <1>2, <1>5, <1>8 DEF Takes, Operands, Fixed
<1>9. CASE i.op \notin {"local_r", "local_rz", "global_r", "swap", "get_item"}
  <2>1. Fixed(i.op) = 0
    BY <1>9 DEF Fixed
  <2> QED BY <2>1, <1>1
<1>10. CASE i.op = "get_item"
  BY <1>2, <1>10
<1> QED BY <1>6, <1>7, <1>8, <1>9, <1>10

\* Where the k-th declared operand of an op that takes n lies.
Place(op, n, k) ==
    IF op = "get_item" THEN n + 1 - k
    ELSE IF k <= Fixed(op) THEN k
    ELSE n + Fixed(op) + 1 - k

\* The elements of a sequence.
LEMMA ElementsOf ==
    ASSUME NEW S, NEW s \in Seq(S)
    PROVE  \A k \in 1..Len(s) : s[k] \in S
  OBVIOUS

\* Two elements more, one by one.
LEMMA TwoMore ==
    ASSUME NEW S, NEW s \in Seq(S), NEW x \in S, NEW y \in S
    PROVE  s \o <<x>> \in Seq(S) /\ s \o <<x, y>> = (s \o <<x>>) \o <<y>>
<1> DEFINE n == Len(s)
           a == s \o <<x>>
           b == a \o <<y>>
           c == s \o <<x, y>>
<1>1. n \in Nat /\ a \in Seq(S) /\ Len(a) = n + 1 /\ a[n + 1] = x /\ \A k \in 1..n : a[k] = s[k]
  OBVIOUS
<1> HIDE DEF a
<1>2. /\ b \in Seq(S) /\ Len(b) = n + 2 /\ b[n + 1] = a[n + 1] /\ b[n + 2] = y
      /\ \A k \in 1..n : b[k] = a[k]
  BY <1>1
<1>3. /\ c \in Seq(S) /\ Len(c) = n + 2 /\ c[n + 1] = x /\ c[n + 2] = y
      /\ \A k \in 1..n : c[k] = s[k]
  OBVIOUS
<1> HIDE DEF b, c
<1>4. ASSUME NEW k \in 1..Len(c) PROVE c[k] = b[k]
  <2>1. k \in 1..n \/ k = n + 1 \/ k = n + 2
    BY <1>1, <1>3
  <2> QED BY <2>1, <1>1, <1>2, <1>3
<1>5. c = b
  BY <1>2, <1>3, <1>4, SameSequence
<1> QED BY <1>1, <1>5 DEF a, b, c

\* What a part of a sequence holds.
LEMMA PrefixIs ==
    ASSUME NEW S, NEW s \in Seq(S), NEW m \in 0..Len(s)
    PROVE  /\ SubSeq(s, 1, m) \in Seq(S) /\ Len(SubSeq(s, 1, m)) = m
           /\ \A k \in 1..m : SubSeq(s, 1, m)[k] = s[k]
  OBVIOUS

\* And what the rest holds.
LEMMA SuffixIs ==
    ASSUME NEW S, NEW s \in Seq(S), NEW m \in 0..Len(s)
    PROVE  /\ SubSeq(s, m + 1, Len(s)) \in Seq(S) /\ Len(SubSeq(s, m + 1, Len(s))) = Len(s) - m
           /\ \A k \in 1..(Len(s) - m) : SubSeq(s, m + 1, Len(s))[k] = s[m + k]
<1>1. CASE m = Len(s)
  BY <1>1
<1>2. CASE m < Len(s)
  <2>1. SubSeq(s, m + 1, Len(s)) = [k \in 1..(Len(s) - m) |-> s[m + k]]
    BY <1>2
  <2>2. \A k \in 1..(Len(s) - m) : m + k \in 1..Len(s)
    OBVIOUS
  <2>3. Len(s) - m \in Nat
    BY <1>2
  <2>4. \A k \in 1..(Len(s) - m) : s[m + k] \in S
    BY <2>2
  <2> QED BY <2>1, <2>3, <2>4
<1> QED BY <1>1, <1>2

\* The declared operands are the taken ones, each at its place.
LEMMA PlacedIs ==
    ASSUME NEW S, NEW op, NEW s \in Seq(S), Fixed(op) \in Nat,
           op # "get_item" => Fixed(op) <= Len(s)
    PROVE  /\ Arranged(op, s) \in Seq(S) /\ Len(Arranged(op, s)) = Len(s)
           /\ \A k \in 1..Len(s) : /\ Place(op, Len(s), k) \in 1..Len(s)
                                   /\ Arranged(op, s)[k] = s[Place(op, Len(s), k)]
<1>1. CASE op = "get_item"
  <2>1. Arranged(op, s) = Backwards(s) /\ \A k : Place(op, Len(s), k) = Len(s) + 1 - k
    BY <1>1 DEF Arranged, Place
  <2> QED BY <2>1, BackwardsIs
<1>2. CASE op # "get_item"
  <2> DEFINE f == Fixed(op)
             left == SubSeq(s, 1, f)
             rest == SubSeq(s, f + 1, Len(s))
             right == Backwards(rest)
  <2>1. f \in 0..Len(s) /\ Len(s) \in Nat
    BY <1>2
  <2> HIDE DEF f
  <2>2. /\ left \in Seq(S) /\ Len(left) = f
        /\ \A k \in 1..f : left[k] = s[k]
    BY <2>1, PrefixIs
  <2>3. /\ rest \in Seq(S) /\ Len(rest) = Len(s) - f
        /\ \A k \in 1..(Len(s) - f) : rest[k] = s[f + k]
    BY <2>1, SuffixIs
  <2> HIDE DEF left, rest
  <2>4. /\ right \in Seq(S) /\ Len(right) = Len(rest)
        /\ \A k \in 1..Len(rest) : Len(rest) + 1 - k \in 1..Len(rest) /\ right[k] = rest[Len(rest) + 1 - k]
    BY <2>3, BackwardsIs
  <2> HIDE DEF right
  <2>5. Arranged(op, s) = left \o right
    BY <1>2 DEF Arranged, left, right, rest, f
  <2>6. /\ left \o right \in Seq(S) /\ Len(left \o right) = Len(left) + Len(right)
        /\ \A k \in 1..Len(left) + Len(right) :
             (left \o right)[k] = IF k <= Len(left) THEN left[k] ELSE right[k - Len(left)]
    <3>1. \A a, b \in Seq(S) :
            /\ a \o b \in Seq(S) /\ Len(a \o b) = Len(a) + Len(b)
            /\ \A k \in 1..Len(a) + Len(b) :
                 (a \o b)[k] = IF k <= Len(a) THEN a[k] ELSE b[k - Len(a)]
      BY Joined
    <3> QED BY <2>2, <2>4, <3>1
  <2>7. Len(left) + Len(right) = Len(s)
    BY <2>1, <2>2, <2>3, <2>4
  <2>8. ASSUME NEW k \in 1..Len(s)
        PROVE  /\ Place(op, Len(s), k) \in 1..Len(s)
               /\ Arranged(op, s)[k] = s[Place(op, Len(s), k)]
    <3>1. CASE k <= f
      <4>1. Place(op, Len(s), k) = k
        BY <1>2, <3>1 DEF Place, f
      <4>2. k \in 1..f
        BY <3>1, <2>1
      <4> QED BY <4>1, <4>2, <3>1, <2>2, <2>5, <2>6, <2>7
    <3>2. CASE ~ (k <= f)
      <4>1. Place(op, Len(s), k) = Len(s) + f + 1 - k
        BY <1>2, <3>2 DEF Place, f
      <4> DEFINE j == k - f
      <4>2. j \in 1..(Len(s) - f) /\ Len(s) - f + 1 - j \in 1..(Len(s) - f)
        BY <3>2, <2>1
      <4>3. f + (Len(s) - f + 1 - j) = Len(s) + f + 1 - k
        BY <2>1
      <4>4. Arranged(op, s)[k] = right[j]
        BY <3>2, <2>2, <2>5, <2>6, <2>7
      <4> HIDE DEF j
      <4>5. right[j] = rest[Len(s) - f + 1 - j]
        BY <4>2, <2>3, <2>4
      <4>6. rest[Len(s) - f + 1 - j] = s[f + (Len(s) - f + 1 - j)]
        BY <4>2, <2>3
      <4>7. Len(s) + f + 1 - k \in 1..Len(s)
        BY <3>2, <2>1
      <4> QED BY <4>1, <4>3, <4>4, <4>5, <4>6, <4>7
    <3> QED BY <3>1, <3>2
  <2> QED BY <2>5, <2>6, <2>7, <2>8
<1> QED BY <1>1, <1>2

\* Counting its operands gives a statement's arity back.
LEMMA CountedBack ==
    ASSUME NEW i \in Instructions
    PROVE  /\ i.op \in HasArity => Takes(i) - Fixed(i.op) = i.n
           /\ i.op = "new_array" => Takes(i) = Arity(i)
           /\ Operands(i.op, IF i.op \in HasArity THEN Takes(i) - Fixed(i.op) ELSE Takes(i))
                = Operands(i.op, Arity(i))
<1>1. i.n \in Nat /\ Arity(i) \in Nat
  BY TakesType, InstructionAssumption
<1>2. \A n \in Nat : \A kind : Len(Times(n, kind)) = n
  BY DEF Times
<1>3. \A n \in Nat : Times(n, "location") \in Seq(Slots) /\ Times(n, "int") \in Seq(Slots)
  BY DEF Times, Slots, Kinds
<1>4. /\ <<"float", "float">> \in Seq(Slots) /\ <<"float">> \in Seq(Slots) /\ <<"array">> \in Seq(Slots)
      /\ Len(<<"float", "float">>) = 2 /\ Len(<<"float">>) = 1 /\ Len(<<"array">>) = 1
  BY DEF Slots, Kinds
<1>5. \A s, t \in Seq(Slots) : Len(s \o t) = Len(s) + Len(t)
  OBVIOUS
<1>6. ASSUME NEW n \in Nat
      PROVE  /\ Len(<<"float", "float">> \o Times(n, "location")) = 2 + n
             /\ Len(<<"float">> \o Times(n, "location")) = 1 + n
             /\ Len(Times(n, "int") \o <<"array">>) = n + 1
  BY <1>2, <1>3, <1>4, <1>5
<1>7. ASSUME i.op \in HasArity PROVE Takes(i) - Fixed(i.op) = i.n /\ Arity(i) = i.n
  <2>1. Arity(i) = i.n
    BY <1>7 DEF Arity, HasArity
  <2>2. CASE i.op \in {"initial_fill", "fill", "move", "measure"}
    <3>1. Fixed(i.op) = 0 /\ Takes(i) = i.n
      BY <2>1, <2>2, <1>1, <1>2 DEF Takes, Operands, Fixed
    <3> QED BY <3>1, <2>1, <1>1
  <2>3. CASE i.op = "local_r"
    <3>1. Fixed(i.op) = 2 /\ Takes(i) = 2 + i.n
      BY <2>1, <2>3, <1>1, <1>6 DEF Takes, Operands, Fixed
    <3> QED BY <3>1, <2>1, <1>1
  <2>4. CASE i.op = "local_rz"
    <3>1. Fixed(i.op) = 1 /\ Takes(i) = 1 + i.n
      BY <2>1, <2>4, <1>1, <1>6 DEF Takes, Operands, Fixed
    <3> QED BY <3>1, <2>1, <1>1
  <2>5. CASE i.op = "get_item"
    <3>1. Fixed(i.op) = 1 /\ Takes(i) = i.n + 1
      BY <2>1, <2>5, <1>1, <1>6 DEF Takes, Operands, Fixed
    <3> QED BY <3>1, <2>1, <1>1
  <2> QED BY <1>7, <2>2, <2>3, <2>4, <2>5 DEF HasArity
<1>8. ASSUME i.op = "new_array" PROVE Takes(i) = Arity(i)
  BY <1>8, <1>1, <1>2 DEF Takes, Operands
<1>9. ASSUME i.op \notin HasArity, i.op # "new_array", NEW m, NEW n
      PROVE  Operands(i.op, m) = Operands(i.op, n)
  BY <1>9 DEF HasArity, Operands
<1> QED BY <1>7, <1>8, <1>9 DEF HasArity

----------------------------------------------------------------------------
(***************************************************************************)
(* The invariant: the two walks have seen the same kinds, and give up at   *)
(* the same instruction.                                                   *)
(***************************************************************************)
First(T) == IF T = {} THEN 0 ELSE CHOOSE p \in T : \A other \in T : p <= other

\* The first of a set of positions, and what a later one does to it.
LEMMA FirstIs ==
    ASSUME NEW n \in Nat, NEW T \in SUBSET (1..n)
    PROVE  /\ First(T) \in 0..n /\ (First(T) = 0 <=> T = {})
           /\ T # {} => First(T) \in T /\ \A other \in T : First(T) <= other
           /\ First(T \cup {n + 1}) = IF T = {} THEN n + 1 ELSE First(T)
<1>1. ASSUME NEW U \in SUBSET (1..n + 1), U # {}
      PROVE  First(U) \in U /\ \A other \in U : First(U) <= other
  <2>1. U \in SUBSET Nat
    OBVIOUS
  <2>2. \E p \in U : \A other \in U : p <= other
    BY <1>1, <2>1, LeastNumber
  <2> QED BY <1>1, <2>2 DEF First
<1>2. T # {} => First(T) \in T /\ \A other \in T : First(T) <= other
  BY <1>1
<1>3. T = {} => First(T) = 0
  BY DEF First
<1>4. /\ First(T \cup {n + 1}) \in T \cup {n + 1}
      /\ \A other \in T \cup {n + 1} : First(T \cup {n + 1}) <= other
  <2>1. T \cup {n + 1} \in SUBSET (1..n + 1) /\ T \cup {n + 1} # {}
    OBVIOUS
  <2> QED BY <1>1, <2>1
<1>5. First(T \cup {n + 1}) = IF T = {} THEN n + 1 ELSE First(T)
  <2>1. CASE T = {}
    BY <2>1, <1>4
  <2>2. CASE T # {}
    <3> DEFINE a == First(T)
               b == First(T \cup {n + 1})
    <3>1. a \in T /\ a \in 1..n /\ \A other \in T : a <= other
      BY <2>2, <1>2
    <3>2. b \in T \cup {n + 1} /\ \A other \in T \cup {n + 1} : b <= other
      BY <1>4
    <3> HIDE DEF a, b
    <3>3. b <= a
      BY <3>1, <3>2
    <3>4. b \in T
      BY <3>1, <3>2, <3>3
    <3>5. a <= b
      BY <3>1, <3>4
    <3>6. a = b
      BY <3>1, <3>2, <3>3, <3>5
    <3> QED BY <2>2, <3>6 DEF a, b
  <2> QED BY <2>1, <2>2
<1>6. First(T) \in 0..n /\ (First(T) = 0 <=> T = {})
  <2>1. CASE T = {}
    BY <2>1, <1>3
  <2>2. CASE T # {}
    <3>1. First(T) \in 1..n
      BY <2>2, <1>2
    <3>2. First(T) \in 0..n /\ First(T) # 0
      BY <3>1
    <3> QED BY <3>2, <2>2
  <2> QED BY <2>1, <2>2
<1> QED BY <1>2, <1>5, <1>6

\* Tags of the simulator's stack, kinds of the decoder's.
Tags == Mapped(TagOf, stack)
FrameKinds == Mapped(KindOf, frame)

Typed == frame \in Seq(Value) /\ block \in Seq(Stmt)
SameVerdict == failed = FirstFatal
SameKinds == failed = 0 => Tags = FrameKinds

IInv == TypeOK /\ Typed /\ SameVerdict /\ SameKinds

\* Nothing has been walked.
LEMMA InitHolds == Init => IInv
<1> SUFFICES ASSUME Init PROVE IInv
  OBVIOUS
<1>1. /\ program = << >> /\ stack = << >> /\ errors = {} /\ frame = << >> /\ block = << >> /\ failed = 0
      /\ scan = [nonConstant |-> FALSE, terminated |-> FALSE, measured |-> FALSE]
  BY DEF Init
<1>2. TypeOK
  BY <1>1 DEF TypeOK
<1>3. Typed
  BY <1>1 DEF Typed
<1>4. SameVerdict
  BY <1>1 DEF SameVerdict, FirstFatal, Fatal
<1>5. SameKinds
  BY <1>1 DEF SameKinds, Tags, FrameKinds, Mapped
<1> QED BY <1>2, <1>3, <1>4, <1>5 DEF IInv

\* The position of the first fatal error is the first of their positions.
LEMMA FatalType ==
    ASSUME IInv
    PROVE  /\ Fatal \in SUBSET (1..Len(program)) /\ FirstFatal = First(Fatal) /\ Len(program) \in Nat
           /\ FirstFatal \in 0..Len(program) /\ (FirstFatal = 0 <=> Fatal = {})
           /\ Fatal # {} => FirstFatal \in Fatal /\ \A other \in Fatal : FirstFatal <= other
<1>1. /\ program \in Seq(Instructions) /\ errors \subseteq [kind : ErrorKinds, pc : 1..Len(program)]
  BY DEF IInv, TypeOK
<1>2. Fatal \in SUBSET (1..Len(program)) /\ Len(program) \in Nat
  BY <1>1 DEF Fatal
<1>3. FirstFatal = First(Fatal)
  BY DEF FirstFatal, First
<1> QED BY <1>2, <1>3, FirstIs

\* The decoder can go on exactly with what the machine can.
LEMMA DecodableIs ==
    ASSUME NEW i \in Instructions, frame \in Seq(Value)
    PROVE  /\ Decodable(i) <=> ~ Fails(FrameKinds, i)
           /\ Decodable(i) => Len(frame) >= Takes(i)
<1>1. Len(Needed(i)) = Takes(i) /\ Takes(i) \in Nat
  BY TakesType DEF Needed, Takes, Arity
<1>2. Len(FrameKinds) = Len(frame) /\ Len(frame) \in Nat
  BY DEF FrameKinds, Mapped
<1> QED BY <1>1, <1>2 DEF Decodable, Fails

\* The validator reports a fatal error of exactly what the machine cannot do.
LEMMA FatalStep ==
    ASSUME IInv, NEW i \in Instructions, DimensionsFit, Validate(i)
    PROVE  Fatal' = Fatal \cup (IF Fails(Tags, i) THEN {Len(program) + 1} ELSE {})
<1> DEFINE new == StructureErrors(i) \cup ArchErrors(i) \cup StackErrors(i)
           fatal == {"underflow", "type_tag"}
<1>1. Takes(i) \in Nat /\ Len(Wanted(i)) = Takes(i)
  BY TakesType, AritiesAgree
<1>2. Len(Tags) = Len(stack) /\ Len(stack) \in Nat
  BY DEF Tags, Mapped, IInv, TypeOK
<1>3. "underflow" \in new <=> Short(i)
  BY DEF StructureErrors, ArchErrors, StackErrors
<1>4. "type_tag" \in new <=> i.op = "new_array" /\ i.v \notin KnownTypes
  BY DEF StructureErrors, ArchErrors, StackErrors
<1>5. Short(i) <=> Len(Tags) < Takes(i)
  BY <1>1, <1>2 DEF Short
<1>6. Fails(Tags, i) <=> \E k \in new : k \in fatal
  BY <1>3, <1>4, <1>5 DEF Fails
<1>7. errors' = errors \cup [kind : new, pc : {Len(program) + 1}]
  BY DEF Validate, pc
<1> HIDE DEF new
<1>8. Fatal' = {error.pc : error \in {e \in errors' : e.kind \in fatal}}
  BY DEF Fatal
<1>9. {error.pc : error \in {e \in [kind : new, pc : {Len(program) + 1}] : e.kind \in fatal}}
        = IF \E k \in new : k \in fatal THEN {Len(program) + 1} ELSE {}
  <2>1. ASSUME NEW k \in new, k \in fatal
        PROVE  [kind |-> k, pc |-> Len(program) + 1]
                 \in {e \in [kind : new, pc : {Len(program) + 1}] : e.kind \in fatal}
    BY <2>1
  <2>2. \A e \in [kind : new, pc : {Len(program) + 1}] : e.kind \in new /\ e.pc = Len(program) + 1
    OBVIOUS
  <2> HIDE DEF fatal
  <2>3. ASSUME NEW k \in new, k \in fatal
        PROVE  Len(program) + 1
                 \in {error.pc : error \in {e \in [kind : new, pc : {Len(program) + 1}] : e.kind \in fatal}}
    <3>1. [kind |-> k, pc |-> Len(program) + 1].pc = Len(program) + 1
      OBVIOUS
    <3> QED BY <2>1, <2>3, <3>1
  <2> QED BY <2>2, <2>3
<1> QED BY <1>6, <1>7, <1>8, <1>9 DEF Fatal

\* The validator's variables keep their types.
LEMMA ValidatorTypes ==
    ASSUME IInv, NEW i \in Instructions, Validate(i), program' = Append(program, i)
    PROVE  /\ program' \in Seq(Instructions) /\ Len(program') = Len(program) + 1 /\ Len(program) \in Nat
           /\ scan' \in [nonConstant : BOOLEAN, terminated : BOOLEAN, measured : BOOLEAN]
           /\ stack' \in Seq(Entry)
           /\ errors' \subseteq [kind : ErrorKinds, pc : 1..Len(program')]
<1>1. /\ program \in Seq(Instructions) /\ stack \in Seq(Entry)
      /\ scan \in [nonConstant : BOOLEAN, terminated : BOOLEAN, measured : BOOLEAN]
      /\ errors \subseteq [kind : ErrorKinds, pc : 1..Len(program)]
  BY DEF IInv, TypeOK
<1>2. program' \in Seq(Instructions) /\ Len(program') = Len(program) + 1 /\ Len(program) \in Nat
  BY <1>1
<1>3. stack' \in Seq(Entry)
  BY <1>1, SimulatedType DEF Validate
<1>4. scan' \in [nonConstant : BOOLEAN, terminated : BOOLEAN, measured : BOOLEAN]
  BY <1>1 DEF Validate, Scanned
<1>5. StructureErrors(i) \cup ArchErrors(i) \cup StackErrors(i) \subseteq ErrorKinds
  BY DEF StructureErrors, ArchErrors, StackErrors, ErrorKinds
<1>6. errors' \subseteq [kind : ErrorKinds, pc : 1..Len(program')]
  <2>1. errors' = errors \cup [kind : StructureErrors(i) \cup ArchErrors(i) \cup StackErrors(i),
                               pc : {Len(program) + 1}]
    BY DEF Validate, pc
  <2>2. 1..Len(program) \subseteq 1..Len(program') /\ Len(program) + 1 \in 1..Len(program')
    BY <1>2
  <2> HIDE DEF ErrorKinds
  <2> QED BY <2>1, <2>2, <1>1, <1>5
<1> QED BY <1>2, <1>3, <1>4, <1>6

\* What a handler builds.
LEMMA StatementsType ==
    ASSUME IInv, NEW i \in Instructions, Len(frame) >= Takes(i)
    PROVE  /\ Statements(i) \in Seq(Stmt) /\ Len(Statements(i)) >= 1
           /\ \A s \in 1..Len(Statements(i)) : \A a \in 1..Len(Statements(i)[s].args) :
                Statements(i)[s].args[a].stmt \in 1..(Len(block) + s - 1)
<1>1. /\ frame \in Seq(Value) /\ block \in Seq(Stmt) /\ Len(block) \in Nat
      /\ \A k \in 1..Len(frame) : frame[k].stmt \in 1..Len(block)
      /\ i.n \in Nat /\ i.m \in Nat /\ i.op \in Ops /\ i.v \in Immediates \cup {NoValue}
  BY InstructionAssumption DEF IInv, Typed, TypeOK
<1>2. CASE i.op = "halt"
  <2> DEFINE none == [stmt |-> Len(block) + 1, out |-> 1, kind |-> "none", value |-> NoValue]
             s1 == Statement("none", << >>, <<0, 0>>, NoValue)
             s2 == Statement("return", <<none>>, <<0, 0>>, NoValue)
  <2>1. none \in Operand
    BY <1>1 DEF Operand
  <2>2. s1 \in Stmt /\ s1.args = << >>
    BY DEF Statement, Stmt
  <2>3. s2 \in Stmt /\ s2.args = <<none>>
    <3> HIDE DEF none, Operand
    <3> QED BY <2>1 DEF Statement, Stmt, Ops
  <2>4. Statements(i) = <<s1, s2>>
    BY <1>2 DEF Statements, HaltStatements
  <2>5. none.stmt = Len(block) + 1
    OBVIOUS
  <2> HIDE DEF none, s1, s2
  <2>6. Statements(i) \in Seq(Stmt) /\ Len(Statements(i)) = 2
        /\ Statements(i)[1] = s1 /\ Statements(i)[2] = s2
    BY <2>2, <2>3, <2>4
  <2>7. ASSUME NEW s \in 1..Len(Statements(i)), NEW a \in 1..Len(Statements(i)[s].args)
        PROVE  Statements(i)[s].args[a].stmt \in 1..(Len(block) + s - 1)
    <3>1. Len(<< >>) = 0 /\ Len(<<none>>) = 1 /\ <<none>>[1] = none
      OBVIOUS
    <3>2. s = 2 /\ a = 1
      <4>1. s = 1 \/ s = 2
        BY <2>6
      <4>2. ASSUME s = 1 PROVE FALSE
        <5>1. Statements(i)[s].args = << >>
          BY <4>2, <2>2, <2>6
        <5>2. a \in 1..0
          BY <5>1, <3>1
        <5> QED BY <5>2
      <4>3. s = 2
        BY <4>1, <4>2
      <4>4. Statements(i)[s].args = <<none>>
        BY <4>3, <2>3, <2>6
      <4>5. a \in 1..1
        BY <4>4, <3>1
      <4> QED BY <4>3, <4>5
    <3>3. Statements(i)[s].args[a] = none
      BY <2>3, <2>6, <3>1, <3>2
    <3> QED BY <1>1, <2>5, <3>2, <3>3
  <2> QED BY <2>6, <2>7
<1>3. CASE i.op # "halt"
  <2>1. Taken(i) \in Seq(Value) /\ Len(Taken(i)) = Takes(i)
        /\ \A k \in 1..Takes(i) : Len(frame) + 1 - k \in 1..Len(frame) /\ Taken(i)[k] = frame[Len(frame) + 1 - k]
    BY <1>1, TakenType
  <2>2. /\ Args(i) \in Seq(Value)
        /\ \A k \in 1..Len(Args(i)) : \E j \in 1..Len(Taken(i)) : Args(i)[k] = Taken(i)[j]
    BY <2>1, ArrangedIs DEF Args
  <2>3. \A k \in 1..Len(Args(i)) : Args(i)[k].stmt \in 1..Len(block)
    BY <2>1, <2>2, <1>1
  <2>4. Args(i) \in Seq(Operand)
    <3>1. Value \subseteq Operand
      BY DEF Value, Operand
    <3> HIDE DEF Value, Operand
    <3> QED BY <2>2, <3>1
  <2> DEFINE dims == IF i.op = "new_array" THEN <<i.n, i.m>> ELSE <<0, 0>>
             st == Statement(i.op, Args(i), dims, i.v)
  <2>5. Statements(i) = <<st>>
    BY <1>3 DEF Statements
  <2>6. st \in Stmt /\ st.args = Args(i)
    <3>1. dims \in Nat \X Nat
      BY <1>1
    <3> HIDE DEF dims
    <3> QED BY <1>1, <2>4, <3>1 DEF Statement, Stmt
  <2> HIDE DEF st, dims
  <2>7. Statements(i) \in Seq(Stmt) /\ Len(Statements(i)) = 1 /\ Statements(i)[1] = st
    BY <2>5, <2>6
  <2>8. ASSUME NEW s \in 1..Len(Statements(i)), NEW a \in 1..Len(Statements(i)[s].args)
        PROVE  Statements(i)[s].args[a].stmt \in 1..(Len(block) + s - 1)
    <3>1. s = 1 /\ a \in 1..Len(Args(i)) /\ Statements(i)[s].args[a] = Args(i)[a]
      BY <2>6, <2>7
    <3> QED BY <3>1, <2>3, <1>1
  <2> QED BY <2>7, <2>8
<1> QED BY <1>2, <1>3

\* The decoder's variables keep theirs.
LEMMA DecoderTypes ==
    ASSUME IInv, NEW i \in Instructions, Visit(i) \/ VisitFails(i) \/ Abandoned
    PROVE  /\ frame' \in Seq(Value) /\ block' \in Seq(Stmt)
           /\ \A k \in 1..Len(frame') : frame'[k].stmt \in 1..Len(block')
           /\ \A s \in 1..Len(block') : \A a \in 1..Len(block'[s].args) :
                block'[s].args[a].stmt \in 1..(s - 1)
<1>1. /\ frame \in Seq(Value) /\ block \in Seq(Stmt) /\ Len(block) \in Nat
      /\ \A k \in 1..Len(frame) : frame[k].stmt \in 1..Len(block)
      /\ \A s \in 1..Len(block) : \A a \in 1..Len(block[s].args) :
           block[s].args[a].stmt \in 1..(s - 1)
  BY DEF IInv, Typed, TypeOK
<1>2. CASE VisitFails(i)
  BY <1>2 DEF VisitFails
<1>3. CASE Abandoned
  BY <1>1, <1>3 DEF Abandoned
<1>4. CASE Visit(i)
  <2>1. Len(frame) >= Takes(i) /\ block' = block \o Statements(i) /\ frame' = Pushed(i)
    BY <1>1, <1>4, DecodableIs DEF Visit
  <2>2. /\ Pushed(i) \in Seq(Value)
        /\ \A k \in 1..Len(Pushed(i)) :
             \/ \E j \in 1..Len(frame) : Pushed(i)[k] = frame[j]
             \/ Pushed(i)[k].stmt = Len(block) + 1
    BY <1>1, <2>1, PushedIs
  <2>3. /\ Statements(i) \in Seq(Stmt) /\ Len(Statements(i)) >= 1
        /\ \A s \in 1..Len(Statements(i)) : \A a \in 1..Len(Statements(i)[s].args) :
             Statements(i)[s].args[a].stmt \in 1..(Len(block) + s - 1)
    BY <2>1, StatementsType
  <2>4. /\ block' \in Seq(Stmt) /\ Len(block') = Len(block) + Len(Statements(i))
        /\ \A k \in 1..Len(block) + Len(Statements(i)) :
             block'[k] = IF k <= Len(block) THEN block[k] ELSE Statements(i)[k - Len(block)]
    <3>1. \A s, t \in Seq(Stmt) :
            /\ s \o t \in Seq(Stmt) /\ Len(s \o t) = Len(s) + Len(t)
            /\ \A k \in 1..Len(s) + Len(t) :
                 (s \o t)[k] = IF k <= Len(s) THEN s[k] ELSE t[k - Len(s)]
      BY Joined
    <3> DEFINE joined == block \o Statements(i)
    <3>2. /\ joined \in Seq(Stmt) /\ Len(joined) = Len(block) + Len(Statements(i))
          /\ \A k \in 1..Len(block) + Len(Statements(i)) :
               joined[k] = IF k <= Len(block) THEN block[k] ELSE Statements(i)[k - Len(block)]
      BY <1>1, <2>3, <3>1
    <3> QED BY <2>1, <3>2
  <2>5. Len(Statements(i)) \in Nat
    BY <2>3
  <2>6. ASSUME NEW k \in 1..Len(frame') PROVE frame'[k].stmt \in 1..Len(block')
    <3>1. 1..Len(block) \subseteq 1..Len(block') /\ Len(block) + 1 \in 1..Len(block')
      BY <1>1, <2>3, <2>4, <2>5
    <3> QED BY <3>1, <1>1, <2>1, <2>2
  <2>7. ASSUME NEW s \in 1..Len(block'), NEW a \in 1..Len(block'[s].args)
        PROVE  block'[s].args[a].stmt \in 1..(s - 1)
    <3>1. CASE s <= Len(block)
      <4>1. s \in 1..Len(block) /\ block'[s] = block[s]
        BY <3>1, <1>1, <2>4, <2>5
      <4> QED BY <4>1, <1>1
    <3>2. CASE ~ (s <= Len(block))
      <4> DEFINE t == s - Len(block)
      <4>1. t \in 1..Len(Statements(i)) /\ block'[s] = Statements(i)[t] /\ Len(block) + t - 1 = s - 1
        BY <3>2, <1>1, <2>4, <2>5
      <4> HIDE DEF t
      <4> QED BY <4>1, <2>3
    <3> QED BY <3>1, <3>2
  <2> QED BY <2>1, <2>2, <2>4, <2>6, <2>7
<1> QED BY <1>2, <1>3, <1>4

\* One instruction: the invariant is kept, and both walks do what the machine does.
LEMMA StepHolds ==
    ASSUME IInv, DimensionsFit, NEW i \in Instructions, Step(i)
    PROVE  /\ IInv'
           /\ Moves(FirstFatal, ValidatorKinds, FirstFatal', ValidatorKinds')
           /\ Moves(failed, DecoderKinds, failed', DecoderKinds')
<1>1. /\ program' = Append(program, i) /\ Validate(i)
      /\ Visit(i) \/ VisitFails(i) \/ Abandoned
  BY DEF Step, Walk
<1>2. /\ program' \in Seq(Instructions) /\ Len(program') = Len(program) + 1 /\ Len(program) \in Nat
      /\ scan' \in [nonConstant : BOOLEAN, terminated : BOOLEAN, measured : BOOLEAN]
      /\ stack' \in Seq(Entry)
      /\ errors' \subseteq [kind : ErrorKinds, pc : 1..Len(program')]
  BY <1>1, ValidatorTypes
<1>3. /\ frame' \in Seq(Value) /\ block' \in Seq(Stmt)
      /\ \A k \in 1..Len(frame') : frame'[k].stmt \in 1..Len(block')
      /\ \A s \in 1..Len(block') : \A a \in 1..Len(block'[s].args) :
           block'[s].args[a].stmt \in 1..(s - 1)
  BY <1>1, DecoderTypes
<1>4. /\ Fatal \in SUBSET (1..Len(program)) /\ FirstFatal = First(Fatal)
      /\ FirstFatal \in 0..Len(program) /\ (FirstFatal = 0 <=> Fatal = {})
  BY FatalType
<1>5. Fatal' = Fatal \cup (IF Fails(Tags, i) THEN {Len(program) + 1} ELSE {})
  BY <1>1, FatalStep
<1>6. FirstFatal' = First(Fatal')
  BY DEF FirstFatal, First
<1>7. FirstFatal' = IF FirstFatal = 0 /\ Fails(Tags, i) THEN Len(program) + 1 ELSE FirstFatal
  <2>1. First(Fatal \cup {Len(program) + 1}) = IF Fatal = {} THEN Len(program) + 1 ELSE First(Fatal)
    BY <1>2, <1>4, FirstIs
  <2>2. CASE Fails(Tags, i)
    BY <2>1, <2>2, <1>4, <1>5, <1>6
  <2>3. CASE ~ Fails(Tags, i)
    <3>1. Fatal' = Fatal
      BY <2>3, <1>5
    <3> QED BY <3>1, <2>3, <1>4, <1>6
  <2> QED BY <2>2, <2>3
<1>8. /\ failed = FirstFatal /\ (failed = 0 => Tags = FrameKinds)
      /\ stack \in Seq(Entry) /\ frame \in Seq(Value) /\ block \in Seq(Stmt)
  BY DEF IInv, SameVerdict, SameKinds, TypeOK, Typed
<1>9. /\ Decodable(i) <=> ~ Fails(FrameKinds, i)
      /\ Decodable(i) => Len(frame) >= Takes(i)
  BY <1>8, DecodableIs
<1>10. /\ ValidatorKinds = IF FirstFatal # 0 THEN << >> ELSE Tags
       /\ DecoderKinds = FrameKinds
  <2>1. \A s \in Seq(Entry) : Mapped(TagOf, s) = [k \in 1..Len(s) |-> s[k].tag]
    BY DEF Mapped, TagOf
  <2>2. \A s \in Seq(Value) : Mapped(KindOf, s) = [k \in 1..Len(s) |-> s[k].kind]
    BY DEF Mapped, KindOf
  <2> QED BY <2>1, <2>2, <1>8 DEF ValidatorKinds, DecoderKinds, Tags, FrameKinds
<1>11. /\ ValidatorKinds' = IF FirstFatal' # 0 THEN << >> ELSE Tags'
       /\ DecoderKinds' = FrameKinds'
  <2>1. \A s \in Seq(Entry) : Mapped(TagOf, s) = [k \in 1..Len(s) |-> s[k].tag]
    BY DEF Mapped, TagOf
  <2>2. \A s \in Seq(Value) : Mapped(KindOf, s) = [k \in 1..Len(s) |-> s[k].kind]
    BY DEF Mapped, KindOf
  <2> QED BY <2>1, <2>2, <1>2, <1>3 DEF ValidatorKinds, DecoderKinds, Tags, FrameKinds
<1>12. failed' \in 0..Len(program')
  BY <1>1, <1>2, <1>4, <1>8 DEF Visit, VisitFails, Abandoned, pc
<1>13. TypeOK'
  BY <1>2, <1>3, <1>12 DEF TypeOK
<1>14. CASE failed # 0
  <2>1. Abandoned
    BY <1>1, <1>14 DEF Visit, VisitFails
  <2>2. failed' = failed /\ FirstFatal' = FirstFatal /\ frame' = frame
    BY <2>1, <1>7, <1>8, <1>14 DEF Abandoned
  <2>3. ValidatorKinds = << >> /\ ValidatorKinds' = << >> /\ DecoderKinds' = DecoderKinds
    BY <2>2, <1>8, <1>10, <1>11, <1>14 DEF FrameKinds
  <2>4. SameVerdict' /\ SameKinds'
    BY <2>2, <1>8, <1>14 DEF SameVerdict, SameKinds
  <2> QED BY <1>1, <1>3, <1>8, <1>13, <1>14, <2>2, <2>3, <2>4 DEF Moves, IInv, Typed
<1>15. CASE failed = 0 /\ Fails(Tags, i)
  <2>1. Tags = FrameKinds /\ ~ Decodable(i) /\ FirstFatal = 0
    BY <1>8, <1>9, <1>15
  <2>2. failed' = Len(program) + 1 /\ frame' = << >> /\ FirstFatal' = Len(program) + 1
    BY <2>1, <1>1, <1>7, <1>15 DEF Visit, VisitFails, Abandoned, pc
  <2>3. Len(program) + 1 # 0
    BY <1>2
  <2>4. ValidatorKinds' = << >> /\ DecoderKinds' = << >>
    BY <2>2, <2>3, <1>11 DEF FrameKinds, Mapped
  <2>5. ValidatorKinds = Tags /\ DecoderKinds = Tags
    BY <2>1, <1>10
  <2>6. SameVerdict' /\ SameKinds'
    BY <2>2, <2>3 DEF SameVerdict, SameKinds
  <2> QED BY <1>1, <1>3, <1>8, <1>13, <1>15, <2>1, <2>2, <2>4, <2>5, <2>6 DEF Moves, IInv, Typed
<1>16. CASE failed = 0 /\ ~ Fails(Tags, i)
  <2>1. Tags = FrameKinds /\ Decodable(i) /\ FirstFatal = 0 /\ Len(frame) >= Takes(i)
    BY <1>8, <1>9, <1>16
  <2>2. failed' = 0 /\ frame' = Pushed(i) /\ FirstFatal' = 0 /\ stack' = Simulated(i)
    BY <2>1, <1>1, <1>7, <1>16 DEF Visit, VisitFails, Abandoned, Validate
  <2>3. Len(stack) >= Takes(i)
    <3>1. Len(Tags) = Len(stack) /\ Len(stack) \in Nat /\ Takes(i) \in Nat
      BY <1>8, TakesType DEF Tags, Mapped
    <3> QED BY <3>1, <1>16 DEF Fails
  <2>4. Tags' = After(Tags, i)
    BY <2>2, <2>3, <1>8, SimulatedIs DEF Tags
  <2>5. FrameKinds' = After(FrameKinds, i)
    <3>1. Len(block) \in Nat
      BY <1>8
    <3>2. Mapped(KindOf, Pushed(i)) = After(Mapped(KindOf, frame), i)
      BY <3>1, <2>1, <1>8, PushedIs
    <3> QED BY <3>2, <2>2 DEF FrameKinds
  <2>6. ValidatorKinds = Tags /\ DecoderKinds = Tags /\ ValidatorKinds' = Tags' /\ DecoderKinds' = Tags'
    BY <2>1, <2>2, <2>4, <2>5, <1>10, <1>11
  <2>7. SameVerdict' /\ SameKinds'
    BY <2>1, <2>2, <2>4, <2>5 DEF SameVerdict, SameKinds
  <2> QED BY <1>1, <1>3, <1>8, <1>13, <1>16, <2>1, <2>2, <2>4, <2>6, <2>7 DEF Moves, IInv, Typed
<1> QED BY <1>14, <1>15, <1>16

\* Nothing happens.
LEMMA StutterHolds == IInv /\ UNCHANGED vars => IInv'
<1> SUFFICES ASSUME IInv, UNCHANGED vars PROVE IInv'
  OBVIOUS
<1>1. /\ program' = program /\ scan' = scan /\ stack' = stack /\ errors' = errors
      /\ frame' = frame /\ block' = block /\ failed' = failed
  BY DEF vars
<1>2. TypeOK'
  BY <1>1 DEF IInv, TypeOK
<1>3. FirstFatal' = FirstFatal
  <2>1. Fatal' = Fatal
    BY <1>1 DEF Fatal
  <2> QED BY <2>1 DEF FirstFatal
<1>4. Tags' = Tags /\ FrameKinds' = FrameKinds
  BY <1>1 DEF Tags, FrameKinds
<1>5. Typed' /\ SameVerdict' /\ SameKinds'
  BY <1>1, <1>3, <1>4 DEF IInv, Typed, SameVerdict, SameKinds
<1> QED BY <1>2, <1>5 DEF IInv

----------------------------------------------------------------------------
(***************************************************************************)
(* The operands of an accepted program.                                    *)
(***************************************************************************)
\* What the simulator compares with the kinds it wants are the kinds of the
\* values the decoder takes.
LEMMA TakenKinds ==
    ASSUME IInv, DimensionsFit, NEW i \in Instructions, failed = 0, Len(frame) >= Takes(i),
           ~ Mismatched(i), NEW k \in 1..Takes(i)
    PROVE  Operands(i.op, Arity(i))[k] \in {Any, Taken(i)[k].kind}
<1>1. stack \in Seq(Entry) /\ frame \in Seq(Value) /\ Tags = FrameKinds
  BY DEF IInv, TypeOK, Typed, SameKinds
<1>2. Wanted(i) = Operands(i.op, Arity(i)) /\ Len(Wanted(i)) = Takes(i) /\ Takes(i) \in Nat
  BY AritiesAgree, TakesType
<1>3. /\ Len(stack) = Len(frame) /\ Len(frame) \in Nat
      /\ \A j \in 1..Len(frame) : stack[j].tag = frame[j].kind
  <2>1. Tags = [j \in 1..Len(stack) |-> stack[j].tag]
    BY <1>1 DEF Tags, Mapped, TagOf
  <2>2. FrameKinds = [j \in 1..Len(frame) |-> frame[j].kind]
    BY <1>1 DEF FrameKinds, Mapped, KindOf
  <2>3. Len(stack) = Len(frame)
    <3>1. Len(stack) \in Nat /\ Len(frame) \in Nat
      BY <1>1
    <3>2. DOMAIN Tags = 1..Len(stack) /\ DOMAIN FrameKinds = 1..Len(frame)
      BY <2>1, <2>2
    <3>3. \A m, n \in Nat : 1..m = 1..n => m = n
      <4> SUFFICES ASSUME NEW m \in Nat, NEW n \in Nat, 1..m = 1..n PROVE m = n
        OBVIOUS
      <4>1. \A d \in Nat : d >= 1 => (d <= m <=> d <= n)
        <5>1. \A d \in Nat : d >= 1 => (d \in 1..m <=> d <= m) /\ (d \in 1..n <=> d <= n)
          OBVIOUS
        <5> QED BY <5>1
      <4> QED BY <4>1
    <3> QED BY <3>1, <3>2, <3>3, <1>1
  <2>4. \A j \in 1..Len(stack) : Tags[j] = stack[j].tag
    BY <2>1
  <2>5. \A j \in 1..Len(frame) : FrameKinds[j] = frame[j].kind
    BY <2>2
  <2>6. Len(frame) \in Nat
    BY <1>1
  <2> QED BY <1>1, <2>3, <2>4, <2>5, <2>6, Zenon
<1>4. /\ Popped(i) \in Seq(Entry) /\ Len(Popped(i)) = Takes(i)
      /\ Popped(i)[k] = stack[Len(stack) + 1 - k]
  <2>1. /\ Len(Popped(i)) = LeastOf(Len(stack), Len(Wanted(i))) /\ Popped(i) \in Seq(Entry)
        /\ \A j \in 1..Len(Popped(i)) : Popped(i)[j] = stack[Len(stack) + 1 - j]
    BY <1>1, PoppedType
  <2>2. \A m, n \in Nat : m >= n => LeastOf(m, n) = n
    BY DEF LeastOf
  <2>3. Len(Popped(i)) = Takes(i)
    BY <1>2, <1>3, <2>1, <2>2
  <2> QED BY <2>1, <2>3
<1>5. Len(frame) + 1 - k \in 1..Len(frame) /\ Taken(i)[k] = frame[Len(frame) + 1 - k]
  BY <1>1, TakenType
<1>6. Popped(i)[k].tag = Taken(i)[k].kind
  BY <1>3, <1>4, <1>5
<1>7. k \in DOMAIN Popped(i)
  BY <1>4
<1>8. Wanted(i)[k] \in {Any, Popped(i)[k].tag}
  BY <1>7 DEF Mismatched
<1> QED BY <1>2, <1>6, <1>8

\* So every statement built of them has operands of the kinds it declares.
LEMMA StatementsTyped ==
    ASSUME IInv, DimensionsFit, NEW i \in Instructions, failed = 0, Len(frame) >= Takes(i),
           ~ Mismatched(i), NEW s \in 1..Len(Statements(i)), Statements(i)[s].op # "none"
    PROVE  OperandsTyped(Statements(i)[s].op, Statements(i)[s].args)
<1>1. CASE i.op = "halt"
  <2> DEFINE none == [stmt |-> Len(block) + 1, out |-> 1, kind |-> "none", value |-> NoValue]
             s1 == Statement("none", << >>, <<0, 0>>, NoValue)
             s2 == Statement("return", <<none>>, <<0, 0>>, NoValue)
  <2>1. Statements(i) = <<s1, s2>>
    BY <1>1 DEF Statements, HaltStatements
  <2>2. s1.op = "none" /\ s2.op = "return" /\ s2.args = <<none>>
    BY DEF Statement
  <2> HIDE DEF none, s1, s2
  <2>3. Statements(i)[s].op = "return" /\ Statements(i)[s].args = <<none>>
    <3>1. Len(<<s1, s2>>) = 2 /\ <<s1, s2>>[1] = s1 /\ <<s1, s2>>[2] = s2
      OBVIOUS
    <3>2. s = 1 \/ s = 2
      BY <2>1, <3>1
    <3> QED BY <2>1, <2>2, <3>1, <3>2
  <2> SUFFICES OperandsTyped("return", <<none>>)
    BY <2>3
  <2>4. Operands("return", 1) = <<Any>> /\ Fixed("return") = 0 /\ "return" \notin HasArity
    BY DEF Operands, Fixed, HasArity
  <2>5. Len(<<none>>) = 1 /\ Len(<<Any>>) = 1
    OBVIOUS
  <2>6. SubSeq(<<Any>>, 1, 0) \o Backwards(SubSeq(<<Any>>, 0 + 1, 1)) = <<Any>>
    <3>1. <<Any>> \in Seq(Slots) /\ 0 \in 0..Len(<<Any>>)
      BY DEF Slots
    <3>2. Arranged("return", <<Any>>) \in Seq(Slots) /\ Len(Arranged("return", <<Any>>)) = 1
          /\ Arranged("return", <<Any>>)[1] = <<Any>>[Place("return", 1, 1)]
      <4>1. \A t \in Seq(Slots) :
              Fixed("return") <= Len(t) =>
                /\ Arranged("return", t) \in Seq(Slots) /\ Len(Arranged("return", t)) = Len(t)
                /\ \A k \in 1..Len(t) : Arranged("return", t)[k] = t[Place("return", Len(t), k)]
        <5> Fixed("return") \in Nat
          BY <2>4
        <5> HIDE DEF Slots
        <5> QED BY PlacedIs
      <4>2. Fixed("return") <= Len(<<Any>>) /\ 1 \in 1..Len(<<Any>>)
        BY <2>4, <2>5
      <4> QED BY <3>1, <4>1, <4>2, <2>5
    <3>3. Place("return", 1, 1) = 1
      BY <2>4 DEF Place
    <3>4. Arranged("return", <<Any>>) = SubSeq(<<Any>>, 1, 0) \o Backwards(SubSeq(<<Any>>, 0 + 1, 1))
      BY <2>4, <2>5 DEF Arranged
    <3>5. Arranged("return", <<Any>>) = <<Any>>
      <4>1. \A t \in Seq(Slots) : Len(t) = 1 => t = <<t[1]>>
        OBVIOUS
      <4>2. Arranged("return", <<Any>>)[1] = Any
        BY <3>2, <3>3
      <4> QED BY <3>2, <4>1, <4>2
    <3> QED BY <3>4, <3>5
  <2> DEFINE kinds == SubSeq(<<Any>>, 1, 0) \o Backwards(SubSeq(<<Any>>, 0 + 1, 1))
  <2>7. OperandsTyped("return", <<none>>) <=>
          /\ 1 = Len(kinds)
          /\ \A a \in 1..1 : kinds[a] \in {Any, <<none>>[a].kind} \/ <<none>>[a].kind = "none"
    BY <2>4, <2>5 DEF OperandsTyped
  <2>8. kinds = <<Any>>
    BY <2>6
  <2> HIDE DEF kinds
  <2>9. Len(kinds) = 1 /\ kinds[1] = Any
    BY <2>8
  <2>10. \A a \in 1..1 : kinds[a] = Any
    BY <2>9
  <2> QED BY <2>7, <2>9, <2>10
<1>2. CASE i.op # "halt"
  <2> DEFINE declared == Operands(i.op, Arity(i))
             taken == Taken(i)
             args == Args(i)
             kinds == Arranged(i.op, declared)
  <2>1. Statements(i)[s].op = i.op /\ Statements(i)[s].args = args
    <3>1. \E d : Statements(i) = <<Statement(i.op, args, d, i.v)>>
      BY <1>2 DEF Statements
    <3>2. \A x : Len(<<x>>) = 1 /\ <<x>>[1] = x
      OBVIOUS
    <3>3. s = 1
      BY <3>1, <3>2
    <3> QED BY <3>1, <3>2, <3>3 DEF Statement
  <2>2. /\ frame \in Seq(Value) /\ taken \in Seq(Value) /\ Len(taken) = Takes(i)
    BY TakenType DEF IInv, Typed
  <2>3. declared \in Seq(Slots) /\ Len(declared) = Takes(i) /\ Takes(i) \in Nat
    BY TakesType, OperandsType DEF Takes
  <2>4. Fixed(i.op) \in Nat /\ (i.op # "get_item" => Fixed(i.op) <= Takes(i))
    BY FixedFits
  <2>5. /\ Len(args) = Takes(i)
        /\ \A a \in 1..Takes(i) : /\ Place(i.op, Takes(i), a) \in 1..Takes(i)
                                  /\ args[a] = taken[Place(i.op, Takes(i), a)]
    <3> HIDE DEF taken
    <3>1. /\ Len(Arranged(i.op, taken)) = Len(taken)
          /\ \A k \in 1..Len(taken) : /\ Place(i.op, Len(taken), k) \in 1..Len(taken)
                                      /\ Arranged(i.op, taken)[k] = taken[Place(i.op, Len(taken), k)]
      BY <2>2, <2>4, PlacedIs
    <3> QED BY <3>1, <2>2 DEF Args, taken
  <2>6. /\ Len(kinds) = Takes(i)
        /\ \A a \in 1..Takes(i) : kinds[a] = declared[Place(i.op, Takes(i), a)]
    <3> HIDE DEF declared
    <3>1. /\ Len(Arranged(i.op, declared)) = Len(declared)
          /\ \A k \in 1..Len(declared) : Arranged(i.op, declared)[k] = declared[Place(i.op, Len(declared), k)]
      BY <2>3, <2>4, PlacedIs
    <3> QED BY <3>1, <2>3
  <2>7. \A k \in 1..Takes(i) : declared[k] \in {Any, taken[k].kind}
    BY TakenKinds
  <2>8. Operands(i.op, IF i.op \in HasArity THEN Len(args) - Fixed(i.op) ELSE Len(args)) = declared
    BY <2>5, CountedBack
  <2> HIDE DEF declared, taken, args
  <2>9. OperandsTyped(i.op, args) <=>
          /\ Len(args) = Len(kinds)
          /\ \A a \in 1..Len(args) : kinds[a] \in {Any, args[a].kind} \/ args[a].kind = "none"
    BY <2>8 DEF OperandsTyped, Arranged
  <2> HIDE DEF kinds
  <2>10. \A a \in 1..Takes(i) : kinds[a] \in {Any, args[a].kind}
    BY <2>5, <2>6, <2>7
  <2> QED BY <2>1, <2>5, <2>6, <2>9, <2>10
<1> QED BY <1>1, <1>2

\* One instruction keeps the operands typed.
LEMMA StepKeepsTyped ==
    ASSUME IInv, DimensionsFit, AcceptedOperandsTyped, NEW i \in Instructions, Step(i)
    PROVE  AcceptedOperandsTyped'
<1>1. Validate(i) /\ (Visit(i) \/ VisitFails(i) \/ Abandoned)
  BY DEF Step, Walk
<1> SUFFICES ASSUME errors' = {}, NEW s \in 1..Len(block'), block'[s].op # "none"
             PROVE  OperandsTyped(block'[s].op, block'[s].args)
  BY DEF AcceptedOperandsTyped
<1>2. errors = {} /\ StackErrors(i) = {} /\ StructureErrors(i) = {}
  <2> DEFINE new == StructureErrors(i) \cup ArchErrors(i) \cup StackErrors(i)
  <2>1. errors' = errors \cup [kind : new, pc : {pc}]
    BY <1>1 DEF Validate
  <2> HIDE DEF new
  <2>2. errors = {} /\ [kind : new, pc : {pc}] = {}
    BY <2>1
  <2>3. \A k \in new : [kind |-> k, pc |-> pc] \in [kind : new, pc : {pc}]
    OBVIOUS
  <2>4. new = {}
    BY <2>2, <2>3
  <2> QED BY <2>2, <2>4 DEF new
<1>3. ~ Short(i) /\ ~ Mismatched(i)
  BY <1>2 DEF StackErrors
<1>4. failed = 0
  <2>1. FirstFatal = 0
    <3>1. Fatal = {}
      BY <1>2 DEF Fatal
    <3> QED BY <3>1, FatalType
  <2> QED BY <2>1 DEF IInv, SameVerdict
<1>5. block \in Seq(Stmt) /\ frame \in Seq(Value)
  BY DEF IInv, Typed
<1>6. CASE VisitFails(i)
  <2>1. block' = << >>
    BY <1>6 DEF VisitFails
  <2> QED BY <2>1
<1>7. CASE Visit(i)
  <2>1. Len(frame) >= Takes(i) /\ block' = block \o Statements(i)
    BY <1>5, <1>7, DecodableIs DEF Visit
  <2>2. Statements(i) \in Seq(Stmt)
    BY <2>1, StatementsType
  <2>3. /\ Len(block') = Len(block) + Len(Statements(i))
        /\ \A k \in 1..Len(block) + Len(Statements(i)) :
             block'[k] = IF k <= Len(block) THEN block[k] ELSE Statements(i)[k - Len(block)]
    <3>1. \A a, b \in Seq(Stmt) :
            /\ Len(a \o b) = Len(a) + Len(b)
            /\ \A k \in 1..Len(a) + Len(b) :
                 (a \o b)[k] = IF k <= Len(a) THEN a[k] ELSE b[k - Len(a)]
      BY Joined
    <3> DEFINE joined == block \o Statements(i)
    <3>2. /\ Len(joined) = Len(block) + Len(Statements(i))
          /\ \A k \in 1..Len(block) + Len(Statements(i)) :
               joined[k] = IF k <= Len(block) THEN block[k] ELSE Statements(i)[k - Len(block)]
      BY <1>5, <2>2, <3>1
    <3> QED BY <2>1, <3>2
  <2>4. Len(block) \in Nat /\ Len(Statements(i)) \in Nat
    BY <1>5, <2>2
  <2>5. CASE s <= Len(block)
    <3>1. s \in 1..Len(block) /\ block'[s] = block[s]
      BY <2>3, <2>4, <2>5
    <3> QED BY <3>1, <1>2 DEF AcceptedOperandsTyped
  <2>6. CASE ~ (s <= Len(block))
    <3>1. s - Len(block) \in 1..Len(Statements(i)) /\ block'[s] = Statements(i)[s - Len(block)]
      BY <2>3, <2>4, <2>6
    <3> QED BY <3>1, <1>3, <1>4, <2>1, StatementsTyped
  <2> QED BY <2>5, <2>6
<1> QED BY <1>1, <1>4, <1>6, <1>7 DEF Abandoned

----------------------------------------------------------------------------
(***************************************************************************)
(* What the encoder writes.                                                *)
(***************************************************************************)
\* dump_program's loop, as an equation for what it has written after k statements.
Written(b, k, f) ==
    IF k = 0 THEN << >>
    ELSE IF b[k].op = "none" THEN f[k - 1]
    ELSE Append(f[k - 1], Encoded(b[k]))
Dumps(f, b, m) == f = [k \in 0..m |-> Written(b, k, f)]

\* The loop has an outcome,
LEMMA DumpExists ==
    ASSUME NEW b, NEW m \in Nat
    PROVE  \E f : Dumps(f, b, m)
<1> DEFINE S == {n \in Nat : \E f : Dumps(f, b, n)}
<1>1. 0 \in S
  <2> DEFINE f == [k \in 0..0 |-> << >>]
  <2>1. \A k \in 0..0 : Written(b, k, f) = << >>
    BY DEF Written
  <2>2. f = [k \in 0..0 |-> Written(b, k, f)]
    BY <2>1
  <2> HIDE DEF f
  <2> QED BY <2>2 DEF Dumps
<1>2. ASSUME NEW n \in Nat, n \in S PROVE n + 1 \in S
  <2>1. PICK f : Dumps(f, b, n)
    BY <1>2
  <2> DEFINE g == [k \in 0..(n + 1) |-> IF k = n + 1 THEN Written(b, k, f) ELSE f[k]]
  <2>2. ASSUME NEW k \in 0..(n + 1) PROVE g[k] = Written(b, k, g)
    <3>1. k # 0 => k - 1 \in 0..n /\ k - 1 # n + 1 /\ k - 1 \in 0..(n + 1)
      OBVIOUS
    <3>2. k # 0 => g[k - 1] = f[k - 1]
      BY <3>1
    <3>3. k # n + 1 => k \in 0..n /\ f[k] = Written(b, k, f)
      BY <2>1 DEF Dumps
    <3>4. g[k] = Written(b, k, f)
      BY <3>3
    <3> HIDE DEF g
    <3> QED BY <3>2, <3>4 DEF Written
  <2>3. g = [k \in 0..(n + 1) |-> g[k]]
    OBVIOUS
  <2> HIDE DEF g
  <2>4. Dumps(g, b, n + 1)
    BY <2>2, <2>3 DEF Dumps
  <2> QED BY <2>4
<1> HIDE DEF S
<1>3. Nat \subseteq S
  BY <1>1, <1>2, Induction
<1> QED BY <1>3 DEF S

\* which depends on nothing but the statements seen.
LEMMA DumpsAgree ==
    ASSUME NEW b, NEW c, NEW m \in Nat, NEW n \in Nat, m <= n, \A k \in 1..m : b[k] = c[k],
           NEW f, Dumps(f, b, m), NEW g, Dumps(g, c, n)
    PROVE  \A k \in 0..m : f[k] = g[k]
<1> DEFINE S == {k \in Nat : k <= m => f[k] = g[k]}
<1>1. 0 \in S
  <2>1. 0 \in 0..m /\ 0 \in 0..n
    OBVIOUS
  <2>2. f[0] = Written(b, 0, f)
    BY <2>1 DEF Dumps
  <2>3. g[0] = Written(c, 0, g)
    BY <2>1 DEF Dumps
  <2> QED BY <2>2, <2>3 DEF Written
<1>2. ASSUME NEW k \in Nat, k \in S PROVE k + 1 \in S
  <2> SUFFICES ASSUME k + 1 <= m PROVE f[k + 1] = g[k + 1]
    OBVIOUS
  <2>1. f[k] = g[k]
    BY <1>2
  <2>2. k + 1 \in 0..m /\ k + 1 \in 0..n /\ k + 1 # 0 /\ (k + 1) - 1 = k /\ b[k + 1] = c[k + 1]
    OBVIOUS
  <2>3. f[k + 1] = Written(b, k + 1, f) /\ g[k + 1] = Written(c, k + 1, g)
    BY <2>2 DEF Dumps
  <2> QED BY <2>1, <2>2, <2>3 DEF Written
<1> HIDE DEF S
<1>3. Nat \subseteq S
  BY <1>1, <1>2, Induction
<1> QED BY <1>3 DEF S

\* A statement adds its instruction to what is written, ConstantNone nothing.
LEMMA DumpIs ==
    /\ Dump(<< >>) = << >>
    /\ \A b \in Seq(Stmt) : \A s \in Stmt :
         Dump(b \o <<s>>) = IF s.op = "none" THEN Dump(b) ELSE Append(Dump(b), Encoded(s))
<1> DEFINE D(b) == CHOOSE f : Dumps(f, b, Len(b))
<1>1. \A b : Dump(b) = D(b)[Len(b)]
  BY DEF Dump, Dumps, Written
<1>2. ASSUME NEW b, Len(b) \in Nat PROVE Dumps(D(b), b, Len(b))
  <2>1. \E f : Dumps(f, b, Len(b))
    BY <1>2, DumpExists
  <2> HIDE DEF Dumps
  <2> QED BY <2>1
<1> HIDE DEF D
<1>3. Dump(<< >>) = << >>
  <2>1. Len(<< >>) = 0
    OBVIOUS
  <2>2. Dumps(D(<< >>), << >>, 0)
    BY <1>2, <2>1
  <2>3. D(<< >>)[0] = Written(<< >>, 0, D(<< >>))
    BY <2>2 DEF Dumps
  <2> QED BY <1>1, <2>1, <2>3 DEF Written
<1>4. ASSUME NEW b \in Seq(Stmt), NEW s \in Stmt
      PROVE  Dump(b \o <<s>>) = IF s.op = "none" THEN Dump(b) ELSE Append(Dump(b), Encoded(s))
  <2> DEFINE c == b \o <<s>>
             n == Len(b)
  <2>1. n \in Nat /\ Len(c) = n + 1 /\ c[n + 1] = s /\ \A k \in 1..n : b[k] = c[k]
    <3> HIDE DEF Stmt
    <3> QED OBVIOUS
  <2>2. Dump(b) = D(b)[n]
    BY <1>1
  <2>3. Dump(c) = D(c)[n + 1]
    BY <1>1, <2>1
  <2> HIDE DEF c, n
  <2>4. Dumps(D(b), b, n) /\ Dumps(D(c), c, n + 1)
    BY <1>2, <2>1 DEF n
  <2>5. D(b)[n] = D(c)[n]
    <3>1. \A k \in 0..n : D(b)[k] = D(c)[k]
      <4>1. n \in Nat /\ n + 1 \in Nat /\ n <= n + 1
        BY <2>1
      <4>2. PICK f : f = D(b)
        OBVIOUS
      <4>3. PICK g : g = D(c)
        OBVIOUS
      <4>4. PICK m : m = n + 1
        OBVIOUS
      <4>5. Dumps(f, b, n) /\ Dumps(g, c, m) /\ m \in Nat /\ n <= m
        BY <2>4, <4>1, <4>2, <4>3, <4>4
      <4>6. \A k \in 0..n : f[k] = g[k]
        BY <4>1, <4>5, <2>1, DumpsAgree
      <4> QED BY <4>2, <4>3, <4>6
    <3> QED BY <3>1, <2>1
  <2>6. D(c)[n + 1] = Written(c, n + 1, D(c))
    <3>1. n + 1 \in 0..(n + 1)
      BY <2>1
    <3> QED BY <3>1, <2>4 DEF Dumps
  <2>7. n + 1 # 0 /\ (n + 1) - 1 = n
    BY <2>1
  <2>8. Dump(c) = IF s.op = "none" THEN Dump(b) ELSE Append(Dump(b), Encoded(s))
    BY <2>1, <2>2, <2>3, <2>5, <2>6, <2>7 DEF Written
  <2> QED BY <2>8 DEF c
<1> QED BY <1>3, <1>4

\* A statement that is not ConstantNone is written as the instruction it was read
\* from.
LEMMA EncodedIs ==
    ASSUME NEW i \in Instructions, NEW args \in Seq(Value), Len(args) = Takes(i), i.op # "halt"
    PROVE  Encoded(Statement(i.op, args,
                             IF i.op = "new_array" THEN <<i.n, i.m>> ELSE <<0, 0>>, i.v)) = i
<1> DEFINE st == Statement(i.op, args, IF i.op = "new_array" THEN <<i.n, i.m>> ELSE <<0, 0>>, i.v)
<1>1. /\ i \in [op : Ops, n : Nat, m : Nat, v : Immediates \cup {NoValue}]
      /\ i.op \notin HasArity \cup {"new_array"} => i.n = 0
      /\ i.op # "new_array" => i.m = 0
  BY InstructionAssumption
<1>2. i = [op |-> i.op, n |-> i.n, m |-> i.m, v |-> i.v]
  BY <1>1
<1>3. /\ st.op = i.op /\ st.args = args /\ st.v = i.v
      /\ st.dims = IF i.op = "new_array" THEN <<i.n, i.m>> ELSE <<0, 0>>
  BY DEF Statement
<1> HIDE DEF st
<1>4. EncodedArity(st) = i.n
  <2>1. CASE i.op \in HasArity
    BY <2>1, <1>3, CountedBack DEF EncodedArity
  <2>2. CASE i.op = "new_array"
    BY <2>2, <1>3 DEF EncodedArity, HasArity
  <2>3. CASE i.op \notin HasArity \cup {"new_array"}
    BY <2>3, <1>1, <1>3 DEF EncodedArity
  <2> QED BY <2>1, <2>2, <2>3
<1>5. st.dims[2] = i.m
  BY <1>1, <1>3
<1>6. ~ (st.op = "return" /\ st.args[1].kind = "none")
  <2> SUFFICES ASSUME i.op = "return" PROVE args[1].kind # "none"
    BY <1>3
  <2>1. Takes(i) = 1
    BY DEF Takes, Operands
  <2>2. args[1] \in Value
    <3>1. \A k \in 1..Len(args) : args[k] \in Value
      BY ElementsOf
    <3> QED BY <2>1, <3>1
  <2>3. args[1].kind \in Kinds
    BY <2>2 DEF Value
  <2> QED BY <2>3 DEF Kinds
<1>7. Encoded(st) = [op |-> i.op, n |-> i.n, m |-> i.m, v |-> i.v]
  BY <1>3, <1>4, <1>5, <1>6 DEF Encoded
<1> QED BY <1>2, <1>7 DEF st

\* One instruction more is read, and written back.
LEMMA StepKeepsRoundTrip ==
    ASSUME IInv, RoundTrip, NEW i \in Instructions, Step(i)
    PROVE  RoundTrip'
<1>1. program' = Append(program, i) /\ (Visit(i) \/ VisitFails(i) \/ Abandoned)
  BY DEF Step, Walk
<1>2. /\ program \in Seq(Instructions) /\ Len(program) \in Nat
      /\ block \in Seq(Stmt) /\ frame \in Seq(Value)
  BY DEF IInv, TypeOK, Typed
<1> SUFFICES ASSUME failed' = 0 PROVE Dump(block') = program'
  BY DEF RoundTrip, DumpProgram
<1>3. Visit(i) /\ failed = 0
  BY <1>1, <1>2 DEF Visit, VisitFails, Abandoned, pc
<1>4. Dump(block) = program
  BY <1>3 DEF RoundTrip, DumpProgram
<1>5. Len(frame) >= Takes(i) /\ block' = block \o Statements(i)
  BY <1>2, <1>3, DecodableIs DEF Visit
<1>6. Statements(i) \in Seq(Stmt)
  BY <1>5, StatementsType
<1>7. CASE i.op = "halt"
  <2> DEFINE none == [stmt |-> Len(block) + 1, out |-> 1, kind |-> "none", value |-> NoValue]
             s1 == Statement("none", << >>, <<0, 0>>, NoValue)
             s2 == Statement("return", <<none>>, <<0, 0>>, NoValue)
  <2>1. Statements(i) = <<s1, s2>>
    BY <1>7 DEF Statements, HaltStatements
  <2>2. s1.op = "none" /\ s2.op = "return" /\ s2.args = <<none>> /\ s2.dims = <<0, 0>> /\ s2.v = NoValue
    BY DEF Statement
  <2>3. none.kind = "none"
    OBVIOUS
  <2>4. Encoded(s2) = i
    <3> HIDE DEF none, s2
    <3>1. EncodedArity(s2) = 0
      BY <2>2 DEF EncodedArity, HasArity
    <3>2. <<none>>[1] = none /\ <<0, 0>>[2] = 0
      OBVIOUS
    <3>3. Encoded(s2) = [op |-> "halt", n |-> 0, m |-> 0, v |-> NoValue]
      BY <2>2, <2>3, <3>1, <3>2 DEF Encoded
    <3>4. i = [op |-> i.op, n |-> i.n, m |-> i.m, v |-> i.v]
      BY InstructionAssumption
    <3>5. i.n = 0 /\ i.m = 0 /\ i.v = NoValue
      BY <1>7, InstructionAssumption DEF HasArity
    <3> QED BY <1>7, <3>3, <3>4, <3>5
  <2> HIDE DEF none, s1, s2
  <2>5. s1 \in Stmt /\ s2 \in Stmt
    <3>1. \A k \in 1..Len(<<s1, s2>>) : <<s1, s2>>[k] \in Stmt
      BY <1>6, <2>1, ElementsOf
    <3>2. Len(<<s1, s2>>) = 2 /\ <<s1, s2>>[1] = s1 /\ <<s1, s2>>[2] = s2
      OBVIOUS
    <3> QED BY <3>1, <3>2
  <2> HIDE DEF Stmt
  <2>6. block' = (block \o <<s1>>) \o <<s2>> /\ block \o <<s1>> \in Seq(Stmt)
    <3>1. block \o <<s1>> \in Seq(Stmt) /\ block \o <<s1, s2>> = (block \o <<s1>>) \o <<s2>>
      <4>1. \A b \in Seq(Stmt) : \A x, y \in Stmt :
              b \o <<x>> \in Seq(Stmt) /\ b \o <<x, y>> = (b \o <<x>>) \o <<y>>
        BY TwoMore
      <4> QED BY <1>2, <2>5, <4>1
    <3> QED BY <1>5, <2>1, <3>1
  <2>7. Dump(block \o <<s1>>) = program
    BY <1>2, <1>4, <2>2, <2>5, DumpIs
  <2>8. Dump((block \o <<s1>>) \o <<s2>>) = Append(Dump(block \o <<s1>>), Encoded(s2))
    BY <2>2, <2>5, <2>6, DumpIs
  <2> QED BY <1>1, <2>4, <2>6, <2>7, <2>8
<1>8. CASE i.op # "halt"
  <2> DEFINE dims == IF i.op = "new_array" THEN <<i.n, i.m>> ELSE <<0, 0>>
             st == Statement(i.op, Args(i), dims, i.v)
  <2>1. Statements(i) = <<st>>
    BY <1>8 DEF Statements
  <2>2. Args(i) \in Seq(Value) /\ Len(Args(i)) = Takes(i)
    <3>1. Taken(i) \in Seq(Value) /\ Len(Taken(i)) = Takes(i)
      BY <1>2, <1>5, TakenType
    <3>2. Fixed(i.op) \in Nat /\ (i.op # "get_item" => Fixed(i.op) <= Len(Taken(i)))
      BY <3>1, FixedFits
    <3>3. Arranged(i.op, Taken(i)) \in Seq(Value) /\ Len(Arranged(i.op, Taken(i))) = Len(Taken(i))
      <4> HIDE DEF Value
      <4> QED BY <3>1, <3>2, PlacedIs
    <3> QED BY <3>1, <3>3 DEF Args
  <2>3. Encoded(st) = i
    BY <1>8, <2>2, EncodedIs
  <2>4. st.op # "none"
    <3>1. i.op \in Ops
      BY InstructionAssumption
    <3>2. "none" \notin Ops
      BY DEF Ops, Constants, ConstKind
    <3> QED BY <3>1, <3>2 DEF Statement
  <2> HIDE DEF st, Stmt
  <2>5. st \in Stmt
    <3>1. \A k \in 1..Len(<<st>>) : <<st>>[k] \in Stmt
      BY <1>6, <2>1, ElementsOf
    <3>2. Len(<<st>>) = 1 /\ <<st>>[1] = st
      OBVIOUS
    <3> QED BY <3>1, <3>2
  <2>6. Dump(block \o <<st>>) = Append(Dump(block), Encoded(st))
    BY <1>2, <2>4, <2>5, DumpIs
  <2> QED BY <1>1, <1>4, <1>5, <2>1, <2>3, <2>6
<1> QED BY <1>7, <1>8

----------------------------------------------------------------------------
(***************************************************************************)
(* The theorems.                                                           *)
(***************************************************************************)
\* The walks' inductive invariant.
THEOREM WalksInvariant ==
    ASSUME DimensionsFit
    PROVE  Spec => []IInv
<1>1. Init => IInv
  BY InitHolds
<1>2. IInv /\ [Next]_vars => IInv'
  BY StepHolds, StutterHolds DEF Next
<1> QED BY <1>1, <1>2, PTL DEF Spec

\* Every operand of a statement the decoder builds is the result of an earlier
\* statement, and every variable has its type.
THEOREM TypeCorrect ==
    ASSUME DimensionsFit
    PROVE  Spec => []TypeOK
<1>1. IInv => TypeOK
  BY DEF IInv
<1>2. Spec => []IInv
  BY WalksInvariant
<1> QED BY <1>1, <1>2, PTL

\* The decoder raises where the validator reports the first fatal error, and
\* nowhere else.
THEOREM DecoderFailsWhereReported ==
    ASSUME DimensionsFit
    PROVE  Spec => []FailsWhereReported
<1>1. IInv => FailsWhereReported
  BY FatalType DEF IInv, SameVerdict, FailsWhereReported
<1>2. Spec => []IInv
  BY WalksInvariant
<1> QED BY <1>1, <1>2, PTL

\* What validates decodes to statements whose operands have the kinds their
\* dialects declare.
THEOREM AcceptedIsTyped ==
    ASSUME DimensionsFit
    PROVE  Spec => []AcceptedOperandsTyped
<1>1. Init => AcceptedOperandsTyped
  <2>1. block = << >> => 1..Len(block) = {}
    OBVIOUS
  <2> QED BY <2>1 DEF Init, AcceptedOperandsTyped
<1>2. IInv /\ AcceptedOperandsTyped /\ [Next]_vars => AcceptedOperandsTyped'
  <2>1. AcceptedOperandsTyped /\ UNCHANGED vars => AcceptedOperandsTyped'
    BY DEF vars, AcceptedOperandsTyped
  <2> QED BY <2>1, StepKeepsTyped DEF Next
<1>3. Spec => []IInv
  BY WalksInvariant
<1> QED BY <1>1, <1>2, <1>3, PTL DEF Spec

\* What decodes is encoded as it was read.
THEOREM RoundTripTheorem ==
    ASSUME DimensionsFit
    PROVE  Spec => []RoundTrip
<1>1. Init => RoundTrip
  BY DumpIs DEF Init, RoundTrip, DumpProgram
<1>2. IInv /\ RoundTrip /\ [Next]_vars => RoundTrip'
  <2>1. RoundTrip /\ UNCHANGED vars => RoundTrip'
    BY DEF vars, RoundTrip, DumpProgram
  <2> QED BY <2>1, StepKeepsRoundTrip DEF Next
<1>3. Spec => []IInv
  BY WalksInvariant
<1> QED BY <1>1, <1>2, <1>3, PTL DEF Spec

\* The validator's simulation implements the stack machine.
THEOREM ValidatorImplements ==
    ASSUME DimensionsFit
    PROVE  Spec => ValidatorRuns
<1>1. Init => ValidatorMachine!MachineInit
  <2> SUFFICES ASSUME Init PROVE ValidatorMachine!MachineInit
    OBVIOUS
  <2>1. program = << >> /\ FirstFatal = 0 /\ stack = << >>
    BY DEF Init, FirstFatal, Fatal
  <2>2. [k \in 1..Len(stack) |-> stack[k].tag] = << >>
    BY <2>1
  <2> QED BY <2>1, <2>2 DEF ValidatorMachine!MachineInit
<1>2. IInv /\ [Next]_vars => [ValidatorMachine!MachineNext]_(ValidatorMachine!machineVars)
  <2> SUFFICES ASSUME IInv, [Next]_vars
               PROVE  ValidatorMachine!MachineNext \/ UNCHANGED ValidatorMachine!machineVars
    BY DEF ValidatorMachine!machineVars
  <2>1. CASE Next
    <3>1. PICK i \in Instructions : Step(i)
      BY <2>1 DEF Next
    <3>2. Moves(FirstFatal, ValidatorKinds, FirstFatal', ValidatorKinds')
      BY <3>1, StepHolds
    <3>3. ValidatorKinds \in Seq(Kinds)
      <4>1. stack \in Seq(Entry)
        BY DEF IInv, TypeOK
      <4>2. \A k \in 1..Len(stack) : stack[k].tag \in Kinds
        <5>1. \A e \in Entry : e.tag \in Kinds
          BY DEF Entry
        <5>2. \A k \in 1..Len(stack) : stack[k] \in Entry
          BY <4>1
        <5> QED BY <5>1, <5>2
      <4> QED BY <4>1, <4>2 DEF ValidatorKinds
    <3> QED BY <3>2, <3>3, ValidatorStep
  <2>2. CASE UNCHANGED vars
    BY <2>2 DEF vars, ValidatorMachine!machineVars, FirstFatal, Fatal
  <2> QED BY <2>1, <2>2
<1>3. Spec => []IInv
  BY WalksInvariant
<1> QED BY <1>1, <1>2, <1>3, PTL DEF Spec, ValidatorRuns, ValidatorMachine!MachineSpec

\* So does the decoder's frame.
THEOREM DecoderImplements ==
    ASSUME DimensionsFit
    PROVE  Spec => DecoderRuns
<1>1. Init => DecoderMachine!MachineInit
  <2> SUFFICES ASSUME Init PROVE DecoderMachine!MachineInit
    OBVIOUS
  <2>1. program = << >> /\ failed = 0 /\ frame = << >>
    BY DEF Init
  <2>2. [k \in 1..Len(frame) |-> frame[k].kind] = << >>
    BY <2>1
  <2> QED BY <2>1, <2>2 DEF DecoderMachine!MachineInit
<1>2. IInv /\ [Next]_vars => [DecoderMachine!MachineNext]_(DecoderMachine!machineVars)
  <2> SUFFICES ASSUME IInv, [Next]_vars
               PROVE  DecoderMachine!MachineNext \/ UNCHANGED DecoderMachine!machineVars
    BY DEF DecoderMachine!machineVars
  <2>1. CASE Next
    <3>1. PICK i \in Instructions : Step(i)
      BY <2>1 DEF Next
    <3>2. Moves(failed, DecoderKinds, failed', DecoderKinds')
      BY <3>1, StepHolds
    <3>3. DecoderKinds \in Seq(Kinds)
      <4>1. frame \in Seq(Value)
        BY DEF IInv, Typed
      <4>2. \A k \in 1..Len(frame) : frame[k].kind \in Kinds
        <5>1. \A e \in Value : e.kind \in Kinds
          BY DEF Value
        <5>2. \A k \in 1..Len(frame) : frame[k] \in Value
          BY <4>1
        <5> QED BY <5>1, <5>2
      <4> QED BY <4>1, <4>2 DEF DecoderKinds
    <3> QED BY <3>2, <3>3, DecoderStep
  <2>2. CASE UNCHANGED vars
    BY <2>2 DEF vars, DecoderMachine!machineVars
  <2> QED BY <2>1, <2>2
<1>3. Spec => []IInv
  BY WalksInvariant
<1> QED BY <1>1, <1>2, <1>3, PTL DEF Spec, DecoderRuns, DecoderMachine!MachineSpec
=============================================================================
