-------------------------- MODULE MCReturnLayouts --------------------------
(***************************************************************************)
(* Atoms come home in the rows and blocks of MCEntangling, and on two      *)
(* islands without a lane between them.  The best site of an atom is often *)
(* one that another atom, which has no other, wants as well.               *)
(***************************************************************************)
EXTENDS ReturnLayouts, MCEntangling

Return(a, start, blocked, layers, weights, kept, top, rho) ==
    [arch |-> a, config |-> start, blocked |-> blocked, layers |-> layers, unit |-> 2, weights |-> weights,
     kept |-> kept, top |-> top, rho |-> rho]

\* Word 5 is a home on the island of 1 and 2, and 6 on the island of 3 and 4.
Islands == One([w \in 1..6 |-> << <<w, 1>> >>],
               Zone(<<0, 2, 10, 12, 20, 30>>, <<0>>, << >>,
                    <<Bus(<<1, 3>>, <<2, 4>>), Bus(<<2, 4>>, <<5, 6>>)>>, {}, {1}, << <<1, 2>>, <<3, 4>> >>))
AllArchs == MCArchs \cup {Islands}

Home(n) == Loc(1, n, 1)
MCReturns ==
    {Return(Islands, start, blocked, << >>, << >>, kept, 6, 1) :
        start \in Spread(Islands, 1..3), blocked \in {{}, {Home(1)}}, kept \in {1, 8}}
    \cup {Return(InRow, start, {}, layers, <<1>>, kept, top, 1) :
             start \in {f \in Spread(InRow, 1..3) : f[1].word = 4}, layers \in {<<P12>>, <<P1234>>}, kept \in {1, 2}, top \in {0, 2}}
    \cup {Return(Blocks, start, {}, <<P12, P1324>>, <<2, 1>>, 3, 6, rho) :
             start \in {f \in Spread(Blocks, 1..4) : f[1].word = 3 /\ f[2].word = 4 /\ f[3].word \in {2, 4}}, rho \in 0..2}
=============================================================================
