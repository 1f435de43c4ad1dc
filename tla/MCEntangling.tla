---------------------------- MODULE MCEntangling ----------------------------
(***************************************************************************)
(* Four architectures.                                                     *)
(***************************************************************************)
EXTENDS Entangling

Bus(src, dst) == [src |-> src, dst |-> dst]
Zone(xs, ys, siteBuses, wordBuses, movable, riding, paired) ==
    [xs |-> xs, ys |-> ys, site_buses |-> siteBuses, word_buses |-> wordBuses,
     words_with_site_buses |-> movable, sites_with_word_buses |-> riding, pairs |-> paired]
One(words, zone) == [words |-> words, zones |-> <<zone>>, zone_buses |-> << >>, modes |-> << >>, paths |-> << >>]

InRow == One([w \in 1..6 |-> << <<w, 1>> >>],
             Zone(<<0, 2, 10, 12, 20, 22>>, <<0>>, << >>,
                  <<Bus(<<1, 2, 3, 4>>, <<3, 4, 5, 6>>), Bus(<<1, 3, 5>>, <<2, 4, 6>>)>>, {}, {1},
                  << <<1, 2>>, <<3, 4>>, <<5, 6>> >>))
Blocks == One(<< << <<1, 1>>, <<1, 3>> >>, << <<2, 1>>, <<2, 3>> >>, << <<4, 1>>, <<4, 3>> >>, << <<5, 1>>, <<5, 3>> >> >>,
              Zone(<<0, 2, 5, 10, 12>>, <<0, 5, 10>>, <<Bus(<<1>>, <<2>>)>>, <<Bus(<<1, 2>>, <<3, 4>>)>>, {1, 2, 3}, {1},
                   << <<1, 2>>, <<3, 4>> >>))
Dense == One([w \in 1..5 |-> << <<3 * w, 1>> >>],
             Zone([x \in 1..15 |-> x], <<0>>, << >>, <<Bus(<<1, 3, 4>>, <<2, 4, 5>>), Bus(<<3>>, <<1>>)>>, {}, {1},
                  << <<1, 2>> >>))
Wide == One([w \in 1..4 |-> [s \in 1..3 |-> <<3 * w, 3 * s>>]],
            Zone([x \in 1..12 |-> x], [y \in 1..9 |-> y], <<Bus(<<1, 2>>, <<2, 3>>)>>, <<Bus(<<1, 2>>, <<3, 4>>)>>, 1..4, 1..3,
                 << <<1, 2>>, <<3, 4>> >>))
MCArchs == {InRow, Blocks, Dense, Wide}

Places(a) == [zone : {1}, word : DOMAIN a.words, site : 1..SitesPerWord(a)]
Spread(a, qubits) == {f \in [qubits -> Places(a)] : \A q, r \in qubits : q < r => f[q] # f[r]}

Task(a, layers, start, blocked, noise, weights) ==
    [arch |-> a, layers |-> layers, config |-> start, blocked |-> blocked, noise |-> noise,
     beta |-> weights[1], congestion |-> weights[2], occupancy |-> weights[3], move |-> weights[4]]

P12 == << <<1, 2>> >>
P1234 == << <<1, 2>>, <<4, 3>> >>
P1324 == << <<1, 3>>, <<2, 4>> >>

Near == {<<0, 0, 1, 1>>, <<0, 1, 0, 0>>}

\* More pairs than slots.
MCDense == {Task(Dense, <<P1234>>, start, {}, << >>, <<0, c, 1, 1>>) : c \in {0, 1}, start \in Spread(Dense, 1..4)}

\* Four pairs in their slots, three of them of one word pair.
P8 == << <<1, 2>>, <<3, 4>>, <<5, 6>>, <<7, 8>> >>
InPlace(order) == [q \in 1..8 |-> LET slot == SlotsOf(Wide)[order[(q + 1) \div 2]] IN slot[2 - (q % 2)]]
MCWide == {Task(Wide, <<P8>>, InPlace(order), {}, noise, <<0, weight, 0, 0>>) :
              order \in {<<1, 2, 3, 4>>, <<2, 1, 6, 3>>, <<5, 4, 1, 6>>}, noise \in {<< >>, <<0, 1, -1>>}, weight \in 1..2}

\* Pairs with an atom that is not there, and layers without pairs.
P19 == << <<1, 9>> >>
P1239 == << <<1, 2>>, <<3, 9>> >>

MCTasks == MCDense \cup MCWide \cup
    {Task(InRow, layers, start, {}, << >>, weights) :
        layers \in {<<P12>>, <<P1234>>}, start \in Spread(InRow, 1..4), weights \in Near}
    \cup {Task(InRow, <<P12, P1324>>, start, {}, << >>, <<2, 0, 1, 1>>) : start \in Spread(InRow, 1..4)}
    \cup {Task(InRow, <<P1234>>, start, {}, noise, <<0, 0, 1, 1>>) : start \in {f \in Spread(InRow, 1..5) : f[1].word < 3}, noise \in {<< >>, <<1, -1, 0, 1>>}}
    \cup {Task(Blocks, <<P1324>>, start, {}, << >>, <<0, 1, 1, 1>>) : start \in {f \in Spread(Blocks, 1..4) : f[1].word = 1}}
    \cup {Task(Blocks, <<P12>>, start, {Loc(1, 3, 1)}, << >>, <<0, 1, 1, 0>>) : start \in {f \in Spread(Blocks, 1..4) : f[1].word = 2 /\ f[2].word = 1 /\ Loc(1, 3, 1) \notin Entries(f)}}
    \cup {Task(InRow, <<P12>>, start, {}, << >>, weights) : start \in {f \in Spread(InRow, 1..5) : f[1].word = 1}, weights \in {<<0, 0, 0, 0>>, <<0, 0, 1, 1>>}}
    \cup {Task(Dense, layers, start, {}, << >>, <<2, 0, 1, 1>>) :
             layers \in {<<P19>>, <<P1239>>, <<P12, << >>, P12>>, << << >>, P12>>}, start \in Spread(Dense, 1..3)}
=============================================================================
