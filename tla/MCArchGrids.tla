---------------------------- MODULE MCArchGrids ----------------------------
(***************************************************************************)
(* The buses of the Calls, over twelve locations, of which the first six   *)
(* are two rows of three:                                                  *)
(*   - Shifts: a bus from all of them to the last six, with every choice   *)
(*     of free, standing and moving atoms and at most one destination      *)
(*     taken.                                                              *)
(*   - Gaps: the same without a source in one corner.                      *)
(*   - Rows: a bus along a row, where one atom takes the place of another. *)
(*   - Detours: the first bus, but for a lane to the source beside it: what  *)
(*     one rectangle cannot hold a larger one can.                         *)
(* And what clients build:                                                 *)
(*   - Pairs: words beside each other, astride, or at one site only, with  *)
(*     pairs from a radius and by hand.                                    *)
(*   - TwoZones: one word after the other in two zones, connected.         *)
(*   - Sites: words of two sites with buses that shift and that exchange.  *)
(*   - Corner3: three of them, whose sources leave a corner open.         *)
(*   - Squares: words of four sites one above the other.                   *)
(***************************************************************************)
EXTENDS ArchGrids, TLC

MCLocations == 1..12

\* Rows of three; the last six are beside the first six.
PlaceAt(l) == IF l <= 6 THEN <<(l - 1) % 3, (l - 1) \div 3>> ELSE <<3 + ((l - 1) % 3), (l - 7) \div 3>>
Places == [l \in MCLocations |-> PlaceAt(l)]

\* No atom, a standing one or one to be moved, for every source.
Crowds(sources) == [sources -> {"none", "standing", "moving"}]
With(sources, dest, crowd, taken) ==
    [sources |-> sources, dest |-> dest, position |-> Places,
     occupied |-> {l \in sources : crowd[l] # "none"} \cup taken,
     entries |-> {l \in sources : crowd[l] = "moving"}]

Across(sources) == [l \in sources |-> l + 6]
Shifts == {With(1..6, Across(1..6), crowd, taken) :
              crowd \in Crowds(1..6), taken \in {{}} \cup {{l} : l \in 7..12}}
Gaps == {With(1..5, Across(1..5), crowd, {}) : crowd \in Crowds(1..5)}

\* One step along each row, towards a free place at its end or without one.
Along(sources) == [l \in sources |-> IF l % 3 = 0 THEN l + 4 ELSE l + 1]
Rows == {With(S, Along(S), crowd, taken) :
            S \in {1..3, 1..6}, crowd \in Crowds(1..6), taken \in {{}, {7}}}

Detours == {With(1..6, [Across(1..6) EXCEPT ![5] = 6], crowd, {}) : crowd \in Crowds(1..6)}

MCCalls == Shifts \cup Gaps \cup Rows \cup Detours
NoCalls == {}

----------------------------------------------------------------------------
Grid(xs, ys, shape, clearance) == [xs |-> xs, ys |-> ys, shape |-> shape, clearance |-> clearance]
Bus(src, dst) == [src |-> src, dst |-> dst]
Nothing == [z \in {"g", "h"} |-> {}]
Idler == [words |-> Nothing, site_buses |-> Nothing, word_buses |-> Nothing, pairs |-> {}, radii |-> {},
          explicit |-> {}, connections |-> {}, modes |-> {}, requests |-> {}]
OnG(S) == [Nothing EXCEPT !["g"] = S]

Pairs == [zones |-> [z \in {"g"} |-> Grid(<<0, 2, 10>>, <<0, 10, 20>>, <<1, 2>>, <<1, 1>>)],
          words |-> OnG({<<<<1>>, <<1, 2>>, TRUE>>, <<<<2>>, <<1, 2>>, TRUE>>, <<<<2>>, <<2, 3>>, TRUE>>,
                         <<<<2>>, <<1, 3>>, TRUE>>, <<<<3>>, <<1, 2>>, TRUE>>}),
          pairs |-> {<< <<1, 2>> >>, << <<2, 3>>, <<1, 4>> >>}, radii |-> {2}, explicit |-> {5}, limit |-> 6] @@ Idler

TwoZones == [zones |-> [z \in {"g", "h"} |->
                          Grid(IF z = "g" THEN <<0, 10>> ELSE <<100, 110>>, <<0>>, <<1, 1>>, <<3, 3>>)],
             words |-> [z \in {"g", "h"} |-> {<<<<1>>, <<1>>, TRUE>>, <<<<2>>, <<1>>, TRUE>>}],
             word_buses |-> [z \in {"g", "h"} |-> {Bus(<<1>>, <<2>>)}],
             connections |-> {<<<<"g", <<1>>>>, <<"h", <<1>>>>>>, <<<<"h", <<1, 2>>>>, <<"g", <<2, 1>>>>>>},
             modes |-> {<<"h", "g">>}, requests |-> {}, limit |-> 8] @@ Idler

Sites2 == [zones |-> [z \in {"g"} |-> Grid(<<0, 10, 30, 40>>, <<0, 10>>, <<2, 1>>, <<3, 3>>)],
           words |-> OnG({<<<<1, 2>>, <<1>>, TRUE>>, <<<<3, 4>>, <<2>>, FALSE>>}),
           site_buses |-> OnG({Bus(<<1>>, <<2>>), Bus(<<1, 2>>, <<2, 1>>)}),
           word_buses |-> OnG({Bus(<<1>>, <<2>>)}), limit |-> 5] @@ Idler

Corner3 == [Sites2 EXCEPT !.words = OnG({<<<<1, 2>>, <<1>>, TRUE>>, <<<<3, 4>>, <<1>>, TRUE>>, <<<<3, 4>>, <<2>>, TRUE>>}),
                          !.site_buses = OnG({Bus(<<1>>, <<2>>)}), !.word_buses = Nothing, !.requests = {{1}}]

Squares == [zones |-> [z \in {"g"} |-> Grid(<<0, 10>>, <<0, 10, 30, 40>>, <<2, 2>>, <<3, 3>>)],
            words |-> OnG({<<<<1, 2>>, <<1, 2>>, TRUE>>, <<<<1, 2>>, <<3, 4>>, TRUE>>}),
            site_buses |-> OnG({Bus(<<1, 2>>, <<3, 4>>)}),
            requests |-> {{1}}, limit |-> 4] @@ Idler

MCJobs == {Pairs, TwoZones, Sites2, Corner3, Squares}

\* Two zones, side by side, whose moves are packed together.
TwoZonesTogether == {[TwoZones EXCEPT !.connections = {}, !.modes = {}, !.requests = {{}}]}

\* Words whose sites are not equally far apart.
Uneven == {[Corner3 EXCEPT !.zones["g"].xs = <<0, 10, 30, 50>>, !.requests = {}]}
=============================================================================
