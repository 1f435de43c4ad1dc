----------------------------- MODULE MCStackify -----------------------------
(***************************************************************************)
(* The kernels TLC considers: up to three gates, fills and moves that      *)
(* share an angle; or up to two of them and a measurement of one zone, or  *)
(* at most one and a measurement of two zones or three, whose results go   *)
(* into one record; or, for the run that shows what is lost even of one    *)
(* zone, into two.  A measurement names each of its zones once.            *)
(***************************************************************************)
EXTENDS Stackify

At(op, addresses, uses) == [op |-> op, addresses |-> addresses, uses |-> uses]

\* The angle is statement 1.
Angle == At("constant", <<"x">>, << >>)
Steps == {At("fill", <<"a", "b">>, << >>), At("move", <<"u", "v", "w">>, << >>), At("cz", <<"y">>, << >>),
          At("local_rz", <<"a", "b">>, <<1>>), At("local_rz", <<"c">>, <<1>>)}
Starts == UNION {[1..n -> Steps] : n \in 0..3}

\* A measurement at position `at`, and the results it is asked for: a result is
\* picked by its zone and its place there.
Measurement(at, zones, picks) ==
    << At("measure", zones, << >>) >>
    \o [j \in 1..Len(picks) |-> At("result", picks[j], <<at>>)]

OneRecord(at, zones, picks, record) ==
    Measurement(at, zones, picks)
    \o << At("new", << >>, [j \in 1..Len(picks) |-> at + j]),
          At(record, << >>, <<at + Len(picks) + 1>>) >>

Halt == << At("halt", << >>, << >>) >>
Records == {"set_detector", "set_observable"}
Picks(zones, most) == UNION {[1..n -> zones \X (0..(Sites - 1))] : n \in 1..most}

Measuring(longest, zones, most) ==
    {<<Angle>> \o start \o OneRecord(2 + Len(start), zones, picks, record) \o Halt :
        start \in {s \in Starts : Len(s) <= longest},
        picks \in Picks({zones[j] : j \in DOMAIN zones}, most), record \in Records}

Linear ==
    {<<Angle>> \o start \o Halt : start \in Starts}
    \cup Measuring(2, <<"y">>, 3)
    \cup Measuring(1, <<"y", "z">>, 2)
    \cup Measuring(0, <<"t", "y", "z">>, 2)

TwoRecords ==
    {Measurement(1, <<"y">>, << <<"y", 0>>, <<"y", 1>> >>)
     \o << At("new", << >>, <<2>>), At("set_detector", << >>, <<4>>),
           At("new", << >>, <<3>>), At("set_observable", << >>, <<6>>) >> \o Halt}
=============================================================================
