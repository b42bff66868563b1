------------------------------ MODULE MCWaves ------------------------------
(* An instance of Waves: clusters A and B, issues i1 to i3.                *)
EXTENDS Waves

W(c, n, ps, as, st) ==
  [cluster |-> c, id |-> n, prereqs |-> ps, actions |-> as, status |-> st, score |-> 0]

Own(i) == [issue |-> i, own |-> TRUE]
Ask(i) == [issue |-> i, own |-> FALSE]

A1 == W("A", 1, {}, <<Ask("i1")>>, "available")
A2 == W("A", 2, {<<1>>, <<2>>}, <<Own("i1"), Own("i2")>>, "locked")
B1 == W("B", 1, {<<"A", 1>>}, <<Ask("i2")>>, "locked")
B2 == W("B", 2, {<<"A", 1>>, <<"A", 4>>}, <<Own("i3")>>, "locked")
A4 == W("A", 4, {<<1>>}, <<Ask("i1"), Own("i3")>>, "locked")

MCPlans == {<<<<A1, A2>>, <<B1>>>>, <<<<B2>>, <<A1>>>>,
            <<<<A1, W("A", 2, {<<3>>}, <<Own("i1")>>, "locked"),
                    W("A", 3, {<<2>>}, <<Own("i1")>>, "locked")>>>>}

MCRescans ==
  {[clusters |-> <<"A">>, successes |-> <<"A">>, results |-> <<<<[A2 EXCEPT !.prereqs = {<<1>>}]>>>>],
   [clusters |-> <<"A", "B">>, successes |-> <<"B">>, results |-> <<<<B1>>>>],
   [clusters |-> <<"A", "A">>, successes |-> <<"A">>, results |-> <<<<A1>>>>]}

MCFollowUps == {<<A4>>, <<W("B", 3, {}, <<Ask("i1")>>, "available")>>,
                <<W("B", 4, {}, <<Ask("i3")>>, "available"), W("B", 5, {<<4>>}, <<Own("i3")>>, "locked")>>}

MCModifications ==
  {[prereqs |-> Omitted, actions |-> <<Own("i2")>>],
   [prereqs |-> {<<2>>}, actions |-> Omitted],
   [prereqs |-> {}, actions |-> Omitted]}
============================================================================
