--------------------------- MODULE MCAlertEngine ---------------------------
(* Small instances of AlertEngine.  Readings 0, 1 and 2 are below warn,       *)
(* between warn and crit, and at crit.                                        *)
EXTENDS AlertEngine

MCOneScalar == <<"cpu">>
MCNoScalars == << >>
MCKeysTo(v) == [k \in Keys |-> v]
MCWarn == MCKeysTo(1)
MCCrit == MCKeysTo(2)
MCThreeValues == 0..2
MCTwoValues == {0, 2}
MCSteps == {1, 2}
============================================================================
