------------------------------- MODULE MCObdctl -------------------------------
(* Instances of Obdctl for TLC.                                            *)
EXTENDS Obdctl

CONSTANTS n1, a1, m1, cw, l1

\* One device, brought up with a mount and without.
OnMount == [name |-> n1, naa |-> a1, conf |-> cw, mount |-> m1]
Bare    == [name |-> n1, naa |-> a1, conf |-> cw, mount |-> NoMount]

BothLaunches == {OnMount, Bare}
OneLaunch    == {OnMount}

OneUpper == [c \in {cw} |-> l1]
=============================================================================
