--------------------------- MODULE MCNodeResolution ---------------------------
(* Instances of NodeResolution for TLC.                                    *)
EXTENDS NodeResolution, TLC

Symmetry ==
    Permutations(Devs) \cup Permutations(Addrs) \cup Permutations(Nodes)

\* 8:0, 8:16 and 8:256.  The last differs from the first only above the low eight
\* bits of the minor.
Number(major, minor) == [major |-> major, minor |-> minor]

TwoNumbers   == {Number({3}, {}), Number({3}, {8})}
ThreeNumbers == TwoNumbers \cup {Number({3}, {4})}
=============================================================================
