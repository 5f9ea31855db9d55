--------------------------------- MODULE DevT ---------------------------------
(***************************************************************************)
(* The dev_t numbers of node_matches: what stat(2) reports for a node is   *)
(* one 64-bit number, what sysfs reports for a disk are two of 32 bits.  A *)
(* number is the set of the positions of its one-bits, so `&`, `|` and a   *)
(* cast are set operations and a shift moves positions.                    *)
(***************************************************************************)
EXTENDS Integers

U32 == 0..31
U64 == 0..63

\* A device number as sysfs prints it.
DevTNumbers == [major : SUBSET U32, minor : SUBSET U32]

Shr(r, k) == {i \in U64 : i + k \in r}
Shl(r, k) == {i \in U64 : i - k \in r}
AsU32(r)  == r \cap U32

LowMajor == 0..11   \* 0xfff
LowMinor == 0..7    \* 0xff

\* makedev(3), what st_rdev is made of
Makedev(t) ==
    Shl(t.major \cap LowMajor, 8) \cup Shl(t.major \ LowMajor, 32)
      \cup (t.minor \cap LowMinor) \cup Shl(t.minor \ LowMinor, 12)

Major(rdev) == AsU32(Shr(rdev, 8) \cap LowMajor) \cup AsU32(Shr(rdev, 32) \ LowMajor)

\* (fault) the upper bits of the minor are forgotten
ShortMinor(rdev) == AsU32(rdev \cap LowMinor)

Minor(rdev) == AsU32(rdev \cap LowMinor) \cup AsU32(Shr(rdev, 12) \ LowMinor)

DevTOf(rdev) == [major |-> Major(rdev), minor |-> Minor(rdev)]

=============================================================================
