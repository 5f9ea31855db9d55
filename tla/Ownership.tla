------------------------------ MODULE Ownership ------------------------------
(***************************************************************************)
(* What the typestate of device.rs promises of backstores.  At any time    *)
(* each is held by nobody, by one handle, or, handed off, by whatever      *)
(* process will come for it later.  Only a backstore that is not live and  *)
(* that nobody holds can be claimed.  A holder may lose hold of one that   *)
(* stays live: an up that fails late, a process that is killed, a removal  *)
(* the kernel refuses; without one, it stays as it is.                     *)
(***************************************************************************)
CONSTANTS
    Owners,   \* handles
    Names,    \* of backstores
    Later     \* the process to come

VARIABLES
    holder,   \* per backstore, who holds it
    live      \* is it enabled?

Init ==
    /\ holder = [n \in Names |-> {}]
    /\ live \in [Names -> BOOLEAN]

ByHandle(n) == \E o \in Owners : holder[n] = {o}

Claim(n) ==
    /\ holder[n] = {} /\ ~live[n]
    /\ \E o \in Owners : holder' = [holder EXCEPT ![n] = {o}]
    /\ live' = [live EXCEPT ![n] = TRUE]

\* persist
HandOff(n) ==
    /\ ByHandle(n) /\ live[n]
    /\ holder' = [holder EXCEPT ![n] = {Later}]
    /\ UNCHANGED live

\* teardown by name
TakeOver(n) ==
    /\ holder[n] = {Later} /\ live[n]
    /\ \E o \in Owners : holder' = [holder EXCEPT ![n] = {o}]
    /\ UNCHANGED live

\* With the backstore removed, or not
LetGo(n) ==
    /\ ByHandle(n) /\ live[n]
    /\ holder' = [holder EXCEPT ![n] = {}]
    /\ \E l \in BOOLEAN : live' = [live EXCEPT ![n] = l]

Next == \E n \in Names : Claim(n) \/ HandOff(n) \/ TakeOver(n) \/ LetGo(n)

Spec == Init /\ [][Next]_<<holder, live>>

=============================================================================
