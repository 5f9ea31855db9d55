------------------------- MODULE OwnershipRefinement -------------------------
(* The lifecycle of devices implements the ownership of their backstores.   *)
EXTENDS DeviceLifecycle

CONSTANT Later   \* whoever takes down what was persisted

ASSUME LaterAssumption == Later \notin Actors

holder ==
    [n \in Names |->
        {p \in Actors : Owns(p) /\ dev[p].name = n}
        \cup {q \in {Later} : \E d \in persisted : d.name = n}]

live == [n \in Names |-> backstore[n] = "enabled"]

O == INSTANCE Ownership WITH Owners <- Actors

\* Every step of any number of actors on any names is a claim of a free backstore,
\* a hand-off, a take-over, a removal by the one holder, or nothing to the owners:
\* no step takes a backstore from under another's handle or leaves it two.
ImplementsOwnership == O!Spec

=============================================================================
