--------------------------- MODULE OwnershipProofs ---------------------------
(* Every step of the lifecycle is a step of Ownership, or none.            *)
EXTENDS OwnershipRefinement, DeviceLifecycleProofs

USE LaterAssumption

\* Who holds what, from the two sides.
LEMMA HeldBy ==
  ASSUME IInv, NEW p \in Actors, Owns(p)
  PROVE  dev[p].name \in Names /\ holder[dev[p].name] = {p} /\ live[dev[p].name]
  BY OwnerFacts DEF holder, live, IInv, Exclusive

LEMMA HeldByNobody ==
  ASSUME IInv, NEW n \in Names, backstore[n] # "enabled"
  PROVE  holder[n] = {} /\ ~live[n]
  BY OwnerFacts DEF holder, live, IInv, PersistedIsUp, IsUp

LEMMA HandedOff ==
  ASSUME IInv, NEW d \in persisted
  PROVE  d.name \in Names /\ holder[d.name] = {Later} /\ live[d.name]
  BY DEF holder, live, IInv, TypeOK, Exclusive, PersistedIsUp, IsUp

\* A step after which the same handles own the same names and the same
\* backstores are live is nothing to the owners.
LEMMA SameOwners ==
  ASSUME persisted' = persisted,
         \A q \in Actors : Owns(q)' <=> Owns(q),
         \A q \in Actors : Owns(q) => dev'[q] = dev[q],
         \A n \in Names : backstore'[n] = "enabled" <=> backstore[n] = "enabled"
  PROVE  UNCHANGED <<holder, live>>
<1>1. \A n \in Names : {p \in Actors : Owns(p) /\ dev[p].name = n}'
                       = {p \in Actors : Owns(p) /\ dev[p].name = n}
  OBVIOUS
<1> QED
  BY <1>1 DEF holder, live

\* An actor's ownership ends: an up that fails, a process that is killed, a
\* teardown that has got to the backstore.
LEMMA OwnerLetsGo ==
  ASSUME IInv, persisted' = persisted, NEW p \in Actors, Owns(p), ~Owns(p)',
         \A q \in Actors \ {p} : (Owns(q)' <=> Owns(q)) /\ dev'[q] = dev[q],
         \A n \in Names \ {dev[p].name} :
            backstore'[n] = "enabled" <=> backstore[n] = "enabled"
  PROVE  O!LetGo(dev[p].name)
<1> DEFINE n == dev[p].name
<1>1. n \in Names /\ holder[n] = {p} /\ live[n]
  BY HeldBy
<1>2. holder' = [holder EXCEPT ![n] = {}]
  <2>1. \A m \in Names : m # n => holder'[m] = holder[m]
    BY DEF holder
  <2>2. holder'[n] = {}
    <3>1. \A q \in Actors : ~(Owns(q)' /\ dev'[q].name = n)
      BY <1>1 DEF IInv, Exclusive
    <3>2. \A d \in persisted' : d.name # n
      BY DEF IInv, Exclusive
    <3> QED
      BY <1>1, <3>1, <3>2 DEF holder
  <2> QED
    BY <1>1, <2>1, <2>2 DEF holder
<1>3. \E l \in BOOLEAN : live' = [live EXCEPT ![n] = l]
  <2>1. live' = [live EXCEPT ![n] = backstore'[n] = "enabled"]
    BY <1>1 DEF live
  <2> QED
    BY <2>1
<1> QED
  BY <1>1, <1>2, <1>3 DEF O!LetGo, O!ByHandle

OwnersStep == [O!Next]_<<holder, live>>

\* One actor goes on with its device, or loses hold of it; no `enable` and no
\* removal.
LEMMA GoesOn ==
  ASSUME IInv, persisted' = persisted, NEW p \in Actors,
         \A q \in Actors \ {p} : pc'[q] = pc[q] /\ dev'[q] = dev[q] /\ armed'[q] = armed[q],
         Owns(p)' => Owns(p) /\ dev'[p] = dev[p],
         \A n \in Names : backstore'[n] = "enabled" <=> backstore[n] = "enabled"
  PROVE  OwnersStep
<1>1. \A q \in Actors \ {p} : Owns(q)' <=> Owns(q)
  BY DEF Owns
<1>2. CASE Owns(p) /\ ~Owns(p)'
  <2>1. dev[p].name \in Names /\ O!LetGo(dev[p].name)
    BY <1>1, <1>2, OwnerLetsGo, HeldBy
  <2> QED
    BY <2>1 DEF OwnersStep, O!Next
<1>3. CASE ~(Owns(p) /\ ~Owns(p)')
  <2>1. UNCHANGED <<holder, live>>
    BY <1>1, <1>3, SameOwners
  <2> QED
    BY <2>1 DEF OwnersStep
<1> QED
  BY <1>2, <1>3

\* The steps of that kind.
LEMMA GoingOn ==
  ASSUME IInv, NEW p \in Actors,
         \/ ResetResult(p) \/ CreateHba(p) \/ CreateBackstore(p) \/ Configure(p)
         \/ EnableAgain(p) \/ UpFails(p) \/ AwaitSuccess(p) \/ LaunchRefused(p)
         \/ LaunchTimesOut(p) \/ CreateNexus(p) \/ WriteNexus(p) \/ Link(p) \/ Resolve(p)
         \/ OpenDir(p) \/ OpenDirFails(p) \/ Umount(p) \/ UmountBusy(p)
         \/ UnlinkStep(p) \/ RmNexusStep(p) \/ RmHbaStep(p) \/ DropLive(p) \/ BeginUp(p)
         \/ Mount(p) \/ MountFails(p) \/ Subdir(p) \/ DropSubdir(p)
         \/ Unmount(p) \/ DropMounted(p) \/ Down(p) \/ Crash(p)
  PROVE  OwnersStep
<1> USE DEF Goto, tree, handles, daemon, Owns, Launched, HasMount, Teardown, Fallible
<1>0. TypeOK
  BY DEF IInv
<1>1. CASE ResetResult(p) \/ CreateHba(p) \/ WriteNexus(p) \/ EnableAgain(p) \/ BeginUp(p)
  BY <1>0, <1>1, GoesOn DEF ResetResult, CreateHba, WriteNexus, EnableAgain, BeginUp, TypeOK
<1>2. CASE CreateBackstore(p) \/ Configure(p)
  BY <1>0, <1>2, GoesOn DEF CreateBackstore, MkdirBackstore, Configure, WriteDevConfig,
                            TypeOK, TreeTypeOK
<1>3. CASE UpFails(p) \/ Crash(p)
  BY <1>0, <1>3, GoesOn DEF UpFails, Crash, Release, TypeOK
<1>4. CASE AwaitSuccess(p) \/ LaunchRefused(p) \/ LaunchTimesOut(p)
  BY <1>0, <1>4, GoesOn DEF AwaitSuccess, LaunchRefused, LaunchTimesOut, TypeOK
<1>5. CASE CreateNexus(p) \/ Link(p)
  BY <1>0, <1>5, GoesOn DEF CreateNexus, Link, TypeOK
<1>6. CASE Resolve(p) \/ OpenDir(p) \/ OpenDirFails(p)
  BY <1>0, <1>6, GoesOn DEF Resolve, OpenDir, OpenDirFails, TypeOK
<1>7. CASE Umount(p) \/ UmountBusy(p)
  BY <1>0, <1>7, GoesOn DEF Umount, UmountBusy, TypeOK
<1>8. CASE UnlinkStep(p) \/ RmNexusStep(p) \/ RmHbaStep(p)
  BY <1>0, <1>8, GoesOn DEF UnlinkStep, RmNexusStep, RmHbaStep, TypeOK
<1>9. CASE DropLive(p)
  BY <1>0, <1>9, GoesOn DEF DropLive, Release, TypeOK
<1>10. CASE Mount(p) \/ MountFails(p) \/ Unmount(p) \/ DropMounted(p) \/ Down(p)
  BY <1>0, <1>10, GoesOn DEF Mount, MountFails, Unmount, DropMounted, Down, TypeOK
<1>11. CASE Subdir(p) \/ DropSubdir(p)
  BY <1>0, <1>11, GoesOn DEF Subdir, DropSubdir
<1> QED
  BY <1>1, <1>2, <1>3, <1>4, <1>5, <1>6, <1>7, <1>8, <1>9, <1>10, <1>11

\* A backstore that accepts `enable` is held by nobody.
LEMMA EnableClaims ==
  ASSUME IInv, NEW p \in Actors, EnableSucceeds(p)
  PROVE  OwnersStep
<1> USE DEF EnableSucceeds, Enable, Goto
<1> DEFINE n == dev[p].name
<1>1. n \in Names /\ backstore[n] = "made" /\ pc[p] = "enable" /\ pc'[p] = "await"
  BY DEF IInv, TypeOK, Devices
<1>2. holder[n] = {} /\ ~live[n]
  BY <1>1, HeldByNobody
<1>3. \A q \in Actors : q # p => (Owns(q)' <=> Owns(q))
  BY DEF IInv, TypeOK, Owns
<1>4. Owns(p)' /\ ~Owns(p)
  BY <1>1 DEF Owns, Launched, HasMount, Teardown
<1>5. holder' = [holder EXCEPT ![n] = {p}]
  <2>1. \A m \in Names : m # n => holder'[m] = holder[m]
    BY <1>3, <1>4 DEF holder
  <2>2. holder'[n] = {p}
    BY <1>1, <1>2, <1>3, <1>4 DEF holder
  <2> QED
    BY <1>1, <2>1, <2>2 DEF holder
<1>6. live' = [live EXCEPT ![n] = TRUE]
  BY <1>1 DEF live, IInv, TypeOK, TreeTypeOK
<1> QED
  BY <1>1, <1>2, <1>5, <1>6 DEF OwnersStep, O!Next, O!Claim

\* persist disarms the handle in the step that hands the device off.
LEMMA PersistHandsOff ==
  ASSUME IInv, NEW p \in Actors, Persist(p)
  PROVE  OwnersStep
<1> USE DEF Persist, Goto, tree
<1> DEFINE n == dev[p].name
<1>1. Owns(p) /\ ~Owns(p)'
  BY DEF IInv, TypeOK, Owns, Launched, HasMount, Teardown
<1>2. n \in Names /\ holder[n] = {p} /\ live[n]
  BY <1>1, HeldBy
<1>3. \A q \in Actors \ {p} : Owns(q)' <=> Owns(q)
  BY DEF IInv, TypeOK, Owns
<1>4. holder' = [holder EXCEPT ![n] = {Later}]
  <2>1. \A m \in Names : m # n => holder'[m] = holder[m]
    BY <1>1, <1>3 DEF holder
  <2>2. \A q \in Actors : ~(Owns(q)' /\ dev'[q].name = n)
    BY <1>1, <1>3 DEF IInv, Exclusive
  <2>3. \E d \in persisted' : d.name = n
    <3> DEFINE d == [name |-> n, naa |-> dev[p].naa]
    <3>1. d \in persisted' /\ d.name = n
      OBVIOUS
    <3> QED
      BY <3>1
  <2>4. holder'[n] = {Later}
    BY <1>2, <2>2, <2>3 DEF holder
  <2> QED
    BY <1>2, <2>1, <2>4 DEF holder
<1>5. UNCHANGED live
  BY DEF live
<1> QED
  BY <1>2, <1>4, <1>5 DEF OwnersStep, O!Next, O!HandOff, O!ByHandle

\* A teardown by name takes a device out of the hand-off.
LEMMA TeardownTakesOver ==
  ASSUME IInv, NEW p \in Actors, BeginTeardownNamed(p)
  PROVE  OwnersStep
<1> USE DEF TeardownNamed, Goto, tree
<1>1. PICK d \in persisted : TeardownNamed(p, d.name, d.naa)
  BY DEF BeginTeardownNamed
<1> DEFINE n == d.name
<1>2. n \in Names /\ holder[n] = {Later} /\ live[n]
  BY HandedOff
<1>3. /\ Owns(p)' /\ ~Owns(p) /\ dev'[p].name = n
      /\ \A q \in Actors \ {p} : (Owns(q)' <=> Owns(q)) /\ dev'[q] = dev[q]
  BY <1>1 DEF IInv, TypeOK, Owns, Launched, HasMount, Teardown
<1>4. persisted' = persisted \ {d}
  <2>1. d = [name |-> d.name, naa |-> d.naa]
    BY DEF IInv, TypeOK
  <2> QED
    BY <1>1, <2>1
<1>5. holder' = [holder EXCEPT ![n] = {p}]
  <2>1. \A m \in Names : m # n => holder'[m] = holder[m]
    BY <1>3, <1>4 DEF holder
  <2>2. \A e \in persisted' : e.name # n
    BY <1>4 DEF IInv, OnePersisted
  <2>3. \A q \in Actors \ {p} : ~(Owns(q) /\ dev[q].name = n)
    BY DEF IInv, Exclusive
  <2>4. holder'[n] = {p}
    BY <1>2, <1>3, <2>2, <2>3 DEF holder
  <2> QED
    BY <1>2, <2>1, <2>4 DEF holder
<1>6. UNCHANGED live
  BY <1>1 DEF live
<1> QED
  BY <1>2, <1>5, <1>6 DEF OwnersStep, O!Next, O!TakeOver

\* rmdir of the backstore ends a teardown's hold of it, removed or refused.
LEMMA RmdirLetsGo ==
  ASSUME IInv, NEW p \in Actors, RmBackstoreStep(p)
  PROVE  OwnersStep
<1> USE DEF RmBackstoreStep, RmdirBackstore, Goto
<1>1. Owns(p) /\ ~Owns(p)'
  BY DEF IInv, TypeOK, Owns, Launched, HasMount, Teardown
<1>2. \A q \in Actors \ {p} : (Owns(q)' <=> Owns(q)) /\ dev'[q] = dev[q]
  BY DEF IInv, TypeOK, Owns
<1>3. \A n \in Names \ {dev[p].name} :
         backstore'[n] = "enabled" <=> backstore[n] = "enabled"
  BY DEF IInv, TypeOK, TreeTypeOK
<1>4. dev[p].name \in Names /\ O!LetGo(dev[p].name)
  BY <1>1, <1>2, <1>3, OwnerLetsGo, HeldBy
<1> QED
  BY <1>4 DEF OwnersStep, O!Next

LEMMA StepRefines == IInv /\ [Next]_vars => OwnersStep
<1> SUFFICES ASSUME IInv, [Next]_vars PROVE OwnersStep
  OBVIOUS
<1>1. ASSUME NEW p \in Actors, CallStep(p) \/ CallerStep(p) \/ Crash(p) PROVE OwnersStep
  BY <1>1, GoingOn, EnableClaims, PersistHandsOff, TeardownTakesOver, RmdirLetsGo
     DEF CallStep, CallerStep
<1>2. CASE HostStep \/ UNCHANGED vars
  <2>1. UNCHANGED <<holder, live>>
    BY <1>2, SameOwners DEF HostStep, DaemonReports, OutsideEnters, OutsideLeaves,
       UnmountPath, vars, tree, handles, daemon, Owns
  <2> QED
    BY <2>1 DEF OwnersStep
<1> QED
  BY <1>1, <1>2 DEF Next, NextNoCrash

LEMMA InitRefines == Init => O!Init
<1> SUFFICES ASSUME Init PROVE O!Init
  OBVIOUS
<1>1. holder = [n \in Names |-> {}]
  BY DEF Init, holder, Owns, Launched, HasMount, Teardown
<1>2. live \in [Names -> BOOLEAN]
  BY DEF live
<1> QED
  BY <1>1, <1>2 DEF O!Init

\* For any actors, names and nexuses the lifecycle implements the ownership of
\* backstores: no step takes one from under another handle or leaves it two.
THEOREM LifecycleImplementsOwnership == Spec => ImplementsOwnership
<1>1. IInv /\ [Next]_vars => [O!Next]_<<holder, live>>
  BY StepRefines DEF OwnersStep
<1> QED
  BY Inductive, InitRefines, <1>1, PTL DEF Spec, ImplementsOwnership, O!Spec

=============================================================================
