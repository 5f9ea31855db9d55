------------------------ MODULE DeviceLifecycleProofs ------------------------
(***************************************************************************)
(* For any number of actors, names, nexuses, mountpoints and configs, and  *)
(* any retry bounds: the state stays well typed, a backstore has one owner,*)
(* a device in use stays up, no up acts on an earlier answer, a teardown   *)
(* finds every link, and a call comes to an end.                           *)
(***************************************************************************)
EXTENDS DeviceLifecycle, TLAPS

USE TreeAssumption, LifecycleAssumption, NoDeviceAssumption

-----------------------------------------------------------------------------
(* The inductive invariant                                                 *)

\* Only names and nexuses with our prefixes are worked on.
OursOnly ==
    /\ \A p \in Actors :
          pc[p] # "idle" => dev[p].name \in OurNames /\ dev[p].naa \in OurNaas
    /\ persisted \subseteq [name : OurNames, naa : OurNaas]

\* An owner's `enable` was accepted and nobody else removed the backstore: why
\* the next `enable` of that name is refused.
OwnedEnabled == \A p \in Actors : Owns(p) => backstore[dev[p].name] = "enabled"

\* A name is handed off once.
OnePersisted == \A d, e \in persisted : d.name = e.name => d = e

IInv ==
    /\ TypeOK
    /\ OursOnly
    /\ OwnedEnabled
    /\ Exclusive
    /\ OnePersisted
    /\ HandleIsUp
    /\ PersistedIsUp

-----------------------------------------------------------------------------
(* Type correctness                                                        *)

LEMMA InitTypeOK == Init => TypeOK
  BY DEF Init, TypeOK, TreeInit, TreeTypeOK, TriesAllowed, PCs, ForeignNames, NoResult,
         Contents, Fallible, Devices

LEMMA LabelledContents ==
  ASSUME NEW r \in Contents, NEW l \in {"old", "kept"}
  PROVE  /\ Labelled(r, l) \in Contents
         /\ Labelled(r, l).by \in {"none", l}
         /\ Labelled(r, l).by = "none" => r.by = "none"
         /\ Labelled(r, l).ok = r.ok
<1>1. CASE r.by = "none"
  BY <1>1 DEF Labelled
<1>2. CASE r.by # "none"
  BY <1>2 DEF Labelled, Contents
<1> QED
  BY <1>1, <1>2

LEMMA NoResultContents == NoResult \in Contents /\ NoResult.by = "none" /\ ~NoResult.ok
  BY DEF NoResult, Contents

\* The type invariant, one step per action.
LEMMA NextTypeOK == TypeOK /\ [Next]_vars => TypeOK'
<1> SUFFICES ASSUME TypeOK, [Next]_vars PROVE TypeOK'
  OBVIOUS
<1> USE DEF TypeOK, TreeTypeOK, TriesAllowed, PCs, Fallible, HasMount, Teardown,
            Goto, Release, daemon, tree, handles, Devices
<1>0. \A p \in Actors : GiveUp(p) => jobs' \subseteq [conf : Confs, by : Actors \cup {"late"}]
  BY DEF GiveUp
<1>1. ASSUME NEW p \in Actors, ResetResult(p) PROVE TypeOK'
  <2>1. PICK r \in {NoResult, Labelled(result[dev[p].conf], "kept")} :
           result' = [result EXCEPT ![dev[p].conf] = r]
    BY <1>1 DEF ResetResult
  <2>2. dev[p].conf \in Confs => r \in Contents
    BY <2>1, NoResultContents, LabelledContents
  <2>3. result' \in [Confs -> Contents]
    BY <2>1, <2>2
  <2> QED
    BY <1>1, <2>3 DEF ResetResult
<1>2. ASSUME NEW p \in Actors, CreateHba(p) PROVE TypeOK'
  BY <1>2 DEF CreateHba, MkdirHba
<1>3. ASSUME NEW p \in Actors, CreateBackstore(p) PROVE TypeOK'
  BY <1>3 DEF CreateBackstore, MkdirBackstore
<1>4. ASSUME NEW p \in Actors, Configure(p) PROVE TypeOK'
  BY <1>4 DEF Configure, WriteDevConfig
<1>5. ASSUME NEW p \in Actors, EnableSucceeds(p) PROVE TypeOK'
  BY <1>5 DEF EnableSucceeds, Enable
<1>6. ASSUME NEW p \in Actors, EnableAgain(p) PROVE TypeOK'
  BY <1>6 DEF EnableAgain
<1>7. ASSUME NEW p \in Actors, UpFails(p) PROVE TypeOK'
  BY <1>7 DEF UpFails
<1>8. ASSUME NEW p \in Actors, AwaitSuccess(p) PROVE TypeOK'
  BY <1>0, <1>8 DEF AwaitSuccess
<1>9. ASSUME NEW p \in Actors, LaunchRefused(p) PROVE TypeOK'
  BY <1>0, <1>9 DEF LaunchRefused
<1>10. ASSUME NEW p \in Actors, LaunchTimesOut(p) PROVE TypeOK'
  BY <1>0, <1>10 DEF LaunchTimesOut
<1>11. ASSUME NEW p \in Actors, CreateNexus(p) PROVE TypeOK'
  BY <1>11 DEF CreateNexus, MkdirNexus
<1>12. ASSUME NEW p \in Actors, WriteNexus(p) PROVE TypeOK'
  BY <1>12 DEF WriteNexus
<1>13. ASSUME NEW p \in Actors, Link(p) PROVE TypeOK'
  BY <1>13 DEF Link, LinkLun
<1>14. ASSUME NEW p \in Actors, Resolve(p) PROVE TypeOK'
  BY <1>14 DEF Resolve
<1>15. ASSUME NEW p \in Actors, OpenDir(p) \/ OpenDirFails(p) PROVE TypeOK'
  BY <1>15 DEF OpenDir, OpenDirFails
<1>16. ASSUME NEW p \in Actors, Umount(p) PROVE TypeOK'
  <2>1. TreeTypeOK'
    BY <1>16 DEF Umount, UnmountAt
  <2>2. pc' \in [Actors -> PCs] /\ \A q \in Actors : tries'[q] < TriesAllowed(pc[q])'
    BY <1>16 DEF Umount
  <2> QED
    BY <1>16, <2>1, <2>2 DEF Umount
<1>17. ASSUME NEW p \in Actors, UmountBusy(p) PROVE TypeOK'
  BY <1>17 DEF UmountBusy
<1>18. ASSUME NEW p \in Actors, UnlinkStep(p) PROVE TypeOK'
  BY <1>18 DEF UnlinkStep, RmSymlink
<1>19. ASSUME NEW p \in Actors, RmNexusStep(p) PROVE TypeOK'
  BY <1>19 DEF RmNexusStep, RmdirNexus
<1>20. ASSUME NEW p \in Actors, RmBackstoreStep(p) PROVE TypeOK'
  BY <1>20 DEF RmBackstoreStep, RmdirBackstore
<1>21. ASSUME NEW p \in Actors, RmHbaStep(p) PROVE TypeOK'
  BY <1>21 DEF RmHbaStep, RmdirHba
<1>22. ASSUME NEW p \in Actors, DropLive(p) PROVE TypeOK'
  <2>1. CASE armed[p]
    BY <1>22, <2>1 DEF DropLive
  <2>2. CASE ~armed[p]
    <3>1. pc[p] # "idle" /\ Release(p) /\ UNCHANGED <<tree, sub, persisted, outside, daemon>>
      BY <1>22, <2>2 DEF DropLive
    <3> QED
      BY <3>1
  <2> QED
    BY <2>1, <2>2
<1>23. ASSUME NEW p \in Actors, BeginUp(p) PROVE TypeOK'
  <2>1. result' \in [Confs -> Contents]
    BY <1>23, LabelledContents DEF BeginUp
  <2> QED
    BY <1>23, <2>1 DEF BeginUp
<1>24. ASSUME NEW p \in Actors, Mount(p) PROVE TypeOK'
  BY <1>24 DEF Mount, MountAt
<1>25. ASSUME NEW p \in Actors, MountFails(p) \/ Unmount(p) \/ DropMounted(p) \/ Down(p)
       PROVE TypeOK'
  BY <1>25 DEF MountFails, Unmount, DropMounted, Down
<1>26. ASSUME NEW p \in Actors, Subdir(p) \/ DropSubdir(p) PROVE TypeOK'
  BY <1>26 DEF Subdir, DropSubdir
<1>27. ASSUME NEW p \in Actors, Persist(p) PROVE TypeOK'
  BY <1>27 DEF Persist
<1>28. ASSUME NEW p \in Actors, BeginTeardownNamed(p) PROVE TypeOK'
  BY <1>28 DEF BeginTeardownNamed, TeardownNamed
<1>29. ASSUME NEW p \in Actors, Crash(p) PROVE TypeOK'
  BY <1>0, <1>29 DEF Crash
<1>30. CASE HostStep
  <2>1. CASE DaemonReports
    BY <2>1 DEF DaemonReports, Contents
  <2>2. CASE OutsideEnters \/ OutsideLeaves
    BY <2>2 DEF OutsideEnters, OutsideLeaves
  <2>3. ASSUME NEW m \in Mountpoints, UnmountPath(m) PROVE TypeOK'
    BY <2>3 DEF UnmountPath, UnmountAt
  <2> QED
    BY <1>30, <2>1, <2>2, <2>3 DEF HostStep
<1>31. CASE UNCHANGED vars
  BY <1>31 DEF vars
<1> QED
  BY <1>1, <1>2, <1>3, <1>4, <1>5, <1>6, <1>7, <1>8, <1>9, <1>10, <1>11, <1>12, <1>13,
     <1>14, <1>15, <1>16, <1>17, <1>18, <1>19, <1>20, <1>21, <1>22, <1>23, <1>24, <1>25,
     <1>26, <1>27, <1>28, <1>29, <1>30, <1>31
     DEF Next, NextNoCrash, CallStep, CallerStep

\* Type correctness of every reachable state.
THEOREM TypeCorrect == Spec => []TypeOK
  BY InitTypeOK, NextTypeOK, PTL DEF Spec

-----------------------------------------------------------------------------
(* Ownership                                                               *)

LEMMA InitIInv == Init => IInv
  BY InitTypeOK
     DEF Init, IInv, OursOnly, OwnedEnabled, Exclusive, OnePersisted, HandleIsUp,
         PersistedIsUp, Owns, Uses, Launched, HasMount, Teardown

\* A step that gives no actor a new device, use or ownership and takes down
\* nothing keeps the invariant.
LEMMA Frame ==
  ASSUME IInv, TypeOK', persisted' = persisted,
         \A q \in Actors : pc'[q] # "idle" => pc[q] # "idle" /\ dev'[q] = dev[q],
         \A q \in Actors : (Owns(q)' => Owns(q)) /\ (Uses(q)' => Uses(q)),
         \A n \in Names : backstore[n] = "enabled" => backstore'[n] = "enabled",
         \A n \in Names, a \in Naas : IsUp(n, a) => IsUp(n, a)'
  PROVE  IInv'
<1>1. \A q \in Actors : (Owns(q) \/ Uses(q)) => pc[q] # "idle" /\ dev[q] \in Devices
  BY DEF IInv, TypeOK, Owns, Uses, Launched, HasMount, Teardown
<1>2. \A q \in Actors : (Owns(q)' \/ Uses(q)') => pc'[q] # "idle" /\ dev'[q] = dev[q]
  BY DEF Owns, Uses, Launched, HasMount, Teardown
<1>3. OursOnly'
  BY DEF IInv, OursOnly
<1>4. OwnedEnabled'
  BY <1>1, <1>2 DEF IInv, OwnedEnabled, Devices
<1>5. Exclusive'
  BY <1>1, <1>2 DEF IInv, Exclusive
<1>6. OnePersisted'
  BY DEF IInv, OnePersisted
<1>7. HandleIsUp'
  BY <1>1, <1>2 DEF IInv, HandleIsUp, Devices
<1>8. PersistedIsUp'
  BY DEF IInv, PersistedIsUp, TypeOK
<1> QED
  BY <1>3, <1>4, <1>5, <1>6, <1>7, <1>8 DEF IInv

\* The steps that create, wait, mount or unmount: nothing changes hands.
LEMMA FrameSteps ==
  ASSUME IInv, TypeOK', NEW p \in Actors,
         \/ ResetResult(p) \/ CreateHba(p) \/ CreateBackstore(p) \/ Configure(p)
         \/ EnableAgain(p) \/ UpFails(p) \/ AwaitSuccess(p) \/ LaunchRefused(p)
         \/ LaunchTimesOut(p) \/ CreateNexus(p) \/ WriteNexus(p) \/ Resolve(p)
         \/ OpenDir(p) \/ OpenDirFails(p) \/ Umount(p) \/ UmountBusy(p)
         \/ RmNexusStep(p) \/ RmHbaStep(p) \/ DropLive(p)
         \/ Mount(p) \/ MountFails(p) \/ Subdir(p) \/ DropSubdir(p)
         \/ Unmount(p) \/ DropMounted(p) \/ Down(p) \/ Crash(p)
  PROVE  IInv'
<1> USE DEF Goto, tree, handles, daemon, Owns, Uses, Launched, HasMount, Teardown,
            Fallible, IsUp
<1>0. TypeOK
  BY DEF IInv
<1>1. CASE ResetResult(p) \/ CreateHba(p) \/ WriteNexus(p) \/ EnableAgain(p)
  BY <1>0, <1>1, Frame DEF ResetResult, CreateHba, WriteNexus, EnableAgain, TypeOK
<1>2. CASE CreateBackstore(p) \/ Configure(p)
  BY <1>0, <1>2, Frame DEF CreateBackstore, MkdirBackstore, Configure, WriteDevConfig,
                           TypeOK, TreeTypeOK
<1>3. CASE UpFails(p) \/ Crash(p)
  BY <1>0, <1>3, Frame DEF UpFails, Crash, Release, TypeOK
<1>4. CASE AwaitSuccess(p) \/ LaunchRefused(p) \/ LaunchTimesOut(p)
  BY <1>0, <1>4, Frame DEF AwaitSuccess, LaunchRefused, LaunchTimesOut, TypeOK
<1>5. CASE CreateNexus(p)
  BY <1>0, <1>5, Frame DEF CreateNexus, MkdirNexus, TypeOK, TreeTypeOK
<1>6. CASE Resolve(p) \/ OpenDir(p) \/ OpenDirFails(p)
  BY <1>0, <1>6, Frame DEF Resolve, OpenDir, OpenDirFails, TypeOK
<1>7. CASE Umount(p) \/ UmountBusy(p)
  BY <1>0, <1>7, Frame DEF Umount, UmountBusy, TypeOK
<1>8. CASE RmNexusStep(p)
  BY <1>0, <1>8, Frame DEF RmNexusStep, RmdirNexus, TypeOK, TreeTypeOK
<1>9. CASE RmHbaStep(p)
  BY <1>0, <1>9, Frame DEF RmHbaStep, TypeOK
<1>10. CASE DropLive(p)
  BY <1>0, <1>10, Frame DEF DropLive, Release, TypeOK
<1>11. CASE Mount(p) \/ MountFails(p) \/ Unmount(p) \/ DropMounted(p) \/ Down(p)
  BY <1>0, <1>11, Frame DEF Mount, MountFails, Unmount, DropMounted, Down, TypeOK
<1>12. CASE Subdir(p) \/ DropSubdir(p)
  BY <1>0, <1>12, Frame DEF Subdir, DropSubdir
<1> QED
  BY <1>1, <1>2, <1>3, <1>4, <1>5, <1>6, <1>7, <1>8, <1>9, <1>10, <1>11, <1>12

LEMMA HostIInv == ASSUME IInv, TypeOK', HostStep PROVE IInv'
  BY Frame DEF HostStep, DaemonReports, OutsideEnters, OutsideLeaves, UnmountPath,
               tree, handles, daemon, Owns, Uses, IsUp

LEMMA StutterIInv == ASSUME IInv, TypeOK', UNCHANGED vars PROVE IInv'
  BY Frame DEF vars, tree, handles, daemon, Owns, Uses, IsUp

\* What an owner is: in a call, with a device of ours, whose backstore is live.
LEMMA OwnerFacts ==
  ASSUME IInv, NEW p \in Actors, Owns(p)
  PROVE  /\ pc[p] # "idle" /\ dev[p] \in Devices
         /\ dev[p].name \in Names /\ dev[p].naa \in Naas
         /\ backstore[dev[p].name] = "enabled"
  BY DEF IInv, TypeOK, OwnedEnabled, Devices, Owns, Launched, HasMount, Teardown

LEMMA UsersOwn == ASSUME NEW p \in Actors, Uses(p) PROVE Owns(p)
  BY DEF Uses, Owns

\* A new up owns nothing yet.
LEMMA BeginUpIInv == ASSUME IInv, TypeOK', NEW p \in Actors, BeginUp(p) PROVE IInv'
<1> USE DEF BeginUp, Goto, tree, daemon, Owns, Uses, Launched, HasMount, Teardown, IsUp
<1>1. OursOnly'
  BY DEF IInv, TypeOK, OursOnly
<1>2. \A q \in Actors : (Owns(q)' => Owns(q) /\ q # p) /\ (Uses(q)' => Uses(q) /\ q # p)
  BY DEF IInv, TypeOK
<1>3. OwnedEnabled' /\ Exclusive' /\ OnePersisted' /\ HandleIsUp' /\ PersistedIsUp'
  BY <1>2 DEF IInv, TypeOK, OwnedEnabled, Exclusive, OnePersisted, HandleIsUp, PersistedIsUp
<1> QED
  BY <1>1, <1>3 DEF IInv

\* The accepted `enable` makes an owner; every other owner's backstore is
\* already live, so its name is another one.
LEMMA EnableIInv == ASSUME IInv, TypeOK', NEW p \in Actors, EnableSucceeds(p) PROVE IInv'
<1> USE DEF EnableSucceeds, Enable, Goto
<1> DEFINE n == dev[p].name
<1>1. dev[p] \in Devices /\ n \in Names /\ backstore[n] = "made" /\ pc[p] = "enable"
  BY DEF IInv, TypeOK, Devices
<1>2. /\ backstore' = [backstore EXCEPT ![n] = "enabled"]
      /\ backstore' [n] = "enabled"
      /\ \A x \in Names : backstore[x] = "enabled" => backstore'[x] = "enabled" /\ x # n
  BY <1>1 DEF IInv, TypeOK, TreeTypeOK
<1>3. \A q \in Actors : q # p => (Owns(q)' <=> Owns(q)) /\ (Uses(q)' <=> Uses(q))
  BY DEF IInv, TypeOK, Owns, Uses
<1>4. \A q \in Actors : Uses(q)' => q # p
  BY DEF IInv, TypeOK, Uses, HasMount
<1>5. OwnedEnabled'
  BY <1>1, <1>2, <1>3, OwnerFacts DEF OwnedEnabled
<1>6. Exclusive'
  <2>1. \A q \in Actors : q # p /\ Owns(q) => dev[q].name # n
    BY <1>1, OwnerFacts
  <2>2. \A d \in persisted : d.name # n
    BY <1>1 DEF IInv, PersistedIsUp, IsUp
  <2> QED
    BY <2>1, <2>2, <1>3 DEF IInv, Exclusive
<1>7. HandleIsUp'
  BY <1>2, <1>3, <1>4, UsersOwn, OwnerFacts DEF IInv, HandleIsUp, IsUp
<1>8. PersistedIsUp'
  BY <1>2 DEF IInv, PersistedIsUp, IsUp, TypeOK
<1>9. OursOnly' /\ OnePersisted'
  BY DEF IInv, OursOnly, OnePersisted, TypeOK
<1> QED
  BY <1>5, <1>6, <1>7, <1>8, <1>9 DEF IInv

\* The link completes the device; it displaces no other link.
LEMMA LinkIInv == ASSUME IInv, TypeOK', NEW p \in Actors, Link(p) PROVE IInv'
<1> USE DEF Link, LinkLun, Goto
<1>1. /\ Owns(p) /\ pc[p] = "link" /\ dev[p].name \in Names /\ dev[p].naa \in Naas
      /\ backstore[dev[p].name] = "enabled"
  BY OwnerFacts DEF Owns, Launched
<1>2. \A q \in Actors : (Owns(q)' <=> Owns(q)) /\ (Uses(q)' => Uses(q) \/ q = p)
  BY <1>1 DEF IInv, TypeOK, Owns, Uses, Launched, HasMount, Teardown
<1>3. \A x \in Names, a \in Naas : IsUp(x, a) => IsUp(x, a)'
  BY <1>1 DEF IInv, TypeOK, TreeTypeOK, IsUp
<1>4. IsUp(dev[p].name, dev[p].naa)'
  BY <1>1 DEF IInv, TypeOK, TreeTypeOK, IsUp
<1>5. HandleIsUp'
  BY <1>2, <1>3, <1>4, UsersOwn, OwnerFacts DEF IInv, HandleIsUp
<1>6. PersistedIsUp'
  BY <1>3 DEF IInv, PersistedIsUp, TypeOK
<1>7. OursOnly' /\ OnePersisted' /\ OwnedEnabled' /\ Exclusive'
  BY <1>2 DEF IInv, OursOnly, OnePersisted, OwnedEnabled, Exclusive, TypeOK
<1> QED
  BY <1>5, <1>6, <1>7 DEF IInv

\* The handle is disarmed in the step that hands the device off.
LEMMA PersistIInv == ASSUME IInv, TypeOK', NEW p \in Actors, Persist(p) PROVE IInv'
<1> USE DEF Persist, Goto, tree, daemon
<1> DEFINE d == [name |-> dev[p].name, naa |-> dev[p].naa]
<1>1. Owns(p) /\ Uses(p) /\ pc[p] # "idle" /\ dev[p].name \in Names /\ dev[p].naa \in Naas
  BY OwnerFacts DEF Owns, Uses, HasMount
<1>2. \A q \in Actors : /\ Owns(q)' => Owns(q) /\ q # p
                        /\ Uses(q)' => Uses(q) /\ q # p
  BY <1>1 DEF IInv, TypeOK, Owns, Uses, Launched, HasMount, Teardown
<1>3. IsUp(d.name, d.naa) /\ \A e \in persisted : e.name # d.name
  BY <1>1 DEF IInv, HandleIsUp, Exclusive
<1>4. OursOnly'
  BY <1>1 DEF IInv, OursOnly, TypeOK
<1>5. OwnedEnabled' /\ HandleIsUp'
  BY <1>2 DEF IInv, OwnedEnabled, HandleIsUp, IsUp
<1>6. Exclusive' /\ OnePersisted'
  BY <1>1, <1>2, <1>3 DEF IInv, Exclusive, OnePersisted
<1>7. PersistedIsUp'
  BY <1>3 DEF IInv, PersistedIsUp, IsUp
<1> QED
  BY <1>4, <1>5, <1>6, <1>7 DEF IInv

\* Taking a persisted device down takes it out of the hand-off.
LEMMA TeardownNamedIInv ==
  ASSUME IInv, TypeOK', NEW p \in Actors, BeginTeardownNamed(p)
  PROVE  IInv'
<1> USE DEF Goto, tree, daemon, TeardownNamed
<1>0. PICK d \in persisted : TeardownNamed(p, d.name, d.naa)
  BY DEF BeginTeardownNamed
<1>1. /\ dev' = [dev EXCEPT ![p] = [name |-> d.name, naa |-> d.naa, conf |-> NoConf]]
      /\ persisted' = persisted \ {d}
  <2>1. d = [name |-> d.name, naa |-> d.naa]
    BY DEF IInv, TypeOK
  <2> QED
    BY <1>0, <2>1
<1>2. /\ d.name \in OurNames /\ d.naa \in OurNaas /\ IsUp(d.name, d.naa)
      /\ dev'[p].name = d.name /\ dev'[p].naa = d.naa /\ pc[p] = "idle"
  BY <1>0, <1>1 DEF IInv, TypeOK, OursOnly, PersistedIsUp
<1>3. \A q \in Actors : /\ q # p => dev'[q] = dev[q]
                        /\ Owns(q)' => Owns(q) \/ q = p
                        /\ Uses(q)' => Uses(q) /\ q # p
  BY <1>0, <1>1 DEF IInv, TypeOK, Owns, Uses, Launched, HasMount, Teardown
<1>4. \A q \in Actors : Owns(q) => q # p /\ dev[q].name # d.name
  BY <1>1, <1>2, OwnerFacts DEF IInv, Exclusive
<1>5. OursOnly'
  BY <1>0, <1>1, <1>2, <1>3 DEF IInv, OursOnly, TypeOK
<1>6. OwnedEnabled'
  BY <1>0, <1>2, <1>3, <1>4 DEF IInv, OwnedEnabled, IsUp
<1>7. Exclusive'
  BY <1>1, <1>2, <1>3, <1>4 DEF IInv, Exclusive, OnePersisted
<1>8. OnePersisted' /\ PersistedIsUp'
  BY <1>0, <1>1 DEF IInv, OnePersisted, PersistedIsUp, IsUp
<1>9. HandleIsUp'
  BY <1>0, <1>3 DEF IInv, HandleIsUp, IsUp
<1> QED
  BY <1>5, <1>6, <1>7, <1>8, <1>9 DEF IInv

\* A teardown unlinks the one name it owns, and then removes its backstore.
LEMMA RemoveIInv ==
  ASSUME IInv, TypeOK', NEW p \in Actors, UnlinkStep(p) \/ RmBackstoreStep(p)
  PROVE  IInv'
<1> USE DEF UnlinkStep, RmBackstoreStep, RmSymlink, RmdirBackstore, Goto, daemon
<1> DEFINE n == dev[p].name
<1>1. Owns(p) /\ ~Uses(p) /\ pc[p] # "idle" /\ n \in Names /\ dev[p].naa \in Naas
  BY OwnerFacts DEF Owns, Uses, HasMount, Teardown
<1>2. \A q \in Actors : (Owns(q)' => Owns(q)) /\ (Uses(q)' => Uses(q) /\ q # p)
  BY <1>1 DEF IInv, TypeOK, Owns, Uses, Launched, HasMount, Teardown
<1>3. \A x \in Names : x # n => /\ backstore[x] = "enabled" => backstore'[x] = "enabled"
                                /\ \A a \in Naas : IsUp(x, a) => IsUp(x, a)'
  BY <1>1 DEF IInv, TypeOK, TreeTypeOK, IsUp
<1>4. \A q \in Actors : Owns(q) /\ q # p => dev[q].name # n
  BY <1>1 DEF IInv, Exclusive
<1>5. \A d \in persisted : d.name # n
  BY <1>1 DEF IInv, Exclusive
<1>6. OwnedEnabled'
  <2>1. CASE UnlinkStep(p)
    BY <1>2, <2>1 DEF IInv, OwnedEnabled
  <2>2. CASE RmBackstoreStep(p)
    <3>1. ~Owns(p)'
      BY <2>2 DEF IInv, TypeOK, Owns, Launched, HasMount, Teardown
    <3> QED
      BY <1>2, <1>3, <1>4, <2>2, <3>1, OwnerFacts DEF IInv, OwnedEnabled
  <2> QED
    BY <2>1, <2>2
<1>7. HandleIsUp'
  BY <1>2, <1>3, <1>4, UsersOwn, OwnerFacts DEF IInv, HandleIsUp
<1>8. PersistedIsUp'
  BY <1>3, <1>5 DEF IInv, PersistedIsUp, TypeOK
<1>9. OursOnly' /\ OnePersisted' /\ Exclusive'
  BY <1>2 DEF IInv, OursOnly, OnePersisted, Exclusive, TypeOK
<1> QED
  BY <1>6, <1>7, <1>8, <1>9 DEF IInv

LEMMA NextIInv == IInv /\ [Next]_vars => IInv'
<1> SUFFICES ASSUME IInv, [Next]_vars PROVE IInv'
  OBVIOUS
<1>1. TypeOK'
  BY NextTypeOK DEF IInv
<1>2. ASSUME NEW p \in Actors, CallStep(p) \/ CallerStep(p) \/ Crash(p) PROVE IInv'
  BY <1>1, <1>2, FrameSteps, BeginUpIInv, EnableIInv, LinkIInv, PersistIInv,
     TeardownNamedIInv, RemoveIInv DEF CallStep, CallerStep
<1>3. CASE HostStep
  BY <1>1, <1>3, HostIInv
<1>4. CASE UNCHANGED vars
  BY <1>1, <1>4, StutterIInv
<1> QED
  BY <1>2, <1>3, <1>4 DEF Next, NextNoCrash

LEMMA Inductive == Spec => []IInv
  BY InitIInv, NextIInv, PTL DEF Spec

\* No two handles, and no handle and hand-off, own one backstore: with EEXIST
\* on `enable` as the only lock, for any interleaving of any number of
\* processes, killed at any point.
THEOREM ExclusiveOwnership == Spec => []Exclusive
  BY Inductive, PTL DEF IInv

\* A device a handle is used on stays enabled and linked, whatever other actors
\* do on the same names and nexuses.
THEOREM HandlesStayUp == Spec => []HandleIsUp
  BY Inductive, PTL DEF IInv

\* A device that was handed off stays up until it is taken down by name.
THEOREM PersistedStaysUp == Spec => []PersistedIsUp
  BY Inductive, PTL DEF IInv

-----------------------------------------------------------------------------
(* Other owners                                                            *)

LEMMA ForeignStep == TypeOK /\ OursOnly /\ [Next]_vars => ForeignKept
<1> SUFFICES ASSUME TypeOK, OursOnly, [Next]_vars PROVE ForeignKept
  OBVIOUS
<1> USE DEF ForeignKept, ForeignNames, ForeignNaas, Goto, tree
<1>1. \A p \in Actors :
         pc[p] # "idle" => dev[p].name \notin ForeignNames /\ dev[p].naa \notin ForeignNaas
  BY DEF OursOnly
<1>2. TreeTypeOK
  BY DEF TypeOK
<1>3. ASSUME NEW p \in Actors,
             CreateBackstore(p) \/ Configure(p) \/ EnableSucceeds(p) \/ RmBackstoreStep(p)
      PROVE  ForeignKept
  BY <1>1, <1>2, <1>3 DEF TreeTypeOK, CreateBackstore, MkdirBackstore, Configure,
     WriteDevConfig, EnableSucceeds, Enable, RmBackstoreStep, RmdirBackstore
<1>4. ASSUME NEW p \in Actors, CreateNexus(p) \/ RmNexusStep(p) PROVE ForeignKept
  BY <1>1, <1>2, <1>4 DEF TreeTypeOK, CreateNexus, MkdirNexus, RmNexusStep, RmdirNexus
<1>5. ASSUME NEW p \in Actors, Link(p) \/ UnlinkStep(p) PROVE ForeignKept
  BY <1>1, <1>2, <1>5 DEF TreeTypeOK, Link, LinkLun, UnlinkStep, RmSymlink
<1>6. ASSUME NEW p \in Actors, CallStep(p) \/ CallerStep(p) \/ Crash(p) PROVE ForeignKept
  BY <1>3, <1>4, <1>5, <1>6
     DEF CallStep, CallerStep, Crash, ResetResult, CreateHba, EnableAgain, UpFails,
         AwaitSuccess, LaunchRefused, LaunchTimesOut, WriteNexus, Resolve, OpenDir,
         OpenDirFails, Umount, UmountBusy, RmHbaStep, DropLive, BeginUp, Mount,
         MountFails, Subdir, DropSubdir, Unmount, DropMounted, Persist, Down,
         BeginTeardownNamed, TeardownNamed
<1>7. CASE HostStep
  BY <1>7 DEF HostStep, DaemonReports, OutsideEnters, OutsideLeaves, UnmountPath
<1>8. CASE UNCHANGED vars
  BY <1>8 DEF vars
<1> QED
  BY <1>6, <1>7, <1>8 DEF Next, NextNoCrash

\* Backstores and nexuses of other software are never touched: the DEV_PREFIX
\* check of Device::new and the prefix Device::new puts on every nexus suffice.
THEOREM ForeignStaysUntouched == Spec => ForeignUntouched
<1>1. IInv => TypeOK /\ OursOnly
  BY DEF IInv
<1> QED
  BY <1>1, Inductive, ForeignStep, PTL DEF Spec, ForeignUntouched

-----------------------------------------------------------------------------
(* Whose answer it is                                                      *)

\* The resultFile has been reset.
Awaiting == Launching \ {"reset"}

\* A launch that is not given up on is one its actor waits for; a resultFile
\* whose removal was tried holds its user's answer, one nobody waits for, or what
\* the failed removal left; what the daemon will find at `enable` is the config of
\* the up that wrote it.
AnswersAreOwn ==
    /\ \A j \in jobs : j.by \in Actors => pc[j.by] = "await" /\ dev[j.by].conf = j.conf
    /\ \A c \in Confs : result[c].ok => result[c].by # "none"
    /\ \A p \in Actors : pc[p] \in Launching => dev[p].conf \in Confs
    /\ \A p \in Actors :
          pc[p] \in Awaiting => result[dev[p].conf].by \in {"none", "late", "kept", p}
    /\ \A p \in Actors : pc[p] = "enable" => devcfg[dev[p].name] \in {dev[p].conf, NoConf}

LEMMA InitAnswers == Init => AnswersAreOwn
  BY DEF Init, AnswersAreOwn, NoResult, Launching, Awaiting

\* A step that answers, launches and configures nothing.
LEMMA AnswersFrame ==
  ASSUME TypeOK, AnswersAreOwn, jobs' = jobs, result' = result,
         \A q \in Actors : pc[q] = "await" => pc'[q] = "await" /\ dev'[q] = dev[q],
         \A q \in Actors : pc'[q] \in Launching =>
             /\ pc[q] \in Launching /\ dev'[q] = dev[q]
             /\ pc'[q] \in Awaiting => pc[q] \in Awaiting
             /\ pc'[q] = "enable" => pc[q] = "enable",
         \A n \in Names : devcfg'[n] \in {devcfg[n], NoConf}
  PROVE  AnswersAreOwn'
<1>1. \A q \in Actors : pc[q] = "enable" => dev[q].name \in Names /\ pc[q] \in Launching
  BY DEF TypeOK, Devices, Launching
<1>2. \A q \in Actors : pc'[q] \in Awaiting \/ pc'[q] = "enable" => pc'[q] \in Launching
  BY DEF Awaiting, Launching
<1> QED
  BY <1>1, <1>2 DEF AnswersAreOwn

\* What takes an answer, or stops waiting for one, leaves no launch of its own.
LEMMA GiveUpAnswers ==
  ASSUME TypeOK, AnswersAreOwn, NEW p \in Actors, GiveUp(p),
         pc'[p] \notin Launching, \A q \in Actors \ {p} : pc'[q] = pc[q],
         \A q \in Actors \ {p} : dev'[q] = dev[q], devcfg' = devcfg, result' = result
  PROVE  AnswersAreOwn'
<1>1. \A j \in jobs' : j.by \in Actors =>
          j.by # p /\ \E i \in jobs : i.by = j.by /\ i.conf = j.conf
  BY AnswerAssumption DEF GiveUp, TypeOK
<1>2. \A q \in Actors : pc'[q] \in Awaiting \/ pc'[q] = "enable" => pc'[q] \in Launching
  BY DEF Awaiting, Launching
<1>3. \A j \in jobs' : j.by \in Actors => pc'[j.by] = "await" /\ dev'[j.by].conf = j.conf
  BY <1>1 DEF AnswersAreOwn
<1> QED
  BY <1>2, <1>3 DEF AnswersAreOwn

\* The up before the daemon has its config.  The answer of another up is not
\* outdated by one that begins: they are not of the same config.
LEMMA ResetAnswers ==
  ASSUME TypeOK, AnswersAreOwn, OneUpEach, OneUpEach', NEW p \in Actors,
         BeginUp(p) \/ ResetResult(p) \/ Configure(p) \/ EnableSucceeds(p)
  PROVE  AnswersAreOwn'
<1> USE DEF Goto, TypeOK, daemon, tree, AnswersAreOwn, Launching, Awaiting, Devices
<1>1. CASE BeginUp(p)
  <2>1. PICK d \in [name : OurNames, naa : OurNaas, conf : Confs] :
           /\ dev' = [dev EXCEPT ![p] = d]
           /\ result' = [result EXCEPT ![d.conf] = Labelled(@, "old")]
    BY <1>1 DEF BeginUp
  <2>2. d.conf \in Confs /\ dev'[p] = d /\ pc'[p] = "reset" /\ pc[p] = "idle"
    BY <1>1, <2>1 DEF BeginUp
  <2>3. \A q \in Actors : q # p => pc'[q] = pc[q] /\ dev'[q] = dev[q]
    BY <1>1, <2>1 DEF BeginUp
  <2>4. \A q \in Actors : q # p /\ pc[q] \in Launching => dev[q].conf # d.conf
    BY <2>2, <2>3 DEF OneUpEach
  <2>5. \A c \in Confs :
           result'[c] = IF c = d.conf THEN Labelled(result[c], "old") ELSE result[c]
    BY <2>1, <2>2
  <2>6. \A c \in Confs : result'[c].ok => result'[c].by # "none"
    BY <2>5, LabelledContents
  <2>7. \A q \in Actors :
           pc'[q] \in Awaiting => result'[dev'[q].conf].by \in {"none", "late", "kept", q}
    BY <2>2, <2>3, <2>4, <2>5
  <2>8. UNCHANGED <<jobs, devcfg>>
    BY <1>1 DEF BeginUp
  <2>9. /\ \A q \in Actors : pc'[q] \in Launching => dev'[q].conf \in Confs
        /\ \A q \in Actors : pc'[q] = "enable" => devcfg'[dev'[q].name] \in {dev'[q].conf, NoConf}
    BY <2>2, <2>3, <2>8
  <2>10. \A j \in jobs' : j.by \in Actors => pc'[j.by] = "await" /\ dev'[j.by].conf = j.conf
    BY <2>2, <2>3, <2>8
  <2> QED
    BY <2>6, <2>7, <2>9, <2>10
<1>2. CASE ResetResult(p)
  <2>1. PICK r \in {NoResult, Labelled(result[dev[p].conf], "kept")} :
           result' = [result EXCEPT ![dev[p].conf] = r]
    BY <1>2 DEF ResetResult
  <2>2. /\ dev[p].conf \in Confs
        /\ \A c \in Confs : result'[c] = IF c = dev[p].conf THEN r ELSE result[c]
    BY <1>2, <2>1 DEF ResetResult
  <2>3. (r.ok => r.by # "none") /\ r.by \in {"none", "kept"}
    BY <2>2, NoResultContents, LabelledContents
  <2>4. \A q \in Actors : q # p /\ pc[q] \in Launching => dev[q].conf # dev[p].conf
    BY <1>2 DEF ResetResult, OneUpEach
  <2>5. /\ \A c \in Confs : result'[c].ok => result'[c].by # "none"
        /\ \A q \in Actors :
              pc'[q] \in Awaiting => result'[dev'[q].conf].by \in {"none", "late", "kept", q}
    BY <1>2, <2>2, <2>3, <2>4 DEF ResetResult
  <2> QED
    BY <1>2, <2>5 DEF ResetResult
<1>3. CASE Configure(p)
  <2>1. /\ dev[p].name \in Names /\ pc[p] = "configure"
        /\ devcfg' = [devcfg EXCEPT ![dev[p].name] = dev[p].conf]
    BY <1>3 DEF Configure, WriteDevConfig
  <2>2. \A q \in Actors : q # p /\ pc[q] = "enable" => dev[q].name # dev[p].name
    BY <2>1 DEF OneUpEach
  <2>3. \A q \in Actors : pc'[q] = "enable" => devcfg'[dev'[q].name] \in {dev'[q].conf, NoConf}
    BY <1>3, <2>1, <2>2 DEF Configure, TreeTypeOK
  <2> QED
    BY <1>3, <2>3 DEF Configure
<1>4. CASE EnableSucceeds(p)
  <2>1. /\ dev[p].name \in Names /\ pc[p] = "enable" /\ devcfg[dev[p].name] = dev[p].conf
        /\ jobs' = jobs \cup {[conf |-> dev[p].conf, by |-> p]}
    BY <1>4 DEF EnableSucceeds, Enable
  <2>2. \A j \in jobs' : j.by \in Actors => pc'[j.by] = "await" /\ dev'[j.by].conf = j.conf
    BY <1>4, <2>1 DEF EnableSucceeds
  <2> QED
    BY <1>4, <2>1, <2>2 DEF EnableSucceeds
<1> QED
  BY <1>1, <1>2, <1>3, <1>4

\* The daemon answers the launch of whoever waits for it.
LEMMA DaemonAnswers ==
  ASSUME TypeOK, AnswersAreOwn, OneUpEach, DaemonReports
  PROVE  AnswersAreOwn'
<1> USE DEF TypeOK, tree, handles, Launching, Awaiting
<1>1. PICK j \in jobs, ok \in BOOLEAN :
         /\ result' = [result EXCEPT ![j.conf] = [by |-> j.by, ok |-> ok]]
         /\ jobs' = jobs \ {j}
         /\ UNCHANGED <<tree, handles, sub, persisted, outside>>
  BY DEF DaemonReports
<1>2. j.conf \in Confs /\ j.by \in Actors \cup {"late"} /\ j.by # "none"
  BY AnswerAssumption
<1>3. \A q \in Actors : pc[q] \in Awaiting /\ dev[q].conf = j.conf => j.by \in {"late", q}
  BY <1>2 DEF AnswersAreOwn, OneUpEach
<1>4. \A c \in Confs : result'[c] = IF c = j.conf THEN [by |-> j.by, ok |-> ok] ELSE result[c]
  BY <1>1, <1>2
<1>5. \A q \in Actors : pc'[q] \in Awaiting => result'[dev'[q].conf].by \in {"none", "late", "kept", q}
  BY <1>1, <1>3, <1>4 DEF AnswersAreOwn
<1> QED
  BY <1>1, <1>2, <1>4, <1>5 DEF AnswersAreOwn

LEMMA AnswersStep ==
  TypeOK /\ OneUpEach /\ OneUpEach' /\ AnswersAreOwn /\ [Next]_vars => AnswersAreOwn'
<1> SUFFICES ASSUME TypeOK, OneUpEach, OneUpEach', AnswersAreOwn, [Next]_vars
             PROVE  AnswersAreOwn'
  OBVIOUS
<1> USE DEF Goto, tree, handles, daemon, Launching, Awaiting
<1>0. pc \in [Actors -> PCs] /\ dev \in [Actors -> Devices \cup {NoDevice}]
  BY DEF TypeOK
<1>1. ASSUME NEW p \in Actors,
             \/ CreateHba(p) \/ CreateBackstore(p) \/ EnableAgain(p) \/ UpFails(p)
             \/ CreateNexus(p) \/ WriteNexus(p) \/ Link(p) \/ Resolve(p)
      PROVE  AnswersAreOwn'
  BY <1>0, <1>1, AnswersFrame DEF CreateHba, CreateBackstore, EnableAgain, UpFails,
     Fallible, Release, CreateNexus, WriteNexus, Link, Resolve
<1>2. ASSUME NEW p \in Actors,
             \/ OpenDir(p) \/ OpenDirFails(p) \/ Umount(p) \/ UmountBusy(p) \/ DropLive(p)
             \/ Mount(p) \/ MountFails(p) \/ Subdir(p) \/ DropSubdir(p)
             \/ Unmount(p) \/ DropMounted(p) \/ Persist(p) \/ Down(p)
      PROVE  AnswersAreOwn'
  BY <1>0, <1>2, AnswersFrame DEF OpenDir, OpenDirFails, Umount, UmountBusy, DropLive,
     Release, Mount, MountFails, Subdir, DropSubdir, Unmount, DropMounted, Persist, Down
<1>3. ASSUME NEW p \in Actors,
             \/ BeginTeardownNamed(p) \/ UnlinkStep(p) \/ RmNexusStep(p)
             \/ RmBackstoreStep(p) \/ RmHbaStep(p)
      PROVE  AnswersAreOwn'
  <2>1. TreeTypeOK
    BY DEF TypeOK
  <2>2. \A n \in Names : devcfg'[n] \in {devcfg[n], NoConf}
    BY <1>3, <2>1 DEF TreeTypeOK, BeginTeardownNamed, TeardownNamed, UnlinkStep, RmNexusStep,
       RmBackstoreStep, RmdirBackstore, RmHbaStep
  <2> QED
    BY <1>0, <1>3, <2>2, AnswersFrame DEF BeginTeardownNamed, TeardownNamed, UnlinkStep,
       RmNexusStep, RmBackstoreStep, RmHbaStep
<1>4. ASSUME NEW p \in Actors,
             AwaitSuccess(p) \/ LaunchRefused(p) \/ LaunchTimesOut(p) \/ Crash(p)
      PROVE  AnswersAreOwn'
  BY <1>0, <1>4, GiveUpAnswers DEF AwaitSuccess, LaunchRefused, LaunchTimesOut, Crash, Release
<1>5. CASE HostStep
  BY <1>5, AnswersFrame, DaemonAnswers DEF HostStep, OutsideEnters, OutsideLeaves, UnmountPath
<1>6. CASE UNCHANGED vars
  BY <1>6, AnswersFrame DEF vars
<1> QED
  BY <1>1, <1>2, <1>3, <1>4, <1>5, <1>6, ResetAnswers
     DEF Next, NextNoCrash, CallStep, CallerStep

\* The steps OwnResult is about.
LEMMA AnswerIsOwn ==
  ASSUME TypeOK, AnswersAreOwn, NEW p \in Actors, AwaitSuccess(p) \/ LaunchRefused(p)
  PROVE  result[dev[p].conf].by \in {p, "late", "kept"}
<1>1. pc[p] = "await" /\ (result[dev[p].conf].ok \/ result[dev[p].conf].by # "none")
  BY DEF AwaitSuccess, LaunchRefused, Goto
<1>2. dev[p].conf \in Confs /\ result[dev[p].conf].by \in {"none", "late", "kept", p}
  BY <1>1 DEF AnswersAreOwn, Awaiting, Launching
<1> QED
  BY <1>1, <1>2 DEF AnswersAreOwn

\* An up acts on nothing that was in the resultFile before it began, unless it
\* could not be removed, and on no answer to a launch another up waits for: for
\* any number of actors, killed at any point, with ups that time out, removals
\* that fail and daemons that answer late, as long as the callers keep name and
\* config of the ups under way apart.
THEOREM AnswersAreNotReused == Spec /\ []OneUpEach => OwnResult
<1>1. TypeOK /\ AnswersAreOwn /\ [Next]_vars =>
        [\A p \in Actors :
           AwaitSuccess(p) \/ LaunchRefused(p)
              => result[dev[p].conf].by \in {p, "late", "kept"}]_vars
  BY AnswerIsOwn
<1> QED
  BY <1>1, InitTypeOK, NextTypeOK, InitAnswers, AnswersStep, PTL DEF Spec, OwnResult

-----------------------------------------------------------------------------
(* What a teardown has to unlink                                           *)

\* A link is to a live backstore, and the one name an owner, or a hand-off, has
\* is linked in its own nexus only.
LinksOwned ==
    /\ \A a \in Naas : lun[a] # NoName => backstore[lun[a]] = "enabled"
    /\ \A p \in Actors, a \in Naas : Owns(p) /\ lun[a] = dev[p].name => a = dev[p].naa
    /\ \A d \in persisted, a \in Naas : lun[a] = d.name => a = d.naa

LEMMA InitLinks == Init => LinksOwned
<1> SUFFICES ASSUME Init PROVE LinksOwned
  OBVIOUS
<1>1. \A a \in Naas : lun[a] # NoName => backstore[lun[a]] = "enabled"
  <2>1. lun \in [Naas -> ForeignNames \cup {NoName}]
    BY DEF Init, TreeInit
  <2>2. \A n \in ForeignNames : backstore[n] = "enabled"
    BY DEF Init, TreeInit, ForeignNames
  <2> QED
    BY <2>1, <2>2
<1>2. persisted = {} /\ \A p \in Actors : ~Owns(p)
  BY DEF Init, Owns, Launched, HasMount, Teardown
<1> QED
  BY <1>1, <1>2 DEF LinksOwned

\* A step that links nothing and gives no actor an ownership.
LEMMA LinksFrame ==
  ASSUME IInv, LinksOwned, persisted' = persisted,
         \A a \in Naas : lun'[a] # NoName =>
             /\ lun'[a] = lun[a]
             /\ backstore[lun[a]] = "enabled" => backstore'[lun[a]] = "enabled",
         \A q \in Actors : Owns(q)' => Owns(q) /\ dev'[q] = dev[q]
  PROVE  LinksOwned'
<1>1. \A q \in Actors : Owns(q) => dev[q].name # NoName
  BY OwnerFacts
<1>2. \A d \in persisted : d.name # NoName
  BY DEF IInv, TypeOK
<1> QED
  BY <1>1, <1>2 DEF LinksOwned

\* The steps that leave links and live backstores alone.
LEMMA LinksStay ==
  ASSUME IInv, LinksOwned, NEW p \in Actors,
         \/ ResetResult(p) \/ CreateHba(p) \/ CreateBackstore(p) \/ Configure(p)
         \/ EnableAgain(p) \/ UpFails(p) \/ AwaitSuccess(p) \/ LaunchRefused(p)
         \/ LaunchTimesOut(p) \/ CreateNexus(p) \/ WriteNexus(p) \/ Resolve(p)
         \/ OpenDir(p) \/ OpenDirFails(p) \/ Umount(p) \/ UmountBusy(p)
         \/ RmNexusStep(p) \/ RmHbaStep(p) \/ DropLive(p) \/ BeginUp(p)
         \/ Mount(p) \/ MountFails(p) \/ Subdir(p) \/ DropSubdir(p)
         \/ Unmount(p) \/ DropMounted(p) \/ Down(p) \/ Crash(p)
  PROVE  LinksOwned'
<1> USE DEF Goto, Release, tree, handles, Owns, Launched, HasMount, Teardown, Fallible
<1>1. /\ pc \in [Actors -> PCs] /\ dev \in [Actors -> Devices \cup {NoDevice}]
      /\ armed \in [Actors -> BOOLEAN] /\ backstore \in [Names -> {"absent", "made", "enabled"}]
      /\ lun \in [Naas -> Names \cup {NoName}]
  BY DEF IInv, TypeOK, TreeTypeOK
<1>2. /\ lun' = lun /\ persisted' = persisted
      /\ \A n \in Names : backstore[n] = "enabled" => backstore'[n] = "enabled"
  BY <1>1 DEF ResetResult, CreateHba, CreateBackstore, MkdirBackstore, Configure,
     EnableAgain, UpFails, AwaitSuccess, LaunchRefused, LaunchTimesOut, CreateNexus,
     WriteNexus, Resolve, OpenDir, OpenDirFails, Umount, UmountBusy, RmNexusStep,
     RmHbaStep, DropLive, BeginUp, Mount, MountFails, Subdir, DropSubdir, Unmount,
     DropMounted, Down, Crash
<1>3. CASE \/ ResetResult(p) \/ CreateHba(p) \/ CreateBackstore(p) \/ Configure(p)
           \/ EnableAgain(p) \/ UpFails(p) \/ AwaitSuccess(p) \/ LaunchRefused(p)
           \/ LaunchTimesOut(p) \/ CreateNexus(p) \/ WriteNexus(p) \/ Resolve(p)
  BY <1>1, <1>2, <1>3, LinksFrame
     DEF ResetResult, CreateHba, CreateBackstore, Configure, EnableAgain, UpFails,
         AwaitSuccess, LaunchRefused, LaunchTimesOut, CreateNexus, WriteNexus, Resolve
<1>4. CASE \/ OpenDir(p) \/ OpenDirFails(p) \/ Umount(p) \/ UmountBusy(p)
           \/ RmNexusStep(p) \/ RmHbaStep(p) \/ DropLive(p) \/ BeginUp(p)
  BY <1>1, <1>2, <1>4, LinksFrame
     DEF OpenDir, OpenDirFails, Umount, UmountBusy, RmNexusStep, RmHbaStep, DropLive, BeginUp
<1>5. CASE \/ Mount(p) \/ MountFails(p) \/ Subdir(p) \/ DropSubdir(p)
           \/ Unmount(p) \/ DropMounted(p) \/ Down(p) \/ Crash(p)
  BY <1>1, <1>2, <1>5, LinksFrame
     DEF Mount, MountFails, Subdir, DropSubdir, Unmount, DropMounted, Down, Crash
<1> QED
  BY <1>3, <1>4, <1>5

\* The steps that change links, live backstores or who owns them.
LEMMA LinksStep == IInv /\ LinksOwned /\ [Next]_vars => LinksOwned'
<1> SUFFICES ASSUME IInv, LinksOwned, [Next]_vars PROVE LinksOwned'
  OBVIOUS
<1> USE DEF Goto, tree, handles
<1>0. /\ pc \in [Actors -> PCs] /\ dev \in [Actors -> Devices \cup {NoDevice}]
      /\ armed \in [Actors -> BOOLEAN] /\ backstore \in [Names -> {"absent", "made", "enabled"}]
      /\ lun \in [Naas -> Names \cup {NoName}] /\ persisted \subseteq [name : Names, naa : Naas]
  BY DEF IInv, TypeOK, TreeTypeOK
<1>1. ASSUME NEW p \in Actors, EnableSucceeds(p) PROVE LinksOwned'
  <2>1. dev[p].name \in Names /\ backstore[dev[p].name] = "made"
    BY <1>0, <1>1 DEF EnableSucceeds, Enable, IInv, TypeOK, Devices
  <2>2. /\ lun' = lun /\ persisted' = persisted /\ dev' = dev
        /\ \A n \in Names : backstore[n] = "enabled" => backstore'[n] = "enabled"
        /\ \A q \in Actors : Owns(q)' => Owns(q) \/ q = p
    BY <1>0, <1>1 DEF EnableSucceeds, Enable, Owns
  <2>3. \A a \in Naas : lun[a] # dev[p].name
    BY <2>1 DEF LinksOwned
  <2> QED
    BY <1>0, <2>2, <2>3 DEF LinksOwned
<1>2. ASSUME NEW p \in Actors, Link(p) PROVE LinksOwned'
  <2>1. /\ Owns(p) /\ dev[p].name \in Names /\ dev[p].naa \in Naas
        /\ backstore[dev[p].name] = "enabled"
    BY <1>2, OwnerFacts DEF Link, Owns, Launched
  <2>2. /\ lun' = [lun EXCEPT ![dev[p].naa] = dev[p].name]
        /\ backstore' = backstore /\ persisted' = persisted /\ dev' = dev
    BY <1>2 DEF Link, LinkLun
  <2>3. \A q \in Actors : Owns(q)' => Owns(q)
    BY <1>0, <1>2, <2>1 DEF Link, Owns
  <2>4. \A q \in Actors : Owns(q) /\ dev[q].name = dev[p].name => q = p
    BY <2>1 DEF IInv, Exclusive
  <2>5. \A d \in persisted : d.name # dev[p].name
    BY <2>1 DEF IInv, Exclusive
  <2> QED
    BY <1>0, <2>1, <2>2, <2>3, <2>4, <2>5 DEF LinksOwned
<1>3. ASSUME NEW p \in Actors, Persist(p) PROVE LinksOwned'
  <2>1. Owns(p)
    BY <1>3 DEF Persist, Owns, HasMount
  <2>2. /\ lun' = lun /\ backstore' = backstore /\ dev' = dev
        /\ persisted' = persisted \cup {[name |-> dev[p].name, naa |-> dev[p].naa]}
    BY <1>3 DEF Persist
  <2>3. \A q \in Actors : Owns(q)' => Owns(q)
    BY <1>0, <1>3 DEF Persist, Owns, Launched, HasMount, Teardown
  <2> QED
    BY <2>1, <2>2, <2>3 DEF LinksOwned
<1>4. ASSUME NEW p \in Actors, BeginTeardownNamed(p) PROVE LinksOwned'
  <2>1. PICK d \in persisted : TeardownNamed(p, d.name, d.naa)
    BY <1>4 DEF BeginTeardownNamed
  <2>2. /\ lun' = lun /\ backstore' = backstore /\ persisted' \subseteq persisted
        /\ dev'[p].name = d.name /\ dev'[p].naa = d.naa
    BY <1>0, <2>1 DEF TeardownNamed
  <2>3. \A q \in Actors : Owns(q)' => (Owns(q) /\ dev'[q] = dev[q]) \/ q = p
    BY <1>0, <2>1 DEF TeardownNamed, Owns
  <2> QED
    BY <2>1, <2>2, <2>3 DEF LinksOwned
<1>5. ASSUME NEW p \in Actors, UnlinkStep(p) \/ RmBackstoreStep(p) PROVE LinksOwned'
  <2>1. \A q \in Actors : Owns(q)' => Owns(q) /\ dev'[q] = dev[q]
    BY <1>0, <1>5 DEF UnlinkStep, RmBackstoreStep, Owns, Launched, HasMount, Teardown
  <2>2. \A a \in Naas : lun'[a] # NoName =>
            /\ lun'[a] = lun[a]
            /\ backstore[lun[a]] = "enabled" => backstore'[lun[a]] = "enabled"
    BY <1>0, <1>5 DEF UnlinkStep, RmSymlink, RmBackstoreStep, RmdirBackstore, IsLinked
  <2> QED
    BY <1>5, <2>1, <2>2, LinksFrame DEF UnlinkStep, RmBackstoreStep
<1>6. CASE HostStep
  BY <1>6, LinksFrame DEF HostStep, DaemonReports, OutsideEnters, OutsideLeaves, UnmountPath, Owns
<1>7. CASE UNCHANGED vars
  BY <1>7, LinksFrame DEF vars, Owns
<1> QED
  BY <1>1, <1>2, <1>3, <1>4, <1>5, <1>6, <1>7, LinksStay
     DEF Next, NextNoCrash, CallStep, CallerStep

\* One step, and one owner that is tearing its device down.
LEMMA UnpinsStep ==
  ASSUME IInv, LinksOwned, Next, NEW p \in Actors, NEW n \in Names,
         pc[p] \in Teardown \ {"td_hba"}, dev[p].name = n
  PROVE  /\ UnlinkStep(p) /\ ~IsMounted(n) => ~IsLinked(n)'
         /\ pc[p] # "td_link" /\ ~IsLinked(n) => ~IsLinked(n)'
         /\ RmBackstoreStep(p) /\ ~IsLinked(n) => backstore'[n] = "absent"
<1> USE DEF IsLinked
<1>0. /\ lun \in [Naas -> Names \cup {NoName}] /\ backstore \in [Names -> {"absent", "made", "enabled"}]
      /\ Owns(p) /\ n # NoName
  BY DEF IInv, TypeOK, TreeTypeOK, Owns
<1>1. ASSUME UnlinkStep(p), ~IsMounted(n) PROVE ~IsLinked(n)'
  <2>1. \A a \in Naas : lun[a] = n => a = dev[p].naa
    BY <1>0 DEF LinksOwned
  <2>2. lun' = [lun EXCEPT ![dev[p].naa] = IF @ = n /\ ~IsMounted(n) THEN NoName ELSE @]
    BY <1>1 DEF UnlinkStep, RmSymlink
  <2> QED
    BY <1>0, <1>1, <2>1, <2>2
<1>2. ASSUME ~IsLinked(n) PROVE ~IsLinked(n)'
  <2>1. ASSUME NEW q \in Actors, Link(q) PROVE ~IsLinked(n)'
    <3>1. Owns(q) /\ q # p
      BY <2>1 DEF Link, Goto, Owns, Launched, Teardown
    <3>2. dev[q].name # n
      BY <1>0, <3>1 DEF IInv, Exclusive
    <3> QED
      BY <1>0, <1>2, <2>1, <3>2 DEF Link, LinkLun
  <2>2. ASSUME NEW q \in Actors, UnlinkStep(q) PROVE ~IsLinked(n)'
    BY <1>0, <1>2, <2>2 DEF UnlinkStep, RmSymlink
  <2>3. ASSUME NEW q \in Actors, CallStep(q) \/ CallerStep(q) \/ Crash(q) PROVE ~IsLinked(n)'
    BY <1>2, <2>1, <2>2, <2>3
       DEF CallStep, CallerStep, Crash, tree, ResetResult, CreateHba, CreateBackstore,
           Configure, EnableSucceeds, EnableAgain, UpFails, AwaitSuccess, LaunchRefused,
           LaunchTimesOut, CreateNexus, WriteNexus, Resolve, OpenDir, OpenDirFails, Umount,
           UmountBusy, RmNexusStep, RmBackstoreStep, RmHbaStep, DropLive, BeginUp, Mount,
           MountFails, Subdir, DropSubdir, Unmount, DropMounted, Persist, Down,
           BeginTeardownNamed, TeardownNamed
  <2>4. CASE HostStep
    BY <1>2, <2>4 DEF HostStep, DaemonReports, OutsideEnters, OutsideLeaves, UnmountPath, tree
  <2> QED
    BY <2>3, <2>4 DEF Next, NextNoCrash
<1>3. ASSUME RmBackstoreStep(p), ~IsLinked(n) PROVE backstore'[n] = "absent"
  BY <1>0, <1>3 DEF RmBackstoreStep, RmdirBackstore
<1> QED
  BY <1>1, <1>2, <1>3

\* A teardown by its owner finds every link there is and nobody makes another:
\* whatever the other actors do, an unmounted device goes (device.rs:366,
\* configfs.rs:397).  That the teardown gets there is what TLC checks.
THEOREM TeardownFindsEveryLink == Spec => TeardownUnpins
<1>1. IInv /\ LinksOwned /\ [Next]_vars =>
          [\A p \in Actors, n \in Names :
              pc[p] \in Teardown \ {"td_hba"} /\ dev[p].name = n =>
                  /\ UnlinkStep(p) /\ ~IsMounted(n) => ~IsLinked(n)'
                  /\ pc[p] # "td_link" /\ ~IsLinked(n) => ~IsLinked(n)'
                  /\ RmBackstoreStep(p) /\ ~IsLinked(n) => backstore'[n] = "absent"]_vars
  BY UnpinsStep
<1> QED
  BY <1>1, Inductive, InitLinks, LinksStep, PTL DEF Spec, TeardownUnpins

-----------------------------------------------------------------------------
(* How long a call takes                                                   *)

LEMMA LeftAt ==
    /\ Left["idle"] = 0 /\ Left["live"] = 0 /\ Left["mounted"] = 0
    /\ Left["resolve"] = 1 /\ Left["link"] = 2 /\ Left["nexus"] = 3 /\ Left["mk_lun"] = 4
    /\ Left["mk_tpgt"] = 5 /\ Left["mk_naa"] = 6 /\ Left["await"] = 8
    /\ Left["enable"] = 8 + EnableTries /\ Left["configure"] = 9 + EnableTries
    /\ Left["mk_bs"] = 10 + EnableTries /\ Left["mk_hba"] = 11 + EnableTries
    /\ Left["reset"] = 12 + EnableTries
    /\ Left["drop"] = 1 /\ Left["td_hba"] = 2 /\ Left["td_bs"] = 3 /\ Left["td_naa"] = 4
    /\ Left["td_tpgt"] = 5 /\ Left["td_lun"] = 6 /\ Left["td_link"] = 7
    /\ Left["opendir"] = 9 /\ Left["drop_mounted"] = 8 + UnmountTries
    /\ Left["unmount"] = 8 + 2 * UnmountTries
  BY DEF Left

LEMMA LoopFacts ==
    ASSUME TypeOK, NEW p \in Actors
    PROVE  /\ tries[p] \in Nat /\ armed[p] \in BOOLEAN /\ pc[p] \in PCs
           /\ pc[p] = "enable" => tries[p] < EnableTries
           /\ pc[p] \in {"unmount", "drop_mounted"} => tries[p] < UnmountTries
           /\ pc[p] \notin {"enable", "unmount", "drop_mounted"} => tries[p] = 0
           /\ EnableTries \in Nat /\ UnmountTries \in Nat
<1>1. tries[p] \in Nat /\ armed[p] \in BOOLEAN /\ pc[p] \in PCs /\ tries[p] < TriesAllowed(pc[p])
  BY DEF TypeOK
<1> QED
  BY <1>1 DEF TriesAllowed

LEMMA SomeLeft ==
    ASSUME TypeOK, NEW p \in Actors
    PROVE  StepsLeft(p) \in Nat
  BY LoopFacts, LeftAt DEF StepsLeft, PCs, Fallible, HasMount, Teardown

LEMMA SomeLeftAfter ==
    ASSUME TypeOK', NEW p \in Actors
    PROVE  StepsLeft(p)' \in Nat
<1>1. /\ tries'[p] \in Nat /\ armed'[p] \in BOOLEAN /\ pc'[p] \in PCs
      /\ tries'[p] < TriesAllowed(pc'[p])
  BY DEF TypeOK
<1> QED
  BY <1>1, LeftAt DEF StepsLeft, TriesAllowed, PCs, Fallible, HasMount, Teardown

\* A step of the call itself, one action at a time.
LEMMA StepShortens ==
    ASSUME TypeOK, NEW p \in Actors, CallStep(p)
    PROVE  StepsLeft(p)' < StepsLeft(p)
<1> USE LoopFacts, LeftAt DEF StepsLeft, Goto
<1>0. /\ pc \in [Actors -> PCs] /\ tries \in [Actors -> Nat] /\ armed \in [Actors -> BOOLEAN]
  BY DEF TypeOK
<1>1. CASE ResetResult(p) \/ CreateHba(p) \/ CreateBackstore(p) \/ Configure(p)
  BY <1>0, <1>1 DEF ResetResult, CreateHba, CreateBackstore, Configure
<1>2. CASE EnableSucceeds(p)
  BY <1>0, <1>2 DEF EnableSucceeds
<1>3. CASE EnableAgain(p)
  BY <1>0, <1>3 DEF EnableAgain
<1>4. CASE UpFails(p)
  BY <1>0, <1>4 DEF UpFails, Release, Fallible
<1>5. CASE AwaitSuccess(p) \/ LaunchRefused(p) \/ LaunchTimesOut(p)
  BY <1>0, <1>5 DEF AwaitSuccess, LaunchRefused, LaunchTimesOut
<1>6. CASE CreateNexus(p) \/ WriteNexus(p) \/ Link(p) \/ Resolve(p)
  BY <1>0, <1>6 DEF CreateNexus, WriteNexus, Link, Resolve
<1>7. CASE OpenDir(p) \/ OpenDirFails(p)
  BY <1>0, <1>7 DEF OpenDir, OpenDirFails
<1>8. CASE Umount(p)
  BY <1>0, <1>8 DEF Umount
<1>9. CASE UmountBusy(p)
  <2>1. CASE tries[p] + 1 < UnmountTries
    BY <1>0, <1>9, <2>1 DEF UmountBusy
  <2>2. CASE ~(tries[p] + 1 < UnmountTries)
    BY <1>0, <1>9, <2>2 DEF UmountBusy
  <2> QED
    BY <2>1, <2>2
<1>10. CASE UnlinkStep(p) \/ RmNexusStep(p) \/ RmBackstoreStep(p) \/ RmHbaStep(p)
  BY <1>0, <1>10 DEF UnlinkStep, RmNexusStep, RmBackstoreStep, RmHbaStep
<1>11. CASE pc[p] = "drop" /\ DropLive(p)
  BY <1>0, <1>11 DEF DropLive, Release
<1> QED
  BY <1>1, <1>2, <1>3, <1>4, <1>5, <1>6, <1>7, <1>8, <1>9, <1>10, <1>11 DEF CallStep

\* A step of anybody else, and one of the caller.
LEMMA OthersDoNotProlong ==
    ASSUME TypeOK, NEW p \in Actors, pc[p] \notin AtRest, Next, ~CallStep(p)
    PROVE  StepsLeft(p)' =< StepsLeft(p)
<1>0. /\ pc \in [Actors -> PCs] /\ tries \in [Actors -> Nat] /\ armed \in [Actors -> BOOLEAN]
      /\ StepsLeft(p) \in Nat
  BY SomeLeft DEF TypeOK
<1>1. ASSUME UNCHANGED <<pc[p], tries[p], armed[p]>> PROVE StepsLeft(p)' =< StepsLeft(p)
  BY <1>0, <1>1 DEF StepsLeft
<1>2. ASSUME NEW q \in Actors, q # p, CallStep(q) PROVE UNCHANGED <<pc[p], tries[p], armed[p]>>
  BY <1>0, <1>2 DEF CallStep, Goto, Release, handles,
     ResetResult, CreateHba, CreateBackstore, Configure, EnableSucceeds, EnableAgain,
     UpFails, AwaitSuccess, LaunchRefused, LaunchTimesOut, CreateNexus, WriteNexus, Link,
     Resolve, OpenDir, OpenDirFails, Umount, UmountBusy, UnlinkStep, RmNexusStep,
     RmBackstoreStep, RmHbaStep, DropLive
<1>3. ASSUME NEW q \in Actors, CallerStep(q) PROVE UNCHANGED <<pc[p], tries[p], armed[p]>>
  BY <1>0, <1>3 DEF CallerStep, Goto, Release, handles, AtRest,
     BeginUp, Mount, MountFails, Subdir, DropSubdir, Unmount, DropMounted, Persist, Down,
     DropLive, BeginTeardownNamed, TeardownNamed
<1>4. CASE HostStep
  BY <1>1, <1>4 DEF HostStep, DaemonReports, OutsideEnters, OutsideLeaves, UnmountPath, handles
<1>5. ASSUME NEW q \in Actors, Crash(q) PROVE StepsLeft(p)' =< StepsLeft(p)
  <2>1. CASE q = p
    BY <1>0, <1>5, <2>1, LeftAt DEF Crash, Release, StepsLeft
  <2>2. CASE q # p
    BY <1>0, <1>1, <1>5, <2>2 DEF Crash, Release
  <2> QED
    BY <2>1, <2>2
<1> QED
  BY <1>1, <1>2, <1>3, <1>4, <1>5 DEF Next, NextNoCrash

\* A call of the library takes a bounded number of steps of its own, whatever
\* others do meanwhile: its loops run out, and no Drop on the way out starts a
\* teardown again (configfs.rs:81, 364, device.rs:381, 518, 617).
THEOREM CallsEnd == Spec => CallsAreBounded
<1>1. TypeOK /\ [Next]_vars =>
          [\A p \in Actors :
              /\ CallStep(p) => StepsLeft(p)' < StepsLeft(p)
              /\ pc[p] \notin AtRest => StepsLeft(p)' =< StepsLeft(p)]_vars
  <2> SUFFICES ASSUME TypeOK, Next, NEW p \in Actors
               PROVE  /\ CallStep(p) => StepsLeft(p)' < StepsLeft(p)
                      /\ pc[p] \notin AtRest => StepsLeft(p)' =< StepsLeft(p)
    OBVIOUS
  <2>1. StepsLeft(p) \in Nat /\ StepsLeft(p)' \in Nat
    BY NextTypeOK, SomeLeft, SomeLeftAfter
  <2> QED
    BY <2>1, StepShortens, OthersDoNotProlong
<1> QED
  BY <1>1, TypeCorrect, PTL DEF Spec, CallsAreBounded

=============================================================================
