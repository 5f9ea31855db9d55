---------------------------- MODULE CleanupProofs ----------------------------
(***************************************************************************)
(* For any actors, names, nexuses and mountpoints: a sweep leaves foreign  *)
(* entries alone whatever goes on next to it, and one that nobody          *)
(* interferes with leaves nothing of ours.  IInv of DeviceLifecycleProofs  *)
(* does not hold next to a sweep, which takes devices from under their     *)
(* handles; what does is the shape of the tree.                            *)
(***************************************************************************)
EXTENDS Cleanup, DeviceLifecycleProofs

USE CleanupAssumption

-----------------------------------------------------------------------------
(* What the actors keep                                                    *)

\* A link lies in a complete nexus, a backstore under an HBA; foreign entries are
\* complete and link to no name of ours.
TreeShape ==
    /\ \A a \in Naas : nexus[a] < 3 => lun[a] = NoName
    /\ \A n \in Names : backstore[n] # "absent" => hba
    /\ \A n \in ForeignNames : backstore[n] = "enabled"
    /\ \A a \in ForeignNaas : lun[a] \in ForeignNames \cup {NoName}

LEMMA InitShape == Init => OursOnly /\ TreeShape
<1> SUFFICES ASSUME Init PROVE OursOnly /\ TreeShape
  OBVIOUS
<1> USE DEF Init, TreeInit, ForeignNames, ForeignNaas
<1>1. OursOnly
  BY DEF OursOnly
<1>2. \A a \in Naas : nexus[a] < 3 => lun[a] = NoName
  BY SMT
<1>3. \A n \in Names : backstore[n] # "absent" => hba
  OBVIOUS
<1>4. /\ \A n \in ForeignNames : backstore[n] = "enabled"
      /\ \A a \in ForeignNaas : lun[a] \in ForeignNames \cup {NoName}
  OBVIOUS
<1> QED
  BY <1>1, <1>2, <1>3, <1>4 DEF TreeShape

\* Devices come from Device::new, or by name out of the hand-off.
LEMMA OursOnlyStep == TypeOK /\ OursOnly /\ [Next]_vars => OursOnly'
<1> SUFFICES ASSUME TypeOK, OursOnly, [Next]_vars PROVE OursOnly'
  OBVIOUS
<1> USE DEF OursOnly, Goto, tree, handles, daemon
<1>1. ASSUME NEW p \in Actors, BeginUp(p) PROVE OursOnly'
  BY <1>1 DEF BeginUp, TypeOK
<1>2. ASSUME NEW p \in Actors, BeginTeardownNamed(p) PROVE OursOnly'
  BY <1>2 DEF BeginTeardownNamed, TeardownNamed, TypeOK
<1>3. ASSUME NEW p \in Actors, Persist(p) PROVE OursOnly'
  BY <1>3 DEF Persist, TypeOK
<1>4. ASSUME persisted' = persisted,
             \A q \in Actors : pc'[q] # "idle" => pc[q] # "idle" /\ dev'[q] = dev[q]
      PROVE  OursOnly'
  BY <1>4
<1>5. ASSUME NEW p \in Actors,
             \/ ResetResult(p) \/ CreateHba(p) \/ CreateBackstore(p) \/ Configure(p)
             \/ EnableSucceeds(p) \/ EnableAgain(p) \/ UpFails(p)
             \/ AwaitSuccess(p) \/ LaunchRefused(p) \/ LaunchTimesOut(p)
      PROVE  OursOnly'
  BY <1>4, <1>5 DEF TypeOK, ResetResult, CreateHba, CreateBackstore, Configure,
     EnableSucceeds, EnableAgain, UpFails, Fallible, Release, AwaitSuccess, LaunchRefused,
     LaunchTimesOut
<1>6. ASSUME NEW p \in Actors,
             \/ CreateNexus(p) \/ WriteNexus(p) \/ Link(p) \/ Resolve(p)
             \/ OpenDir(p) \/ OpenDirFails(p) \/ Umount(p) \/ UmountBusy(p)
             \/ UnlinkStep(p) \/ RmNexusStep(p) \/ RmBackstoreStep(p) \/ RmHbaStep(p)
      PROVE  OursOnly'
  BY <1>4, <1>6 DEF TypeOK, CreateNexus, WriteNexus, Link, Resolve, OpenDir, OpenDirFails,
     Umount, UmountBusy, UnlinkStep, RmNexusStep, RmBackstoreStep, RmHbaStep
<1>7. ASSUME NEW p \in Actors,
             \/ DropLive(p) \/ Mount(p) \/ MountFails(p) \/ Subdir(p) \/ DropSubdir(p)
             \/ Unmount(p) \/ DropMounted(p) \/ Down(p) \/ Crash(p)
      PROVE  OursOnly'
  BY <1>4, <1>7 DEF TypeOK, DropLive, Release, Mount, MountFails, Subdir, DropSubdir,
     Unmount, DropMounted, Down, Crash
<1>8. CASE HostStep
  BY <1>8 DEF HostStep, DaemonReports, OutsideEnters, OutsideLeaves, UnmountPath
<1>9. CASE UNCHANGED vars
  BY <1>9 DEF vars
<1> QED
  BY <1>1, <1>2, <1>3, <1>5, <1>6, <1>7, <1>8, <1>9
     DEF Next, NextNoCrash, CallStep, CallerStep

LEMMA TreeShapeStep == TypeOK /\ OursOnly /\ TreeShape /\ [Next]_vars => TreeShape'
<1> SUFFICES ASSUME TypeOK, OursOnly, TreeShape, [Next]_vars PROVE TreeShape'
  OBVIOUS
<1>0. ForeignKept
  BY ForeignStep
<1> DEFINE Shape == /\ \A a \in Naas : nexus[a] < 3 => lun[a] = NoName
                    /\ \A n \in Names : backstore[n] # "absent" => hba
<1>1. SUFFICES Shape'
  BY <1>0, <1>1 DEF TreeShape, ForeignKept
<1>2. Shape /\ TreeTypeOK
  BY DEF TreeShape, TypeOK
<1>3. \A p \in Actors : pc[p] # "idle" => dev[p] \in Devices
  BY DEF TypeOK
<1> HIDE DEF Shape
<1> USE DEF Goto, tree, Devices
<1>4. ASSUME NEW p \in Actors,
             CreateHba(p) \/ CreateBackstore(p) \/ Configure(p) \/ EnableSucceeds(p)
      PROVE  Shape'
  BY <1>2, <1>3, <1>4 DEF Shape, TreeTypeOK, CreateHba, MkdirHba, CreateBackstore,
     MkdirBackstore, Configure, WriteDevConfig, EnableSucceeds, Enable
<1>5. ASSUME NEW p \in Actors, CreateNexus(p) \/ Link(p) \/ UnlinkStep(p) \/ RmNexusStep(p)
      PROVE  Shape'
  BY <1>2, <1>3, <1>5 DEF Shape, TreeTypeOK, CreateNexus, MkdirNexus, Link, LinkLun,
     UnlinkStep, RmSymlink, RmNexusStep, RmdirNexus
<1>6. ASSUME NEW p \in Actors, RmBackstoreStep(p) \/ RmHbaStep(p) PROVE Shape'
  BY <1>2, <1>3, <1>6 DEF Shape, TreeTypeOK, RmBackstoreStep, RmdirBackstore, RmHbaStep,
     RmdirHba
<1>7. ASSUME UNCHANGED <<hba, backstore, nexus, lun>> PROVE Shape'
  BY <1>2, <1>7 DEF Shape
<1>8. ASSUME NEW p \in Actors, CallStep(p) \/ CallerStep(p) \/ Crash(p) PROVE Shape'
  BY <1>4, <1>5, <1>6, <1>7, <1>8
     DEF CallStep, CallerStep, Crash, ResetResult, EnableAgain, UpFails,
         AwaitSuccess, LaunchRefused, LaunchTimesOut, WriteNexus, Resolve, OpenDir,
         OpenDirFails, Umount, UmountBusy, DropLive, BeginUp, Mount,
         MountFails, Subdir, DropSubdir, Unmount, DropMounted, Persist, Down,
         BeginTeardownNamed, TeardownNamed
<1>9. CASE HostStep
  BY <1>7, <1>9 DEF HostStep, DaemonReports, OutsideEnters, OutsideLeaves, UnmountPath
<1>10. CASE UNCHANGED vars
  BY <1>7, <1>10 DEF vars
<1> QED
  BY <1>8, <1>9, <1>10 DEF Next, NextNoCrash

-----------------------------------------------------------------------------
(* Type correctness and other owners                                       *)

InNexus == {"links", "lun", "tpgt", "naa"}

SweepIInv ==
    /\ SweepTypeOK
    /\ OursOnly
    /\ TreeShape
    /\ spc \in InNexus => cur \in OurNaas

LEMMA SweepInitIInv == SweepInit => SweepIInv
<1> SUFFICES ASSUME SweepInit PROVE SweepIInv
  OBVIOUS
<1>1. TypeOK /\ OursOnly /\ TreeShape
  BY InitTypeOK, InitShape DEF SweepInit
<1> QED
  BY <1>1 DEF SweepInit, SweepIInv, SweepTypeOK, SweepPCs, NothingSwept, InNexus

\* What the actors keep is kept by their steps.
LEMMA OthersKeep ==
  ASSUME SweepIInv, [Next]_vars
  PROVE  TypeOK' /\ OursOnly' /\ TreeShape' /\ ForeignKept
  BY NextTypeOK, OursOnlyStep, TreeShapeStep, ForeignStep DEF SweepIInv, SweepTypeOK

LEMMA ListingIInv ==
  ASSUME SweepIInv, BeginSweep \/ ListNexuses \/ SweepNexus \/ ListBackstores
  PROVE  SweepIInv' /\ ForeignKept
<1>1. UNCHANGED vars
  BY DEF BeginSweep, ListNexuses, SweepNexus, ListBackstores
<1>2. TypeOK' /\ OursOnly' /\ TreeShape' /\ ForeignKept
  BY <1>1, OthersKeep
<1> USE DEF SweepIInv, SweepTypeOK, SweepPCs, SweepTo, InNexus
<1>3. CASE BeginSweep
  BY <1>2, <1>3 DEF BeginSweep, NothingSwept
<1>4. CASE ListNexuses
  BY <1>2, <1>4 DEF ListNexuses, OurNexusDirs
<1>5. CASE SweepNexus
  BY <1>2, <1>5 DEF SweepNexus
<1>6. CASE ListBackstores
  BY <1>2, <1>6 DEF ListBackstores, OurBackstores
<1> QED
  BY <1>3, <1>4, <1>5, <1>6

\* The process the sweep runs in is gone: its actor is killed, if it is one.
LEMMA ExitIInv == ASSUME SweepIInv, EndSweep \/ KillSweep PROVE SweepIInv' /\ ForeignKept
<1>1. SweeperExits
  BY DEF EndSweep, KillSweep
<1>2. [Next]_vars
  BY <1>1 DEF SweeperExits, Next
<1> QED
  BY <1>1, <1>2, OthersKeep
     DEF SweeperExits, SweepIInv, SweepTypeOK, SweepPCs, NothingSwept, InNexus

\* The steps that remove something: what of the tree they leave alone, the actors
\* included.
Removing ==
    SweepMount \/ SweepLinks \/ SweepNexusDirs \/ SweepNaaDir \/ SweepBackstore \/ SweepHba

LEMMA RemovingTree ==
  ASSUME SweepIInv, Removing
  PROVE  /\ TreeTypeOK' /\ TreeShape' /\ ForeignKept
         /\ UNCHANGED <<handles, sub, persisted, outside, daemon>>
<1> USE DEF SweepIInv, SweepTypeOK, TypeOK, TreeTypeOK, ForeignKept, TreeShape, SweepTo,
            InNexus, ForeignNames, ForeignNaas
<1>1. CASE SweepMount
  BY <1>1 DEF SweepMount, UnmountAt
<1>2. CASE SweepLinks
  BY <1>2 DEF SweepLinks, RmSymlink
<1>3. CASE SweepNexusDirs \/ SweepNaaDir
  BY <1>3 DEF SweepNexusDirs, SweepNaaDir, RmdirNexus
<1>4. CASE SweepBackstore
  BY <1>4 DEF SweepBackstore, RmdirBackstore
<1>5. CASE SweepHba
  BY <1>5 DEF SweepHba, RmdirHba
<1> QED
  BY <1>1, <1>2, <1>3, <1>4, <1>5 DEF Removing

LEMMA RemovingIInv == ASSUME SweepIInv, Removing PROVE SweepIInv' /\ ForeignKept
<1>1. /\ TreeTypeOK' /\ TreeShape' /\ ForeignKept
      /\ UNCHANGED <<handles, sub, persisted, outside, daemon>>
  BY RemovingTree
<1>2. TypeOK' /\ OursOnly'
  BY <1>1 DEF SweepIInv, SweepTypeOK, TypeOK, OursOnly, handles, daemon
<1> USE DEF SweepIInv, SweepTypeOK, SweepPCs, SweepTo, InNexus
<1>3. CASE SweepMount
  BY <1>1, <1>2, <1>3 DEF SweepMount
<1>4. CASE SweepLinks \/ SweepNexusDirs
  BY <1>1, <1>2, <1>4 DEF SweepLinks, SweepNexusDirs
<1>5. CASE SweepNaaDir
  BY <1>1, <1>2, <1>5 DEF SweepNaaDir
<1>6. CASE SweepBackstore
  BY <1>1, <1>2, <1>6 DEF SweepBackstore
<1>7. CASE SweepHba
  BY <1>1, <1>2, <1>7 DEF SweepHba
<1> QED
  BY <1>3, <1>4, <1>5, <1>6, <1>7 DEF Removing

LEMMA OthersStepIInv == ASSUME SweepIInv, OthersStep PROVE SweepIInv' /\ ForeignKept
<1>1. [Next]_vars
  BY DEF OthersStep, Next
<1> QED
  BY <1>1, OthersKeep DEF OthersStep, Meanwhile, SweepIInv, SweepTypeOK

LEMMA SweepNextIInv == SweepIInv /\ [SweepNext]_sweepVars => SweepIInv' /\ ForeignKept
<1> SUFFICES ASSUME SweepIInv, [SweepNext]_sweepVars PROVE SweepIInv' /\ ForeignKept
  OBVIOUS
<1>1. CASE SweepStep
  BY <1>1, ListingIInv, ExitIInv, RemovingIInv DEF SweepStep, Removing
<1>2. CASE OthersStep
  BY <1>2, OthersStepIInv
<1>3. CASE UNCHANGED sweepVars
  <2>1. UNCHANGED <<vars, sweep>>
    BY <1>3 DEF sweepVars
  <2> QED
    BY <2>1, OthersKeep DEF sweep, SweepIInv, SweepTypeOK
<1> QED
  BY <1>1, <1>2, <1>3 DEF SweepNext

LEMMA SweepInductive == SweepSpec => []SweepIInv
  BY SweepInitIInv, SweepNextIInv, PTL DEF SweepSpec

\* The state of a sweep and of the actors next to it stays well typed.
THEOREM SweepWellTyped == SweepSpec => []SweepTypeOK
  BY SweepInductive, PTL DEF SweepIInv

\* A sweep leaves other owners' nexuses and backstores alone, for any number of
\* them and of actors that go on meanwhile: it lists by prefix, and its actors
\* work under the prefixes only.
THEOREM SweepLeavesForeign == SweepSpec => SweepForeignUntouched
  BY SweepInductive, SweepNextIInv, PTL DEF SweepSpec, SweepForeignUntouched

-----------------------------------------------------------------------------
(* A sweep nobody interferes with                                          *)

\* Every mount there is, is one the sweep was given and nobody is in.
MountsAreSwept ==
    \A m \in Mountpoints : mnt[m] = NoName \/ (m \in SweptMounts /\ ~Busy(m))

NexusGone(a) == nexus[a] = 0 /\ lun[a] = NoName

\* What is done at each point of the sweep: the mounts first, so that no link is
\* held; the link of a nexus before its directories; every nexus before the
\* backstores, so that none is linked.
Progress ==
    /\ spc = "mounts" => \A m \in Mountpoints : mnt[m] = NoName \/ m \in todo
    /\ spc # "mounts" => \A m \in Mountpoints : mnt[m] = NoName
    /\ spc = "nexuses" => \A a \in OurNaas : a \in todo \/ NexusGone(a)
    /\ spc \in InNexus => \A a \in OurNaas : a \in todo \/ a = cur \/ NexusGone(a)
    /\ spc \in {"lun", "tpgt", "naa"} => lun[cur] = NoName
    /\ spc = "tpgt" => nexus[cur] <= 2
    /\ spc = "naa" => nexus[cur] <= 1
    /\ spc \in {"backstores", "done"} => \A a \in OurNaas : NexusGone(a)
    /\ spc = "backstores" => \A n \in OurNames : n \in todo \/ backstore[n] = "absent"
    /\ spc = "done" => \A n \in OurNames : backstore[n] = "absent"
    /\ spc = "done" => hba = (ForeignNames # {})

QuietProgress == quiet /\ spc \in SweepPCs \ {"off", "hba"} /\ MountsAreSwept => Progress

\* A sweep takes nothing into a mount and mounts nothing.
LEMMA MountsStaySwept ==
  ASSUME SweepIInv, Removing, MountsAreSwept'
  PROVE  MountsAreSwept
<1>1. \A m \in Mountpoints : Busy(m)' <=> Busy(m)
  BY RemovingTree DEF Busy, handles
<1>2. CASE SweepMount
  BY <1>1, <1>2 DEF SweepMount, UnmountAt, MountsAreSwept, SweepIInv, SweepTypeOK, TypeOK,
     TreeTypeOK
<1>3. CASE UNCHANGED mnt
  BY <1>1, <1>3 DEF MountsAreSwept
<1> QED
  BY <1>2, <1>3 DEF Removing, SweepLinks, SweepNexusDirs, SweepNaaDir, SweepBackstore,
     SweepHba

LEMMA SweepFacts ==
  ASSUME SweepIInv
  PROVE  /\ TreeShape /\ (spc \in InNexus => cur \in OurNaas)
         /\ backstore \in [Names -> {"absent", "made", "enabled"}]
         /\ nexus \in [Naas -> 0..3]
         /\ lun \in [Naas -> Names \cup {NoName}]
         /\ mnt \in [Mountpoints -> Names \cup {NoName}]
         /\ OurNames \subseteq Names /\ OurNaas \subseteq Naas /\ NoName \notin Names
         /\ SweptMounts \subseteq Mountpoints
         /\ spc = "mounts" => todo \subseteq SweptMounts
         /\ spc = "backstores" => todo \subseteq OurNames
         /\ spc \notin {"mounts", "backstores"} => todo \subseteq OurNaas
<1>1. TreeShape /\ (spc \in InNexus => cur \in OurNaas) /\ SweepTypeOK
  BY DEF SweepIInv
<1>2. /\ spc = "mounts" => todo \subseteq SweptMounts
      /\ spc = "backstores" => todo \subseteq OurNames
      /\ spc \notin {"mounts", "backstores"} => todo \subseteq OurNaas
  BY <1>1 DEF SweepTypeOK
<1>3. TreeTypeOK
  BY <1>1 DEF SweepTypeOK, TypeOK
<1> QED
  BY <1>1, <1>2, <1>3, TreeAssumption DEF TreeTypeOK

LEMMA SweepMountProgress ==
  ASSUME SweepIInv, Progress, MountsAreSwept, SweepMount, quiet'
  PROVE  Progress'
<1>1. PICK m \in todo : /\ todo' = todo \ {m}
                        /\ mnt[m] # NoName /\ ~Busy(m) => UnmountAt(m)
                        /\ ~(mnt[m] # NoName /\ ~Busy(m)) => UNCHANGED mnt
  BY DEF SweepMount
<1>2. spc = "mounts" /\ spc' = "mounts" /\ m \in Mountpoints
  BY SweepFacts DEF SweepMount
<1>3. \A k \in Mountpoints : mnt'[k] = NoName \/ k \in todo'
  <2>1. \A k \in Mountpoints : mnt[k] = NoName \/ k \in todo
    BY <1>2 DEF Progress
  <2>2. mnt'[m] = NoName /\ \A k \in Mountpoints \ {m} : mnt'[k] = mnt[k]
    BY <1>1, <1>2, SweepFacts DEF UnmountAt, MountsAreSwept
  <2> QED
    BY <1>1, <2>1, <2>2
<1> QED
  BY <1>2, <1>3 DEF Progress, InNexus

LEMMA SweepLinksProgress ==
  ASSUME SweepIInv, Progress, SweepLinks, quiet'
  PROVE  Progress'
<1>1. /\ cur \in OurNaas /\ spc = "links" /\ spc' = "lun"
      /\ UNCHANGED <<mnt, nexus, todo, cur>>
  BY SweepFacts DEF SweepLinks, SweepTo, InNexus
<1>2. lun' = [lun EXCEPT ![cur] = NoName]
  <2>1. \A m \in Mountpoints : mnt[m] = NoName
    BY <1>1 DEF Progress
  <2>2. lun[cur] \in Names \cup {NoName}
    BY <1>1, SweepFacts
  <2>3. lun[cur] = NoName \/ ~IsMounted(lun[cur])
    BY <2>1, <2>2, SweepFacts DEF IsMounted
  <2> QED
    BY <2>3 DEF SweepLinks, RmSymlink
<1>3. \A a \in OurNaas : a \in todo \/ a = cur \/ NexusGone(a)
  BY <1>1 DEF Progress, InNexus
<1>4. \A a \in OurNaas : a \in todo' \/ a = cur' \/ NexusGone(a)'
  BY <1>1, <1>2, <1>3, SweepFacts DEF NexusGone
<1>5. lun'[cur'] = NoName /\ \A m \in Mountpoints : mnt'[m] = NoName
  BY <1>1, <1>2, SweepFacts DEF Progress
<1> QED
  BY <1>1, <1>4, <1>5 DEF Progress

LEMMA SweepDirsProgress ==
  ASSUME SweepIInv, Progress, SweepNexusDirs \/ SweepNaaDir
  PROVE  Progress'
<1> USE DEF SweepTo, SweepNexusDirs, SweepNaaDir, RmdirNexus
<1>1. /\ cur \in OurNaas /\ cur \in Naas /\ lun[cur] = NoName
      /\ UNCHANGED <<mnt, lun, todo>>
      /\ \A m \in Mountpoints : mnt'[m] = NoName
  BY SweepFacts DEF Progress, InNexus
<1>2. \A a \in OurNaas : a \in todo' \/ a = cur \/ NexusGone(a)'
  <2>1. \A a \in OurNaas : a \in todo \/ a = cur \/ NexusGone(a)
    BY DEF Progress, InNexus
  <2> QED
    BY <1>1, <2>1, SweepFacts DEF NexusGone
<1>3. CASE SweepNexusDirs
  <2>1. /\ spc' \in {"tpgt", "naa"} /\ cur' = cur
        /\ spc' = "tpgt" => nexus'[cur] <= 2
        /\ spc' = "naa" => nexus'[cur] <= 1
    BY <1>1, <1>3, SweepFacts DEF Progress
  <2> QED
    BY <1>1, <1>2, <2>1 DEF Progress
<1>4. CASE SweepNaaDir
  <2>1. nexus[cur] <= 1 /\ spc' = "nexuses"
    BY <1>4 DEF Progress
  <2>2. nexus'[cur] = 0 /\ lun'[cur] = NoName
    BY <1>1, <1>4, <2>1, SweepFacts
  <2>3. \A a \in OurNaas : a \in todo' \/ NexusGone(a)'
    BY <1>2, <2>2 DEF NexusGone
  <2> QED
    BY <1>1, <2>1, <2>3 DEF Progress, InNexus
<1> QED
  BY <1>3, <1>4

LEMMA SweepBackstoreProgress ==
  ASSUME SweepIInv, Progress, SweepBackstore
  PROVE  Progress'
<1>1. PICK n \in todo : /\ todo' = todo \ {n}
                        /\ backstore[n] # "absent" => RmdirBackstore(n)
                        /\ backstore[n] = "absent" => UNCHANGED backstore
  BY DEF SweepBackstore
<1>2. /\ spc = "backstores" /\ spc' = "backstores" /\ n \in OurNames
      /\ UNCHANGED <<mnt, nexus, lun>>
  BY SweepFacts DEF SweepBackstore
<1>3. \A a \in OurNaas : NexusGone(a)
  BY <1>2 DEF Progress
<1>4. ~IsLinked(n)
  <2>0. n # NoName /\ n \notin ForeignNames
    BY <1>2, TreeAssumption DEF ForeignNames
  <2>1. \A a \in OurNaas : lun[a] # n
    BY <1>3, <2>0 DEF NexusGone
  <2>2. \A a \in ForeignNaas : lun[a] # n
    BY <2>0, SweepFacts DEF TreeShape
  <2> QED
    BY <2>1, <2>2 DEF IsLinked, ForeignNaas
<1>5. \A k \in OurNames : k \in todo' \/ backstore'[k] = "absent"
  <2>1. \A k \in OurNames : k \in todo \/ backstore[k] = "absent"
    BY <1>2 DEF Progress
  <2> QED
    BY <1>1, <1>2, <1>4, <2>1, SweepFacts DEF RmdirBackstore
<1>6. \A a \in OurNaas : NexusGone(a)'
  BY <1>2, <1>3 DEF NexusGone
<1>7. \A m \in Mountpoints : mnt'[m] = NoName
  BY <1>2 DEF Progress
<1> QED
  BY <1>2, <1>5, <1>6, <1>7 DEF Progress, InNexus

LEMMA SweepHbaProgress ==
  ASSUME SweepIInv, Progress, SweepHba
  PROVE  Progress'
<1>1. /\ spc = "backstores" /\ spc' = "done" /\ todo = {} /\ RmdirHba
      /\ UNCHANGED <<mnt, nexus, lun, backstore>>
  BY DEF SweepHba, SweepTo
<1>2. \A n \in OurNames : backstore[n] = "absent"
  BY <1>1 DEF Progress
<1>3. /\ \A a \in OurNaas : NexusGone(a)'
      /\ \A m \in Mountpoints : mnt'[m] = NoName
  BY <1>1 DEF Progress, NexusGone
<1>4. hba' = (ForeignNames # {})
  <2>1. (\E n \in Names : backstore[n] # "absent") <=> ForeignNames # {}
    BY <1>2, SweepFacts DEF TreeShape, ForeignNames
  <2>2. (\E n \in Names : backstore[n] # "absent") => hba
    BY SweepFacts DEF TreeShape
  <2> QED
    BY <1>1, <2>1, <2>2 DEF RmdirHba
<1> QED
  BY <1>1, <1>2, <1>3, <1>4 DEF Progress, InNexus

LEMMA ListingProgress ==
  ASSUME SweepIInv, Progress, ListNexuses \/ SweepNexus \/ ListBackstores, quiet'
  PROVE  Progress'
<1>1. UNCHANGED <<hba, backstore, nexus, lun, mnt>>
  BY DEF ListNexuses, SweepNexus, ListBackstores, vars, tree
<1>2. \A a \in OurNaas : NexusGone(a)' <=> NexusGone(a)
  BY <1>1 DEF NexusGone
<1>3. CASE ListNexuses
  <2>1. spc = "mounts" /\ spc' = "nexuses" /\ todo = {} /\ todo' = OurNexusDirs
    BY <1>3 DEF ListNexuses, SweepTo
  <2>2. \A a \in OurNaas : a \in todo' \/ NexusGone(a)
    BY <2>1, SweepFacts DEF OurNexusDirs, NexusGone, TreeShape
  <2>3. \A m \in Mountpoints : mnt'[m] = NoName
    BY <1>1, <2>1 DEF Progress
  <2> QED
    BY <1>2, <2>1, <2>2, <2>3 DEF Progress, InNexus
<1>4. CASE SweepNexus
  <2>1. /\ spc = "nexuses" /\ spc' = "links" /\ cur' \in todo
        /\ todo' = todo \ {cur'}
    BY <1>4 DEF SweepNexus, SweepTo
  <2> QED
    BY <1>1, <1>2, <2>1 DEF Progress
<1>5. CASE ListBackstores
  <2>1. /\ spc = "nexuses" /\ spc' = "backstores" /\ todo = {}
        /\ todo' = OurBackstores
    BY <1>5 DEF ListBackstores, SweepTo
  <2>2. \A n \in OurNames : n \in todo' \/ backstore'[n] = "absent"
    BY <1>1, <2>1, SweepFacts DEF TreeShape, OurBackstores
  <2> QED
    BY <1>1, <1>2, <2>1, <2>2 DEF Progress, InNexus
<1> QED
  BY <1>3, <1>4, <1>5

LEMMA QuietStep ==
  SweepIInv /\ QuietProgress /\ [SweepNext]_sweepVars => QuietProgress'
<1> SUFFICES ASSUME SweepIInv, QuietProgress, [SweepNext]_sweepVars,
                    quiet', spc' \in SweepPCs \ {"off", "hba"}, MountsAreSwept'
             PROVE  Progress'
  BY DEF QuietProgress
<1>1. CASE BeginSweep
  <2>1. spc' = "mounts" /\ todo' = SweptMounts
    BY <1>1 DEF BeginSweep, SweepTo
  <2> QED
    BY <2>1 DEF Progress, MountsAreSwept, InNexus
<1>2. CASE Removing
  <2>1. MountsAreSwept /\ quiet /\ spc \in SweepPCs \ {"off", "hba"}
    BY <1>2, MountsStaySwept DEF Removing, SweepMount, SweepLinks, SweepNexusDirs,
       SweepNaaDir, SweepBackstore, SweepHba, SweepTo, SweepPCs
  <2>2. Progress
    BY <2>1 DEF QuietProgress
  <2> QED
    BY <1>2, <2>1, <2>2, SweepMountProgress, SweepLinksProgress, SweepDirsProgress,
       SweepBackstoreProgress, SweepHbaProgress DEF Removing
<1>3. CASE ListNexuses \/ SweepNexus \/ ListBackstores
  <2>1. quiet /\ spc \in SweepPCs \ {"off", "hba"} /\ UNCHANGED vars
    BY <1>3 DEF ListNexuses, SweepNexus, ListBackstores, SweepTo, SweepPCs
  <2>2. MountsAreSwept
    BY <2>1 DEF MountsAreSwept, Busy, vars, tree, handles
  <2> QED
    BY <1>3, <2>1, <2>2, ListingProgress DEF QuietProgress
<1>4. CASE EndSweep \/ KillSweep \/ OthersStep
  BY <1>4 DEF EndSweep, KillSweep, SweeperExits, OthersStep, Meanwhile
<1>5. CASE UNCHANGED sweepVars
  <2>1. UNCHANGED <<vars, sweep>>
    BY <1>5 DEF sweepVars
  <2>2. quiet /\ spc \in SweepPCs \ {"off", "hba"} /\ MountsAreSwept
    BY <2>1 DEF MountsAreSwept, Busy, vars, tree, handles, sweep
  <2> QED
    BY <2>1, <2>2 DEF QuietProgress, Progress, NexusGone, vars, tree, sweep
<1> QED
  BY <1>1, <1>2, <1>3, <1>4, <1>5 DEF SweepNext, SweepStep, Removing

\* Whatever was left behind and wherever: a sweep that runs alone, with every
\* mount among its own and nobody in one, removes all that is ours, for any number
\* of names, nexuses and mountpoints.
THEOREM QuietSweepsAreComplete == SweepSpec => []QuietSweepIsComplete
<1>1. SweepInit => QuietProgress
  BY DEF SweepInit, QuietProgress
<1>2. SweepIInv /\ QuietProgress => QuietSweepIsComplete
  BY DEF QuietProgress, Progress, NexusGone, QuietSweepIsComplete, SweptClean,
         MountsAreSwept, SweepPCs
<1> QED
  BY <1>1, <1>2, SweepInductive, QuietStep, PTL DEF SweepSpec

-----------------------------------------------------------------------------
(* Answers next to a sweep                                                 *)

\* A sweep takes the config of a backstore with it, and no launch.
LEMMA RemovingAnswers ==
  ASSUME SweepIInv, AnswersAreOwn, Removing
  PROVE  AnswersAreOwn'
<1>1. UNCHANGED <<handles, sub, persisted, outside, daemon>>
  BY RemovingTree
<1>2. \A n \in Names : devcfg'[n] \in {devcfg[n], NoConf}
  BY DEF Removing, SweepMount, SweepLinks, SweepNexusDirs, SweepNaaDir, SweepBackstore,
         SweepHba, RmdirBackstore, SweepIInv, SweepTypeOK, TypeOK, TreeTypeOK
<1> QED
  BY <1>1, <1>2, AnswersFrame DEF handles, daemon, SweepIInv, SweepTypeOK

LEMMA SweepAnswers ==
  SweepIInv /\ OneUpEach /\ OneUpEach' /\ AnswersAreOwn /\ [SweepNext]_sweepVars
    => AnswersAreOwn'
<1> SUFFICES ASSUME SweepIInv, OneUpEach, OneUpEach', AnswersAreOwn, [SweepNext]_sweepVars
             PROVE  AnswersAreOwn'
  OBVIOUS
<1>1. Removing \/ [Next]_vars
  BY DEF SweepNext, SweepStep, OthersStep, BeginSweep, ListNexuses, SweepNexus,
         ListBackstores, EndSweep, KillSweep, SweeperExits, Removing, Next, sweepVars
<1> QED
  BY <1>1, RemovingAnswers, AnswersStep DEF SweepIInv, SweepTypeOK

\* Nor does an up act on an earlier answer with sweeps and signals in between, which end
\* processes in the middle of an up and take backstores from under others.
THEOREM SweptAnswersAreNotReused == SweepSpec /\ []OneUpEach => OwnResult
<1>1. SweepInit => AnswersAreOwn
  BY InitAnswers DEF SweepInit
<1>2. SweepIInv /\ AnswersAreOwn =>
        [\A p \in Actors :
           AwaitSuccess(p) \/ LaunchRefused(p)
              => result[dev[p].conf].by \in {p, "late", "kept"}]_vars
  BY AnswerIsOwn DEF SweepIInv, SweepTypeOK
<1> QED
  BY <1>1, <1>2, SweepInductive, SweepAnswers, PTL DEF SweepSpec, OwnResult

=============================================================================
