------------------------- MODULE NodeResolutionProofs -------------------------
(***************************************************************************)
(* Proofs about DevT and NodeResolution, for any number of devices,        *)
(* addresses, names and dev_t numbers.                                     *)
(*                                                                         *)
(* OwnDisk needs CarefulInv: the disks there are have names and numbers of *)
(* their own; no two devices share an address; a disk that is going away   *)
(* sits under the address of a device whose nexus, or whose waiting        *)
(* teardown, is still there; and from the directory listing on, the disk   *)
(* an up has found stays where it is and is its own.                       *)
(***************************************************************************)
EXTENDS NodeResolution, TLAPS

-----------------------------------------------------------------------------
(* dev_t                                                                   *)

\* node_matches takes a dev_t apart without losing or mixing a bit: for every
\* 32-bit major and minor, what makedev puts together is what is compared.
THEOREM DevTRoundTrip == ASSUME NEW t \in DevTNumbers PROVE DevTOf(Makedev(t)) = t
<1> USE DEF U32, U64, Shr, Shl, AsU32, LowMajor, LowMinor
<1>1. Major(Makedev(t)) = t.major
  <2>1. ASSUME NEW i \in 0..31 PROVE i \in Major(Makedev(t)) <=> i \in t.major
    <3>1. CASE i \in 0..11
      <4>1. i + 8 \in Makedev(t) <=> i \in t.major
        BY <3>1 DEF Makedev, DevTNumbers
      <4> QED
        BY <3>1, <4>1 DEF Major
    <3>2. CASE i \in 12..31
      <4>1. i + 32 \in Makedev(t) <=> i \in t.major
        BY <3>2 DEF Makedev, DevTNumbers
      <4> QED
        BY <3>2, <4>1 DEF Major
    <3> QED
      BY <3>1, <3>2
  <2> QED
    BY <2>1 DEF Major, DevTNumbers
<1>2. Minor(Makedev(t)) = t.minor
  <2>1. ASSUME NEW i \in 0..31 PROVE i \in Minor(Makedev(t)) <=> i \in t.minor
    <3>1. CASE i \in 0..7
      <4>1. i \in Makedev(t) <=> i \in t.minor
        BY <3>1 DEF Makedev, DevTNumbers
      <4> QED
        BY <3>1, <4>1 DEF Minor
    <3>2. CASE i \in 8..31
      <4>1. i + 12 \in Makedev(t) <=> i \in t.minor
        BY <3>2 DEF Makedev, DevTNumbers
      <4> QED
        BY <3>2, <4>1 DEF Minor
    <3> QED
      BY <3>1, <3>2
  <2> QED
    BY <2>1 DEF Minor, DevTNumbers
<1> QED
  BY <1>1, <1>2 DEF DevTOf, DevTNumbers

\* Two disks with one st_rdev are one disk.
LEMMA MakedevInjective ==
    ASSUME NEW s \in DevTs, NEW t \in DevTs, Makedev(s) = Makedev(t)
    PROVE  s = t
<1>1. s \in DevTNumbers /\ t \in DevTNumbers
  BY ResolutionAssumption
<1> QED
  BY <1>1, DevTRoundTrip

-----------------------------------------------------------------------------
(* Types                                                                   *)

\* A device past the creation of its nexus has an address.
Placed == \A d \in Devs : pc[d] # "idle" => addr[d] # None

TypeInv == TypeOK /\ Placed

LEMMA TypeInit == Init => TypeInv
BY ResolutionAssumption DEF Init, TypeInv, TypeOK, Placed, PCs

LEMMA KernelKeepsTypes == TypeInv /\ KernelStep => TypeInv'
<1> SUFFICES ASSUME TypeInv, KernelStep PROVE TypeInv'
  OBVIOUS
<1> USE ResolutionAssumption DEF TypeInv, TypeOK, Placed
<1>1. ASSUME NEW d \in Devs, Attach(d) PROVE TypeInv'
  <2>1. PICK x \in Nodes, t \in DevTs :
           scsi' = [scsi EXCEPT ![addr[d]] =
                       [own |-> d, name |-> x, devt |-> t, ready |-> FALSE]]
    BY <1>1 DEF Attach
  <2>2. [own |-> d, name |-> x, devt |-> t, ready |-> FALSE] \in Disks
    BY DEF Disks
  <2>3. scsi' \in [Addrs -> Disks \cup {None}]
    BY <2>1, <2>2
  <2> QED
    BY <1>1, <2>3 DEF Attach
<1>2. ASSUME NEW a \in Addrs, BecomeReady(a) PROVE TypeInv'
  <2>1. scsi[a] \in Disks
    BY <1>2 DEF BecomeReady
  <2>2. [scsi[a] EXCEPT !.ready = TRUE] \in Disks
    BY <2>1 DEF Disks
  <2>3. scsi' \in [Addrs -> Disks \cup {None}]
    BY <1>2, <2>2 DEF BecomeReady
  <2> QED
    BY <1>2, <2>3 DEF BecomeReady
<1>3. ASSUME NEW a \in Addrs, Detach(a) PROVE TypeInv'
  BY <1>3 DEF Detach
<1>4. ASSUME NEW a \in Addrs, UdevAdd(a) PROVE TypeInv'
  <2>1. scsi[a] \in Disks
    BY <1>4 DEF UdevAdd
  <2>2. Makedev(scsi[a].devt) \in {Makedev(t) : t \in DevTs} /\ scsi[a].name \in Nodes
    BY <2>1 DEF Disks
  <2>3. node' \in [Nodes -> {Makedev(t) : t \in DevTs} \cup {None}]
    BY <1>4, <2>2 DEF UdevAdd
  <2> QED
    BY <1>4, <2>3 DEF UdevAdd
<1>5. ASSUME NEW x \in Nodes, UdevRemove(x) PROVE TypeInv'
  BY <1>5 DEF UdevRemove
<1> QED
  BY <1>1, <1>2, <1>3, <1>4, <1>5 DEF KernelStep

LEMMA UpKeepsTypes ==
    ASSUME NEW d \in Devs, TypeInv, UpStep(d)
    PROVE  TypeInv'
<1> USE ResolutionAssumption DEF TypeInv, TypeOK, Placed, PCs, Goto
<1>2. CASE Link(d)
  BY <1>2 DEF Link
<1>3. CASE ListBlock(d)
  <2>1. scsi[addr[d]].name \in Nodes
    BY <1>3 DEF ListBlock, Disks
  <2> QED
    BY <1>3, <2>1 DEF ListBlock
<1>4. CASE ReadDevT(d)
  <2>1. scsi[addr[d]].devt \in DevTs
    BY <1>4 DEF ReadDevT, BlockEntryExists, Disks
  <2> QED
    BY <1>4, <2>1 DEF ReadDevT
<1>5. CASE NodeMatches(d)
  BY <1>5 DEF NodeMatches
<1>6. CASE NodeReadable(d)
  BY <1>6 DEF NodeReadable
<1>7. CASE PollAgain(d)
  <2>1. pc[d] \in {"devt", "stat", "read"}
    BY <1>7 DEF PollAgain, CheckFails
  <2> QED
    BY <1>7, <2>1 DEF PollAgain
<1>8. CASE ResolveTimesOut(d)
  BY <1>8 DEF ResolveTimesOut
<1>9. CASE Mount(d)
  BY <1>9 DEF Mount
<1>10. CASE Unmount(d)
  BY <1>10 DEF Unmount
<1> QED
  BY <1>2, <1>3, <1>4, <1>5, <1>6, <1>7, <1>8, <1>9, <1>10 DEF UpStep

LEMMA ReturnKeepsTypes ==
    ASSUME NEW d \in Devs, TypeInv, Return(d, "wait") \/ Return(d, "sweep_nexus")
    PROVE  TypeInv'
BY ResolutionAssumption DEF TypeInv, TypeOK, Placed, PCs, Return, Goto

LEMMA UnlinkKeepsTypes ==
    ASSUME NEW d \in Devs, TypeInv, Unlink(d)
    PROVE  TypeInv'
<1> USE ResolutionAssumption DEF TypeInv, TypeOK, Placed, PCs, Goto
<1>1. ASSUME NEW k \in Disks PROVE [k EXCEPT !.own = "gone"] \in Disks
  BY DEF Disks
<1>2. scsi' \in [Addrs -> Disks \cup {None}]
  BY <1>1 DEF Unlink
<1> QED
  BY <1>2 DEF Unlink

LEMMA DownKeepsTypes ==
    ASSUME NEW d \in Devs, TypeInv, DownStep(d)
    PROVE  TypeInv'
<1> USE ResolutionAssumption DEF TypeInv, TypeOK, Placed, PCs, Goto
<1>1. CASE BeginDown(d)
  BY <1>1 DEF BeginDown
<1>2. CASE Unlink(d)
  BY <1>2, UnlinkKeepsTypes
<1>3. CASE RmNexus(d)
  BY <1>3 DEF RmNexus
<1>4. CASE WaitEnds(d)
  BY <1>4, ReturnKeepsTypes DEF WaitEnds
<1> QED
  BY <1>1, <1>2, <1>3, <1>4 DEF DownStep

LEMMA TypeStep == TypeInv /\ [Next]_vars => TypeInv'
<1> SUFFICES ASSUME TypeInv, [Next]_vars PROVE TypeInv'
  OBVIOUS
<1>1. CASE KernelStep
  BY <1>1, KernelKeepsTypes
<1>2. ASSUME NEW d \in Devs, CreateNexus(d) \/ BeginSweep(d) \/ Killed(d) PROVE TypeInv'
  <2> USE ResolutionAssumption DEF Goto, TypeInv, TypeOK, Placed, PCs
  <2>1. CASE CreateNexus(d)
    BY <2>1 DEF CreateNexus
  <2>2. CASE BeginSweep(d)
    BY <2>2 DEF BeginSweep
  <2>3. CASE Killed(d)
    BY <2>3 DEF Killed
  <2> QED
    BY <1>2, <2>1, <2>2, <2>3
<1>3. ASSUME NEW d \in Devs, SweepNexus(d) \/ WaitTimesOut(d) PROVE TypeInv'
  BY <1>3, ReturnKeepsTypes DEF SweepNexus, WaitTimesOut
<1>4. CASE UNCHANGED vars
  BY <1>4 DEF vars, TypeInv, TypeOK, Placed
<1>5. ASSUME NEW d \in Devs, UpStep(d) \/ DownStep(d) PROVE TypeInv'
  BY <1>5, UpKeepsTypes, DownKeepsTypes
<1> QED
  BY <1>1, <1>2, <1>3, <1>4, <1>5 DEF Next

\* Whatever the callers, the sweep, the kernel and udev do, an up that compares
\* and opens a node has a name and a number to compare it with.
THEOREM ResolutionWellTyped == Spec => []TypeOK
<1>1. TypeInv => TypeOK
  BY DEF TypeInv
<1> QED
  BY <1>1, TypeInit, TypeStep, PTL DEF Spec

-----------------------------------------------------------------------------
(* The disk an up finds                                                    *)

\* The places of a teardown in which the link is gone and the device is not.
Removing == {"rm_nexus", "wait"}

\* The places in which the disk of a device may be going away: those, and what a
\* killed teardown leaves and the next one finds.
Dying == Removing \cup {"leaked", "unlink"}

\* From the directory listing on.
Found == {"devt", "stat", "read", "live", "mounted"}

NoSweep == \A d \in Devs : pc[d] \notin {"sweep_unlink", "sweep_nexus"}

\* No two devices have one address, a teardown that waits for it included.
OwnAddress == \A d, e \in Devs : d # e /\ pc[d] # "idle" /\ pc[e] # "idle" => addr[d] # addr[e]

\* The names and the numbers of the attached disks are their own.
DisksDiffer ==
    \A a, b \in Addrs : a # b /\ scsi[a] # None /\ scsi[b] # None =>
        scsi[a].name # scsi[b].name /\ scsi[a].devt # scsi[b].devt

LinksInPlace == \A d \in Devs : linked[d] => pc[d] \notin {"idle", "link"} \cup Removing

\* A disk is under the address of its linked device, or of a device that was
\* unlinked and whose nexus, or whose teardown, is still there.
DisksInPlace ==
    \A a \in Addrs : scsi[a] # None =>
        \/ scsi[a].own \in Devs /\ linked[scsi[a].own] /\ addr[scsi[a].own] = a
        \/ scsi[a].own = "gone" /\ \E d \in Devs : pc[d] \in Dying /\ addr[d] = a

\* What was read under the address is still so, and once the node was compared
\* it stays that disk's.
FoundIsOwn ==
    \A d \in Devs : pc[d] \in Found =>
        /\ scsi[addr[d]] # None
        /\ scsi[addr[d]].own = d
        /\ scsi[addr[d]].name = seen[d]
        /\ pc[d] # "devt" => scsi[addr[d]].devt = want[d]
        /\ pc[d] \notin {"devt", "stat"} => node[seen[d]] = Makedev(want[d])

CarefulInv ==
    /\ TypeInv
    /\ NoSweep
    /\ OwnAddress
    /\ DisksDiffer
    /\ LinksInPlace
    /\ DisksInPlace
    /\ FoundIsOwn

LEMMA CarefulInit == Init => CarefulInv
<1> SUFFICES ASSUME Init PROVE CarefulInv
  OBVIOUS
<1>1. TypeInv
  BY TypeInit
<1>2. NoSweep /\ OwnAddress /\ DisksDiffer /\ LinksInPlace /\ DisksInPlace /\ FoundIsOwn
  BY DEF Init, NoSweep, OwnAddress, DisksDiffer, LinksInPlace, DisksInPlace,
         FoundIsOwn, Found
<1> QED
  BY <1>1, <1>2 DEF CarefulInv

LEMMA CarefulTypes == CarefulInv /\ CarefulNext => TypeInv'
BY TypeStep DEF CarefulInv, CarefulNext, Next

\* A disk appears under an address that had none.
LEMMA AttachKeepsDisks ==
    ASSUME NEW d \in Devs, CarefulInv, Attach(d)
    PROVE  DisksDiffer' /\ DisksInPlace' /\ FoundIsOwn'
<1> USE DEF CarefulInv, TypeInv, TypeOK
<1>1. addr[d] \in Addrs
  BY DEF Attach, LinksInPlace, Placed
<1>2. PICK x \in Nodes, t \in DevTs :
         /\ \A k \in Attached : k.name # x /\ k.devt # t
         /\ scsi' = [scsi EXCEPT ![addr[d]] =
                        [own |-> d, name |-> x, devt |-> t, ready |-> FALSE]]
  BY DEF Attach
<1>3. \A a \in Addrs : scsi[a] # None => scsi[a].name # x /\ scsi[a].devt # t
  BY <1>2 DEF Attached
<1>4. /\ scsi'[addr[d]] = [own |-> d, name |-> x, devt |-> t, ready |-> FALSE]
      /\ \A a \in Addrs : a # addr[d] => scsi'[a] = scsi[a]
  BY <1>1, <1>2
<1>5. DisksDiffer'
  BY <1>3, <1>4 DEF DisksDiffer
<1>6. DisksInPlace'
  BY <1>4 DEF Attach, DisksInPlace
<1>7. FoundIsOwn'
  <2>1. ASSUME NEW e \in Devs, pc[e] \in Found
        PROVE  scsi'[addr[e]] = scsi[addr[e]]
    <3>1. addr[e] \in Addrs /\ scsi[addr[e]] # None
      BY <2>1 DEF FoundIsOwn, Found, Placed
    <3> QED
      BY <3>1, <1>4 DEF Attach
  <2> QED
    BY <2>1 DEF Attach, FoundIsOwn
<1> QED
  BY <1>5, <1>6, <1>7

\* What the kernel does moves no call, so half of the conjuncts keep their variables.
LEMMA KernelKeepsCareful == CarefulInv /\ KernelStep => CarefulInv'
<1> SUFFICES ASSUME CarefulInv, KernelStep PROVE CarefulInv'
  OBVIOUS
<1>1. TypeInv'
  BY CarefulTypes DEF CarefulNext
<1>2. UNCHANGED <<pc, addr, linked, seen, want>>
  BY DEF KernelStep, Attach, BecomeReady, Detach, UdevAdd, UdevRemove
<1>3. NoSweep' /\ OwnAddress' /\ LinksInPlace'
  BY <1>2 DEF CarefulInv, NoSweep, OwnAddress, LinksInPlace
<1>4. \A e \in Devs : pc[e] \in Found => addr[e] \in Addrs
  BY DEF CarefulInv, TypeInv, TypeOK, Placed, Found
<1> USE DEF CarefulInv, TypeInv, TypeOK
<1>5. ASSUME NEW d \in Devs, Attach(d) PROVE DisksDiffer' /\ DisksInPlace' /\ FoundIsOwn'
  BY <1>5, AttachKeepsDisks
<1>6. ASSUME NEW a \in Addrs, BecomeReady(a) PROVE DisksDiffer' /\ DisksInPlace' /\ FoundIsOwn'
  <2>1. scsi[a] \in Disks
    BY <1>6 DEF BecomeReady
  <2>2. scsi' = [scsi EXCEPT ![a] = [scsi[a] EXCEPT !.ready = TRUE]]
    BY <1>6 DEF BecomeReady
  <2>3. [scsi[a] EXCEPT !.ready = TRUE] # None
    BY <1>1, <2>2, <2>1, <1>6, ResolutionAssumption DEF BecomeReady, Disks
  <2>4. \A b \in Addrs :
           /\ scsi'[b] = None <=> scsi[b] = None
           /\ scsi[b] # None => /\ scsi'[b].own = scsi[b].own
                                /\ scsi'[b].name = scsi[b].name
                                /\ scsi'[b].devt = scsi[b].devt
    BY <1>6, <2>1, <2>2, <2>3 DEF BecomeReady, Disks
  <2>5. DisksDiffer' /\ DisksInPlace'
    BY <2>4, <1>2 DEF DisksDiffer, DisksInPlace
  <2>6. FoundIsOwn'
    BY <2>4, <1>2, <1>4, <1>6 DEF FoundIsOwn, BecomeReady
  <2> QED
    BY <2>5, <2>6
<1>7. ASSUME NEW a \in Addrs, Detach(a) PROVE DisksDiffer' /\ DisksInPlace' /\ FoundIsOwn'
  <2>1. /\ scsi'[a] = None
        /\ \A b \in Addrs : b # a => scsi'[b] = scsi[b]
    BY <1>7 DEF Detach
  <2>2. DisksDiffer' /\ DisksInPlace'
    BY <2>1, <1>2 DEF DisksDiffer, DisksInPlace
  <2>3. \A e \in Devs : pc[e] \in Found => addr[e] # a
    BY <1>7, ResolutionAssumption DEF Detach, FoundIsOwn
  <2>4. FoundIsOwn'
    BY <2>1, <2>3, <1>2, <1>4, <1>7 DEF FoundIsOwn, Detach
  <2> QED
    BY <2>2, <2>4
<1>8. ASSUME NEW a \in Addrs, UdevAdd(a) PROVE DisksDiffer' /\ DisksInPlace' /\ FoundIsOwn'
  <2>1. scsi' = scsi
    BY <1>8 DEF UdevAdd
  <2>2. DisksDiffer' /\ DisksInPlace'
    BY <2>1, <1>2 DEF DisksDiffer, DisksInPlace
  <2>3. ASSUME NEW e \in Devs, pc[e] \in Found, pc[e] \notin {"devt", "stat"}
        PROVE  node'[seen[e]] = Makedev(want[e])
    <3>1. /\ addr[e] \in Addrs /\ scsi[addr[e]] # None
          /\ scsi[addr[e]].name = seen[e] /\ scsi[addr[e]].devt = want[e]
          /\ node[seen[e]] = Makedev(want[e])
      BY <2>3, <1>4 DEF FoundIsOwn
    <3>2. seen[e] \in Nodes
      BY <2>3 DEF Found
    <3>3. CASE seen[e] = scsi[a].name
      <4>1. a = addr[e]
        BY <1>8, <3>1, <3>3 DEF DisksDiffer, UdevAdd
      <4> QED
        BY <1>8, <3>1, <3>2, <3>3, <4>1 DEF UdevAdd
    <3>4. CASE seen[e] # scsi[a].name
      BY <1>8, <3>1, <3>2, <3>4 DEF UdevAdd
    <3> QED
      BY <3>3, <3>4
  <2>4. FoundIsOwn'
    BY <2>1, <2>3, <1>2 DEF FoundIsOwn
  <2> QED
    BY <2>2, <2>4
<1>9. ASSUME NEW x \in Nodes, UdevRemove(x) PROVE DisksDiffer' /\ DisksInPlace' /\ FoundIsOwn'
  <2>1. scsi' = scsi
    BY <1>9 DEF UdevRemove
  <2>2. DisksDiffer' /\ DisksInPlace'
    BY <2>1, <1>2 DEF DisksDiffer, DisksInPlace
  <2>3. \A e \in Devs : pc[e] \in Found => seen[e] # x
    BY <1>9, <1>4 DEF UdevRemove, Attached, FoundIsOwn
  <2>4. FoundIsOwn'
    BY <2>1, <2>3, <1>2, <1>9 DEF FoundIsOwn, UdevRemove
  <2> QED
    BY <2>2, <2>4
<1>10. DisksDiffer' /\ DisksInPlace' /\ FoundIsOwn'
  BY <1>5, <1>6, <1>7, <1>8, <1>9 DEF KernelStep
<1> QED
  BY <1>1, <1>3, <1>10 DEF CarefulInv

\* The disk an up reads under its address is its own.
LEMMA ListedIsOwn ==
    ASSUME CarefulInv, NEW d \in Devs, pc[d] = "list", scsi[addr[d]] # None
    PROVE  scsi[addr[d]].own = d
<1>1. addr[d] \in Addrs
  BY DEF CarefulInv, TypeInv, TypeOK, Placed
<1>2. CASE scsi[addr[d]].own = "gone"
  <2>1. PICK e \in Devs : pc[e] \in Dying /\ addr[e] = addr[d]
    BY <1>1, <1>2, ResolutionAssumption DEF CarefulInv, DisksInPlace
  <2>2. e = d
    BY <2>1 DEF CarefulInv, OwnAddress, Dying, Removing
  <2> QED
    BY <2>1, <2>2 DEF Dying, Removing
<1>3. CASE scsi[addr[d]].own \in Devs
  BY <1>1, <1>3, ResolutionAssumption
     DEF CarefulInv, DisksInPlace, LinksInPlace, OwnAddress
<1> QED
  BY <1>1, <1>2, <1>3 DEF CarefulInv, DisksInPlace

LEMMA CreateNexusKeepsCareful ==
    ASSUME NEW d \in Devs, CarefulInv, CreateNexus(d), NoneWaits
    PROVE  NoSweep' /\ OwnAddress' /\ DisksDiffer' /\ LinksInPlace' /\ DisksInPlace' /\ FoundIsOwn'
<1> USE DEF CarefulInv, TypeInv, TypeOK
<1>1. PICK a \in Addrs \ Taken : addr' = [addr EXCEPT ![d] = a]
  BY DEF CreateNexus
<1>2. /\ pc[d] = "idle" /\ pc' = [pc EXCEPT ![d] = "link"]
      /\ UNCHANGED <<linked, scsi, node, seen, want>>
  BY DEF CreateNexus, Goto
<1>3. \A e \in Devs \ {d} : pc'[e] = pc[e] /\ addr'[e] = addr[e]
  BY <1>1, <1>2
<1>4. \A e \in Devs \ {d} : pc[e] # "idle" => addr[e] # a
  BY <1>1 DEF Taken, NoneWaits
<1>5. pc'[d] = "link" /\ addr'[d] = a
  BY <1>1, <1>2
<1>6. NoSweep'
  BY <1>3, <1>5 DEF NoSweep
<1>7. OwnAddress'
  BY <1>3, <1>4, <1>5 DEF OwnAddress
<1>8. DisksDiffer' /\ LinksInPlace'
  BY <1>2, <1>3, <1>5 DEF DisksDiffer, LinksInPlace, Removing
<1>9. DisksInPlace'
  BY <1>2, <1>3 DEF DisksInPlace, LinksInPlace, Dying, Removing
<1>10. FoundIsOwn'
  BY <1>2, <1>3, <1>5 DEF FoundIsOwn, Found
<1> QED
  BY <1>6, <1>7, <1>8, <1>9, <1>10

\* The other steps of an up move only its own place and what it has read.
LEMMA ResolveKeepsCareful ==
    ASSUME NEW d \in Devs, CarefulInv, UpStep(d)
    PROVE  NoSweep' /\ OwnAddress' /\ DisksDiffer' /\ LinksInPlace' /\ DisksInPlace' /\ FoundIsOwn'
<1> USE DEF CarefulInv, TypeInv, TypeOK
<1>1. UNCHANGED <<addr, scsi, node>>
  BY DEF UpStep, Link, ListBlock, ReadDevT, NodeMatches, NodeReadable, PollAgain,
         ResolveTimesOut, Mount, Unmount
<1>2. \A e \in Devs \ {d} : /\ pc'[e] = pc[e] /\ linked'[e] = linked[e]
                            /\ seen'[e] = seen[e] /\ want'[e] = want[e]
  BY DEF UpStep, Link, ListBlock, ReadDevT, NodeMatches, NodeReadable, PollAgain,
         ResolveTimesOut, Mount, Unmount, Goto
<1>3. /\ pc[d] \in {"link", "list"} \cup Found
      /\ pc'[d] \in {"list", "leaked"} \cup Found
  BY DEF UpStep, Link, ListBlock, ReadDevT, NodeMatches, NodeReadable, PollAgain, CheckFails,
         ResolveTimesOut, Mount, Unmount, Goto, Found
<1>4. linked[d] => linked'[d]
  BY DEF UpStep, Link, ListBlock, ReadDevT, NodeMatches, NodeReadable, PollAgain,
         ResolveTimesOut, Mount, Unmount, Goto
<1>5. NoSweep' /\ OwnAddress'
  BY <1>1, <1>2, <1>3 DEF NoSweep, OwnAddress, Found
<1>6. DisksDiffer' /\ LinksInPlace'
  BY <1>1, <1>2, <1>3 DEF DisksDiffer, LinksInPlace, Removing, Found
<1>7. DisksInPlace'
  BY <1>1, <1>2, <1>3, <1>4 DEF DisksInPlace, Dying, Removing, Found
<1>8. ASSUME pc'[d] \in Found
      PROVE  /\ scsi[addr[d]] # None
             /\ scsi[addr[d]].own = d
             /\ scsi[addr[d]].name = seen'[d]
             /\ pc'[d] # "devt" => scsi[addr[d]].devt = want'[d]
             /\ pc'[d] \notin {"devt", "stat"} => node[seen'[d]] = Makedev(want'[d])
  <2>1. CASE Link(d) \/ PollAgain(d) \/ ResolveTimesOut(d)
    BY <1>8, <2>1 DEF Link, PollAgain, ResolveTimesOut, Goto, Found
  <2>2. CASE ListBlock(d)
    BY <2>2, ListedIsOwn DEF ListBlock, Goto
  <2>3. CASE ReadDevT(d)
    BY <2>3 DEF ReadDevT, Goto, FoundIsOwn, Found
  <2>4. CASE NodeMatches(d)
    <3>1. PICK t \in DevTs : node[seen[d]] = Makedev(t)
      BY <2>4 DEF NodeMatches, Matches, Goto
    <3>2. DevTOf(Makedev(t)) = t
      BY DevTRoundTrip, ResolutionAssumption
    <3>3. node[seen[d]] = Makedev(want[d])
      BY <2>4, <3>1, <3>2 DEF NodeMatches, Matches
    <3> QED
      BY <2>4, <3>3 DEF NodeMatches, Goto, FoundIsOwn, Found
  <2>5. CASE NodeReadable(d)
    BY <2>5 DEF NodeReadable, Goto, FoundIsOwn, Found
  <2>6. CASE Mount(d) \/ Unmount(d)
    BY <2>6 DEF Mount, Unmount, Goto, FoundIsOwn, Found
  <2> QED
    BY <2>1, <2>2, <2>3, <2>4, <2>5, <2>6 DEF UpStep
<1>9. FoundIsOwn'
  BY <1>1, <1>2, <1>8 DEF FoundIsOwn
<1> QED
  BY <1>5, <1>6, <1>7, <1>9

\* The disk of the device goes into removal, under the address it keeps.
LEMMA UnlinkKeepsCareful ==
    ASSUME NEW d \in Devs, CarefulInv, Unlink(d)
    PROVE  NoSweep' /\ OwnAddress' /\ DisksDiffer' /\ LinksInPlace' /\ DisksInPlace' /\ FoundIsOwn'
<1> USE DEF CarefulInv, TypeInv, TypeOK
<1>1. /\ pc[d] = "unlink" /\ pc' = [pc EXCEPT ![d] = "rm_nexus"]
      /\ linked' = [linked EXCEPT ![d] = FALSE]
      /\ UNCHANGED <<addr, node, seen, want>>
  BY DEF Unlink, Goto, NoSweep
<1>2. \A a \in Addrs :
         scsi'[a] = IF scsi[a] # None /\ scsi[a].own = d
                    THEN [scsi[a] EXCEPT !.own = "gone"] ELSE scsi[a]
  BY DEF Unlink
<1>3. \A a \in Addrs : scsi'[a] # None =>
         /\ scsi[a] # None
         /\ scsi'[a].name = scsi[a].name /\ scsi'[a].devt = scsi[a].devt
         /\ scsi'[a].own = IF scsi[a].own = d THEN "gone" ELSE scsi[a].own
  BY <1>2 DEF Disks
<1>4. NoSweep' /\ OwnAddress'
  BY <1>1 DEF NoSweep, OwnAddress
<1>5. DisksDiffer' /\ LinksInPlace'
  BY <1>1, <1>3 DEF DisksDiffer, LinksInPlace
<1>6. DisksInPlace'
  BY <1>1, <1>3, ResolutionAssumption DEF DisksInPlace, Dying, Removing
<1>7. ASSUME NEW e \in Devs, pc'[e] \in Found
      PROVE  pc'[e] = pc[e] /\ addr[e] \in Addrs /\ scsi'[addr[e]] = scsi[addr[e]]
  <2>1. pc'[d] = "rm_nexus"
    BY <1>1
  <2>2. e # d
    BY <1>7, <2>1 DEF Found
  <2>3. pc'[e] = pc[e]
    BY <1>1, <2>2
  <2>4. addr[e] \in Addrs /\ scsi[addr[e]].own = e
    BY <1>7, <2>3 DEF Found, FoundIsOwn, Placed
  <2> QED
    BY <1>2, <2>2, <2>3, <2>4
<1>8. FoundIsOwn'
  BY <1>1, <1>7 DEF FoundIsOwn
<1> QED
  BY <1>4, <1>5, <1>6, <1>8

LEMMA DownKeepsCareful ==
    ASSUME NEW d \in Devs, CarefulInv, DownStep(d)
    PROVE  NoSweep' /\ OwnAddress' /\ DisksDiffer' /\ LinksInPlace' /\ DisksInPlace' /\ FoundIsOwn'
<1> USE DEF CarefulInv, TypeInv, TypeOK
<1>1. CASE BeginDown(d)
  <2>1. /\ pc[d] \in {"live", "leaked"} /\ pc' = [pc EXCEPT ![d] = "unlink"]
        /\ UNCHANGED <<addr, linked, scsi, node, seen, want>>
    BY <1>1 DEF BeginDown, Goto
  <2> QED
    BY <2>1 DEF NoSweep, OwnAddress, DisksDiffer, LinksInPlace, DisksInPlace, FoundIsOwn,
                Found, Dying, Removing
<1>2. CASE Unlink(d)
  BY <1>2, UnlinkKeepsCareful
<1>3. CASE RmNexus(d)
  <2>1. /\ pc[d] = "rm_nexus" /\ pc' = [pc EXCEPT ![d] = "wait"]
        /\ UNCHANGED <<addr, linked, scsi, node, seen, want>>
    BY <1>3 DEF RmNexus, Goto
  <2> QED
    BY <2>1 DEF NoSweep, OwnAddress, DisksDiffer, LinksInPlace, DisksInPlace,
                FoundIsOwn, Found, Dying, Removing
<1>4. CASE WaitEnds(d)
  <2>1. /\ pc[d] = "wait" /\ pc' = [pc EXCEPT ![d] = "idle"]
        /\ scsi[addr[d]] = None
        /\ addr' = [addr EXCEPT ![d] = None]
        /\ UNCHANGED <<linked, scsi, node>>
        /\ \A e \in Devs \ {d} : seen'[e] = seen[e] /\ want'[e] = want[e]
    BY <1>4 DEF WaitEnds, Return, Goto
  <2>2. NoSweep' /\ OwnAddress' /\ DisksDiffer' /\ LinksInPlace'
    BY <2>1 DEF NoSweep, OwnAddress, DisksDiffer, LinksInPlace, Removing
  <2>3. DisksInPlace'
    BY <2>1 DEF DisksInPlace, LinksInPlace, Dying, Removing
  <2>4. FoundIsOwn'
    BY <2>1 DEF FoundIsOwn, Found
  <2> QED
    BY <2>2, <2>3, <2>4
<1> QED
  BY <1>1, <1>2, <1>3, <1>4 DEF DownStep

\* Whatever is killed keeps its nexus, and with it its address.
LEMMA KilledKeepsCareful ==
    ASSUME NEW d \in Devs, CarefulInv, Killed(d)
    PROVE  NoSweep' /\ OwnAddress' /\ DisksDiffer' /\ LinksInPlace' /\ DisksInPlace' /\ FoundIsOwn'
<1> USE DEF CarefulInv, TypeInv, TypeOK
<1>1. /\ pc[d] # "idle" /\ pc[d] # "wait" /\ pc' = [pc EXCEPT ![d] = "leaked"]
      /\ UNCHANGED <<addr, linked, scsi, node, seen, want>>
  BY DEF Killed
<1>2. NoSweep' /\ OwnAddress' /\ DisksDiffer'
  BY <1>1 DEF NoSweep, OwnAddress, DisksDiffer
<1>3. LinksInPlace' /\ DisksInPlace' /\ FoundIsOwn'
  BY <1>1 DEF LinksInPlace, DisksInPlace, FoundIsOwn, Found, Dying, Removing
<1> QED
  BY <1>2, <1>3

LEMMA CarefulStep == CarefulInv /\ [CarefulNext]_vars => CarefulInv'
<1> SUFFICES ASSUME CarefulInv, [CarefulNext]_vars PROVE CarefulInv'
  OBVIOUS
<1>1. CASE KernelStep
  BY <1>1, KernelKeepsCareful
<1>2. ASSUME NEW d \in Devs, UpStep(d) PROVE CarefulInv'
  BY <1>2, CarefulTypes, ResolveKeepsCareful DEF CarefulNext, CarefulInv
<1>3. ASSUME NEW d \in Devs, DownStep(d) PROVE CarefulInv'
  BY <1>3, CarefulTypes, DownKeepsCareful DEF CarefulNext, CarefulInv
<1>4. CASE UNCHANGED vars
  BY <1>4 DEF vars, CarefulInv, TypeInv, TypeOK, Placed, NoSweep, OwnAddress,
              DisksDiffer, LinksInPlace, DisksInPlace, FoundIsOwn, Found, Dying, Removing
<1>5. ASSUME NEW d \in Devs, CreateNexus(d), NoneWaits PROVE CarefulInv'
  BY <1>5, CarefulTypes, CreateNexusKeepsCareful DEF CarefulNext, CarefulInv
<1>6. ASSUME NEW d \in Devs, Killed(d) PROVE CarefulInv'
  BY <1>6, CarefulTypes, KilledKeepsCareful DEF CarefulNext, CarefulInv
<1> QED
  BY <1>1, <1>2, <1>3, <1>4, <1>5, <1>6 DEF CarefulNext

\* What a node that passed the comparison reaches, if anything.
LEMMA FoundOpensOwn ==
    ASSUME CarefulInv, NEW d \in Devs, pc[d] \in {"read", "live"}, Readable(seen[d])
    PROVE  Opened(d) = {d}
<1> USE DEF CarefulInv, TypeInv, TypeOK
<1>1. /\ addr[d] \in Addrs /\ scsi[addr[d]] # None /\ scsi[addr[d]].own = d
      /\ scsi[addr[d]].devt = want[d] /\ node[seen[d]] = Makedev(want[d])
  BY DEF FoundIsOwn, Found, Placed
<1>2. ASSUME NEW k \in Behind(seen[d]) PROVE k = scsi[addr[d]]
  <2>1. PICK a \in Addrs : k = scsi[a] /\ scsi[a] # None
    BY DEF Behind, Attached
  <2>2. scsi[a].devt \in DevTs /\ want[d] \in DevTs
    BY <1>1, <2>1 DEF Disks
  <2>3. scsi[a].devt = want[d]
    BY <1>1, <2>1, <2>2, MakedevInjective DEF Behind
  <2>4. a = addr[d]
    BY <1>1, <2>1, <2>3 DEF DisksDiffer
  <2> QED
    BY <2>1, <2>4
<1>3. Behind(seen[d]) # {}
  BY DEF Readable
<1> QED
  BY <1>1, <1>2, <1>3 DEF Opened

\* Any number of ups and teardowns at once, killed anywhere but in the wait: as
\* long as no nexus is created while a teardown waits for its disk, and the
\* kernel is done within that wait, the node an up answers with, and the one
\* mount opens by the same name later, is the device's own disk.
THEOREM CarefulUpOpensItsOwn == CarefulSpec => OwnDisk
<1>1. CarefulInv /\ [CarefulNext]_vars
        => [\A d \in Devs : NodeReadable(d) \/ Mount(d) => Opened(d) = {d}]_vars
  <2> SUFFICES ASSUME CarefulInv, NEW d \in Devs, NodeReadable(d) \/ Mount(d)
               PROVE  Opened(d) = {d}
    OBVIOUS
  <2> QED
    BY FoundOpensOwn DEF NodeReadable, Mount, Goto
<1> QED
  BY <1>1, CarefulInit, CarefulStep, PTL DEF CarefulSpec, OwnDisk

\* The types again, for the specification the run checks.
THEOREM CarefulWellTyped == CarefulSpec => []TypeOK
<1>1. CarefulInv => TypeOK
  BY DEF CarefulInv, TypeInv
<1> QED
  BY <1>1, CarefulInit, CarefulStep, PTL DEF CarefulSpec

=============================================================================
