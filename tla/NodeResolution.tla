---------------------------- MODULE NodeResolution ----------------------------
(***************************************************************************)
(* Which disk an up ends with: configfs::resolve_block_device against a    *)
(* kernel that recycles SCSI addresses, disk names and dev_t numbers, and  *)
(* a udev that follows it with a delay; and wait_for_scsi_removal, which   *)
(* keeps a later up off a disk that is still going away.                   *)
(*                                                                         *)
(* A device here is one name and nexus over time.  Its up is seen from the *)
(* creation of the nexus on; the rest of it, and two callers on one name,  *)
(* are module DeviceLifecycle.  Callers on different devices interleave:   *)
(* nothing in the code takes a lock, and any of them may be killed.        *)
(***************************************************************************)
EXTENDS DevT

CONSTANTS
    Devs,    \* devices the callers bring up and down
    Addrs,   \* SCSI host:channel:target triples
    Nodes,   \* sdX names, of sysfs and of /dev
    DevTs,   \* major:minor numbers in use
    None

\* A disk remembers whose it is; "gone" once its LUN link was removed.
Disks == [own : Devs \cup {"gone"}, name : Nodes, devt : DevTs, ready : BOOLEAN]

ASSUME ResolutionAssumption ==
    /\ DevTs \subseteq DevTNumbers
    /\ "gone" \notin Devs
    /\ None \notin Disks
    /\ None \notin Devs \cup Addrs \cup Nodes \cup DevTs
    /\ None \notin {Makedev(t) : t \in DevTs}

VARIABLES
    pc,      \* where each device is
    addr,    \* the address its nexus was given
    linked,  \* is a backstore linked into its lun_0?
    scsi,    \* /sys/class/scsi_device/<address>:0, the disk or None
    node,    \* /dev: the st_rdev of each node, or None
    seen,    \* resolve's local: the name it read under the address
    want     \* resolve's local: the dev_t sysfs gave for it

vars == <<pc, addr, linked, scsi, node, seen, want>>

PCs == {"idle", "link", "list", "devt", "stat", "read", "live", "mounted", "leaked",
        "unlink", "rm_nexus", "wait", "sweep_unlink", "sweep_nexus"}

TypeOK ==
    /\ pc \in [Devs -> PCs]
    /\ addr \in [Devs -> Addrs \cup {None}]
    /\ linked \in [Devs -> BOOLEAN]
    /\ scsi \in [Addrs -> Disks \cup {None}]
    /\ node \in [Nodes -> {Makedev(t) : t \in DevTs} \cup {None}]
    /\ seen \in [Devs -> Nodes \cup {None}]
    /\ want \in [Devs -> DevTs \cup {None}]
    /\ \A d \in Devs : pc[d] \in {"devt", "stat", "read", "live", "mounted"} => seen[d] # None
    /\ \A d \in Devs : pc[d] \in {"stat", "read", "live", "mounted"} => want[d] # None

Init ==
    /\ pc = [d \in Devs |-> "idle"]
    /\ addr = [d \in Devs |-> None]
    /\ linked = [d \in Devs |-> FALSE]
    /\ scsi = [a \in Addrs |-> None]
    /\ node = [x \in Nodes |-> None]
    /\ seen = [d \in Devs |-> None]
    /\ want = [d \in Devs |-> None]

Attached == {scsi[a] : a \in Addrs} \ {None}

\* The disk an open of /dev/<x> reaches.
Behind(x) == {k \in Attached : Makedev(k.devt) = node[x]}

Readable(x) == \E k \in Behind(x) : k.ready

Goto(d, from, to) ==
    /\ pc[d] = from
    /\ pc' = [pc EXCEPT ![d] = to]

\* The addresses of the nexuses there are; a teardown that waits has removed
\* its own.
Taken == {addr[e] : e \in {x \in Devs : pc[x] \notin {"idle", "wait"}}}

-----------------------------------------------------------------------------
(* The kernel and udev                                                     *)

\* The disk of a linked LUN appears, under names and numbers free at the time.
Attach(d) ==
    /\ linked[d]
    /\ scsi[addr[d]] = None
    /\ \A k \in Attached : k.own # d
    /\ \E x \in Nodes, t \in DevTs :
          /\ \A k \in Attached : k.name # x /\ k.devt # t
          /\ scsi' = [scsi EXCEPT ![addr[d]] =
                         [own |-> d, name |-> x, devt |-> t, ready |-> FALSE]]
    /\ UNCHANGED <<pc, addr, linked, node, seen, want>>

\* It can be read some time later, and for some time after its link is gone.
BecomeReady(a) ==
    /\ scsi[a] # None /\ scsi[a].own # "gone" /\ ~scsi[a].ready
    /\ scsi' = [scsi EXCEPT ![a].ready = TRUE]
    /\ UNCHANGED <<pc, addr, linked, node, seen, want>>

Detach(a) ==
    /\ scsi[a] # None /\ scsi[a].own = "gone"
    /\ scsi' = [scsi EXCEPT ![a] = None]
    /\ UNCHANGED <<pc, addr, linked, node, seen, want>>

UdevAdd(a) ==
    /\ scsi[a] # None
    /\ node[scsi[a].name] # Makedev(scsi[a].devt)
    /\ node' = [node EXCEPT ![scsi[a].name] = Makedev(scsi[a].devt)]
    /\ UNCHANGED <<pc, addr, linked, scsi, seen, want>>

UdevRemove(x) ==
    /\ node[x] # None
    /\ \A k \in Attached : k.name # x
    /\ node' = [node EXCEPT ![x] = None]
    /\ UNCHANGED <<pc, addr, linked, scsi, seen, want>>

-----------------------------------------------------------------------------
(* up                                                                      *)

\* The nexus gets an address no other nexus has; a disk may still be going away
\* under it.
CreateNexus(d) ==
    /\ Goto(d, "idle", "link")
    /\ \E a \in Addrs \ Taken : addr' = [addr EXCEPT ![d] = a]
    /\ UNCHANGED <<linked, scsi, node, seen, want>>

Link(d) ==
    /\ Goto(d, "link", "list")
    /\ linked' = [linked EXCEPT ![d] = TRUE]
    /\ UNCHANGED <<addr, scsi, node, seen, want>>

\* (fault) an empty directory is taken for an entry
ListAnything(d) ==
    /\ Goto(d, "list", "devt")
    /\ seen' = [seen EXCEPT ![d] = IF scsi[addr[d]] = None THEN None ELSE scsi[addr[d]].name]
    /\ UNCHANGED <<addr, linked, scsi, node, want>>

\* read_dir of the address's block directory
ListBlock(d) ==
    /\ Goto(d, "list", "devt")
    /\ scsi[addr[d]] # None
    /\ seen' = [seen EXCEPT ![d] = scsi[addr[d]].name]
    /\ UNCHANGED <<addr, linked, scsi, node, want>>

BlockEntryExists(d) == scsi[addr[d]] # None /\ scsi[addr[d]].name = seen[d]

\* sysfs_devt, which needs that name to be still there
ReadDevT(d) ==
    /\ Goto(d, "devt", "stat")
    /\ BlockEntryExists(d)
    /\ want' = [want EXCEPT ![d] = scsi[addr[d]].devt]
    /\ UNCHANGED <<addr, linked, scsi, node, seen>>

Matches(d) == node[seen[d]] # None /\ DevTOf(node[seen[d]]) = want[d]

\* node_matches
NodeMatches(d) ==
    /\ Goto(d, "stat", "read")
    /\ Matches(d)
    /\ UNCHANGED <<addr, linked, scsi, node, seen, want>>

\* node_readable opens the node a second time, by its name.
NodeReadable(d) ==
    /\ Goto(d, "read", "live")
    /\ Readable(seen[d])
    /\ UNCHANGED <<addr, linked, scsi, node, seen, want>>

\* The name is gone from sysfs, the node is a recycled one, or it cannot be read.
CheckFails(d) ==
    \/ pc[d] = "devt" /\ ~BlockEntryExists(d)
    \/ pc[d] = "stat" /\ ~Matches(d)
    \/ pc[d] = "read" /\ ~Readable(seen[d])

\* After whichever check fails, the next poll starts with the directory.
PollAgain(d) ==
    /\ CheckFails(d)
    /\ pc' = [pc EXCEPT ![d] = "list"]
    /\ seen' = [seen EXCEPT ![d] = None]
    /\ want' = [want EXCEPT ![d] = None]
    /\ UNCHANGED <<addr, linked, scsi, node>>

\* NoBlockDevice after 30 s: up returns an error and leaves what it built.
ResolveTimesOut(d) ==
    /\ Goto(d, "list", "leaked")
    /\ UNCHANGED <<addr, linked, scsi, node, seen, want>>

\* Live::mount opens the node a third time.
Mount(d) ==
    /\ Goto(d, "live", "mounted")
    /\ Readable(seen[d])
    /\ UNCHANGED <<addr, linked, scsi, node, seen, want>>

Unmount(d) ==
    /\ Goto(d, "mounted", "live")
    /\ UNCHANGED <<addr, linked, scsi, node, seen, want>>

-----------------------------------------------------------------------------
(* Teardown                                                                *)

\* Live::down and Drop, or teardown_named on whatever is there.
BeginDown(d) ==
    /\ \/ Goto(d, "live", "unlink")
       \/ Goto(d, "leaked", "unlink")
    /\ UNCHANGED <<addr, linked, scsi, node, seen, want>>

\* cleanup_all takes any device that is not mounted.
BeginSweep(d) ==
    /\ \/ Goto(d, "live", "sweep_unlink")
       \/ Goto(d, "leaked", "sweep_unlink")
    /\ UNCHANGED <<addr, linked, scsi, node, seen, want>>

\* rm_symlink: the kernel starts to remove the disk.
Unlink(d) ==
    /\ \/ Goto(d, "unlink", "rm_nexus")
       \/ Goto(d, "sweep_unlink", "sweep_nexus")
    /\ linked' = [linked EXCEPT ![d] = FALSE]
    /\ scsi' = [a \in Addrs |->
                   IF scsi[a] # None /\ scsi[a].own = d
                   THEN [scsi[a] EXCEPT !.own = "gone"] ELSE scsi[a]]
    /\ UNCHANGED <<addr, node, seen, want>>

\* The nexus goes and its address is free; teardown remembers it for the wait.
RmNexus(d) ==
    /\ Goto(d, "rm_nexus", "wait")
    /\ UNCHANGED <<addr, linked, scsi, node, seen, want>>

Return(d, from) ==
    /\ Goto(d, from, "idle")
    /\ addr' = [addr EXCEPT ![d] = None]
    /\ seen' = [seen EXCEPT ![d] = None]
    /\ want' = [want EXCEPT ![d] = None]
    /\ UNCHANGED <<linked, scsi, node>>

\* wait_for_scsi_removal
WaitEnds(d) ==
    /\ Return(d, "wait")
    /\ scsi[addr[d]] = None

\* The disk is still there after 15 s: a warning, and the teardown returns; or it
\* is killed.
WaitTimesOut(d) ==
    /\ Return(d, "wait")
    /\ scsi[addr[d]] # None

\* cleanup_all removes the nexus and does not look at the disk.
SweepNexus(d) == Return(d, "sweep_nexus")

\* A call is killed, or an up fails; the nexus stays with what it has.
Killed(d) ==
    /\ pc[d] \notin {"idle", "live", "mounted", "leaked", "wait"}
    /\ pc' = [pc EXCEPT ![d] = "leaked"]
    /\ UNCHANGED <<addr, linked, scsi, node, seen, want>>

-----------------------------------------------------------------------------

KernelStep ==
    \/ \E d \in Devs : Attach(d)
    \/ \E a \in Addrs : BecomeReady(a) \/ Detach(a) \/ UdevAdd(a)
    \/ \E x \in Nodes : UdevRemove(x)

\* The rest of an up.
UpStep(d) ==
    \/ Link(d) \/ ListBlock(d) \/ ReadDevT(d) \/ NodeMatches(d) \/ NodeReadable(d)
    \/ PollAgain(d) \/ ResolveTimesOut(d) \/ Mount(d) \/ Unmount(d)

DownStep(d) == BeginDown(d) \/ Unlink(d) \/ RmNexus(d) \/ WaitEnds(d)

Next ==
    \/ KernelStep
    \/ \E d \in Devs :
          \/ CreateNexus(d) \/ UpStep(d) \/ DownStep(d) \/ Killed(d)
          \/ BeginSweep(d) \/ SweepNexus(d) \/ WaitTimesOut(d)

Spec == Init /\ [][Next]_vars

\* Callers that take care, less than README.md:413 asks of the test suites: none
\* creates a nexus while a teardown waits for its disk, and no teardown is killed
\* in that wait, or gives it up: the kernel is done in its 15 s.
NoneWaits == \A d \in Devs : pc[d] # "wait"

CarefulNext ==
    \/ KernelStep
    \/ \E d \in Devs :
          \/ CreateNexus(d) /\ NoneWaits
          \/ UpStep(d) \/ DownStep(d) \/ Killed(d)

CarefulSpec == Init /\ [][CarefulNext]_vars

\* The same care, and sweeps.
SweepSpec == Init /\ [][CarefulNext \/ \E d \in Devs : BeginSweep(d) \/ SweepNexus(d)]_vars

-----------------------------------------------------------------------------
(* Correctness                                                             *)

Opened(d) == {k.own : k \in Behind(seen[d])}

\* The node an up returns, and the one mount opens, is the disk of that device:
\* not one that is going away, not another device's.
OwnDisk ==
    [][\A d \in Devs : NodeReadable(d) \/ Mount(d) => Opened(d) = {d}]_vars

=============================================================================
