------------------------------- MODULE Cleanup -------------------------------
(***************************************************************************)
(* cleanup.rs: force_cleanup and cleanup_all, one system call at a time,   *)
(* against the actors of DeviceLifecycle, which go on while a sweep runs.  *)
(* A sweep is a process of its own (`obdctl cleanup`) or the listener      *)
(* thread of the signal handler inside some actor's process, which ends    *)
(* that process when it is through.                                        *)
(*                                                                         *)
(* The sweep works on what the directories held when it listed them.       *)
(***************************************************************************)
EXTENDS DeviceLifecycle

CONSTANTS
    NoActor,      \* the sweep is a process of its own
    SweptMounts,  \* the mountpoints force_cleanup is given
    MountsUnreadable  \* whether a read of /proc/mounts may fail

ASSUME CleanupAssumption ==
    /\ SweptMounts \subseteq Mountpoints
    /\ NoActor \notin Actors
    /\ MountsUnreadable \in BOOLEAN

VARIABLES
    spc,       \* where the sweep is
    host,      \* the actor whose process it runs in
    todo,      \* what is left of the list it walks
    cur,       \* the nexus it is removing
    swept,     \* the report: nexuses, backstores, unmounted
    quiet      \* since the sweep began no actor took a step and all it looked
               \* at could be read

sweep     == <<spc, host, todo, cur, swept, quiet>>
sweepVars == <<vars, sweep>>

SweepPCs == {"off", "mounts", "nexuses", "links", "lun", "tpgt", "naa",
             "backstores", "hba", "done"}

NothingSwept == [nexuses |-> {}, backstores |-> {}, unmounted |-> {}]

SweepTypeOK ==
    /\ TypeOK
    /\ spc \in SweepPCs
    /\ host \in Actors \cup {NoActor}
    /\ todo \subseteq IF spc = "mounts" THEN SweptMounts
                      ELSE IF spc = "backstores" THEN OurNames ELSE OurNaas
    /\ cur \in OurNaas \cup {NoName}
    /\ swept \in [nexuses : SUBSET OurNaas, backstores : SUBSET OurNames,
                  unmounted : SUBSET SweptMounts]
    /\ quiet \in BOOLEAN

SweepInit ==
    /\ Init
    /\ spc = "off" /\ host = NoActor /\ todo = {} /\ cur = NoName
    /\ swept = NothingSwept /\ quiet = FALSE

-----------------------------------------------------------------------------

SweepTo(from, to) == spc = from /\ spc' = to

\* force_cleanup is called; a signal reaches the listener while its process
\* does anything at all.
BeginSweep ==
    /\ SweepTo("off", "mounts")
    /\ host' \in Actors \cup {NoActor}
    /\ todo' = SweptMounts
    /\ cur' = NoName
    /\ swept' = NothingSwept
    /\ quiet' = TRUE
    /\ UNCHANGED vars

\* unmount_path on the next mountpoint: unmounted; nothing mounted there, or given
\* up on after the last EBUSY; or not found in a table that could not be read.
\* The retries in between change nothing.
SweepMount ==
    /\ spc = "mounts"
    /\ \E m \in todo :
          /\ todo' = todo \ {m}
          /\ \/ /\ mnt[m] # NoName /\ ~Busy(m)
                /\ UnmountAt(m)
                /\ swept' = [swept EXCEPT !.unmounted = @ \cup {m}]
                /\ UNCHANGED quiet
             \/ /\ mnt[m] = NoName \/ Busy(m)
                /\ UNCHANGED <<mnt, swept, quiet>>
             \/ /\ MountsUnreadable
                /\ quiet' = FALSE
                /\ UNCHANGED <<mnt, swept>>
    /\ UNCHANGED <<hba, backstore, devcfg, nexus, lun, handles, sub, persisted, outside,
                   daemon, spc, host, cur>>

\* (fault) every nexus there is
AllNexusDirs == {a \in Naas : nexus[a] > 0}

\* The nexuses with NAA_PREFIX
OurNexusDirs == {a \in OurNaas : nexus[a] > 0}

\* A directory, or an entry of it, that cannot be read is passed over.
ListNexuses ==
    /\ todo = {}
    /\ SweepTo("mounts", "nexuses")
    /\ todo' \in SUBSET OurNexusDirs
    /\ quiet' = (quiet /\ todo' = OurNexusDirs)
    /\ UNCHANGED <<vars, host, cur, swept>>

SweepNexus ==
    /\ SweepTo("nexuses", "links")
    /\ \E a \in todo :
          /\ cur' = a
          /\ todo' = todo \ {a}
    /\ UNCHANGED <<vars, host, swept, quiet>>

\* (fault) the links stay
SkipLinks ==
    /\ SweepTo("links", "lun")
    /\ UNCHANGED <<vars, host, todo, cur, swept, quiet>>

\* Whatever lun_0 links to, if it can be listed.
SweepLinks ==
    /\ SweepTo("links", "lun")
    /\ \/ RmSymlink(cur, lun[cur]) /\ UNCHANGED quiet
       \/ UNCHANGED lun /\ quiet' = FALSE
    /\ UNCHANGED <<hba, backstore, devcfg, nexus, mnt, handles, sub, persisted, outside,
                   daemon, host, todo, cur, swept>>

SweepNexusDirs ==
    /\ \/ SweepTo("lun", "tpgt") /\ RmdirNexus(cur, 3)
       \/ SweepTo("tpgt", "naa") /\ RmdirNexus(cur, 2)
    /\ UNCHANGED <<hba, backstore, devcfg, lun, mnt, handles, sub, persisted, outside,
                   daemon, host, todo, cur, swept, quiet>>

\* The nexus is reported, removed or not.
SweepNaaDir ==
    /\ SweepTo("naa", "nexuses")
    /\ RmdirNexus(cur, 1)
    /\ swept' = [swept EXCEPT !.nexuses = @ \cup {cur}]
    /\ cur' = NoName
    /\ UNCHANGED <<hba, backstore, devcfg, lun, mnt, handles, sub, persisted, outside,
                   daemon, host, todo, quiet>>

OurBackstores == {n \in OurNames : hba /\ backstore[n] # "absent"}

\* Passing over what cannot be read, as ListNexuses does.
ListBackstores ==
    /\ todo = {}
    /\ SweepTo("nexuses", "backstores")
    /\ todo' \in SUBSET OurBackstores
    /\ quiet' = (quiet /\ todo' = OurBackstores)
    /\ UNCHANGED <<vars, host, cur, swept>>

\* A backstore that is still there is removed if nothing links to it, and
\* reported in any case.
SweepBackstore ==
    /\ spc = "backstores"
    /\ \E n \in todo :
          /\ todo' = todo \ {n}
          /\ IF backstore[n] # "absent"
             THEN /\ RmdirBackstore(n)
                  /\ swept' = [swept EXCEPT !.backstores = @ \cup {n}]
             ELSE UNCHANGED <<backstore, devcfg, swept>>
    /\ UNCHANGED <<hba, nexus, lun, mnt, handles, sub, persisted, outside, daemon, spc,
                   host, cur, quiet>>

SweepHba ==
    /\ todo = {}
    /\ SweepTo("backstores", "done")
    /\ RmdirHba
    /\ UNCHANGED <<backstore, devcfg, nexus, lun, mnt, handles, sub, persisted, outside,
                   daemon, host, todo, cur, swept, quiet>>

\* The process the sweep runs in is gone.
SweeperExits ==
    /\ spc' = "off"
    /\ IF host \in Actors /\ pc[host] # "idle" THEN Crash(host) ELSE UNCHANGED vars
    /\ host' = NoActor
    /\ todo' = {}
    /\ swept' = NothingSwept
    /\ quiet' = FALSE
    /\ cur' = NoName

\* A command reports and ends; the listener thread ends its whole process,
\* whatever the other threads are in the middle of.
EndSweep == spc = "done" /\ SweeperExits

\* SIGKILL of that process, or its main thread ends first.
KillSweep == spc \notin {"off", "done"} /\ SweeperExits

SweepStep ==
    \/ BeginSweep \/ SweepMount \/ ListNexuses \/ SweepNexus \/ SweepLinks
    \/ SweepNexusDirs \/ SweepNaaDir \/ ListBackstores \/ SweepBackstore
    \/ SweepHba \/ EndSweep \/ KillSweep

Meanwhile == quiet' = FALSE /\ UNCHANGED <<spc, host, todo, cur, swept>>

\* The actors and the host go on meanwhile.
OthersStep ==
    /\ \/ NextNoCrash
       \/ \E p \in Actors \ {host} : Crash(p)
    /\ Meanwhile

SweepNext == SweepStep \/ OthersStep

SweepSpec == SweepInit /\ [][SweepNext]_sweepVars

-----------------------------------------------------------------------------
(* Correctness                                                             *)

SweptClean ==
    /\ \A a \in OurNaas : nexus[a] = 0 /\ lun[a] = NoName
    /\ \A n \in OurNames : backstore[n] = "absent"
    /\ hba = (ForeignNames # {})

\* A sweep nobody interferes with leaves nothing of ours behind, whatever ups
\* and teardowns were killed or gave up before it and wherever they were, as
\* long as it was given every mount there is, nobody is in one and no directory
\* it lists is unreadable.
QuietSweepIsComplete ==
    /\ spc = "done" /\ quiet
    /\ \A m \in Mountpoints : mnt[m] = NoName \/ (m \in SweptMounts /\ ~Busy(m))
    => SweptClean /\ \A m \in Mountpoints : mnt[m] = NoName

\* However it interleaves, it leaves other owners' nexuses and backstores alone.
SweepForeignUntouched == [][ForeignKept]_sweepVars

-----------------------------------------------------------------------------
(* What the documentation says and the code does not keep                  *)

\* cleanup.rs:160, 177: a signal unmounts the given mountpoints before the
\* process exits.  Here nothing outside is in the mount, no Dir was handed out
\* and the process does nothing else meanwhile.
SignalUnmounts ==
    [][\A p \in Actors :
          /\ spc = "done" /\ spc' = "off" /\ host = p /\ quiet
          /\ at[p] \in SweptMounts \ outside /\ \A q \in Actors : sub[q] = NoMount
          => mnt[at[p]] = NoName]_sweepVars

=============================================================================
