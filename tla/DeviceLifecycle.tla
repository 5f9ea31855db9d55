--------------------------- MODULE DeviceLifecycle ---------------------------
(***************************************************************************)
(* device.rs: the typestate Device -> Live -> Mounted -> (gone | persisted) *)
(* of several actors (threads or processes) over one target tree.  An      *)
(* actor holds one device at a time.  A step is one system call; in        *)
(* between, the other actors, the daemon and the rest of the host move.    *)
(*                                                                         *)
(*   up        reset mk_hba mk_bs configure enable await                   *)
(*             mk_naa mk_tpgt mk_lun nexus link resolve                    *)
(*   handles   live opendir mounted unmount drop_mounted drop              *)
(*   teardown  td_link td_lun td_tpgt td_naa td_bs td_hba                  *)
(*                                                                         *)
(* Which /dev node an up resolves, and what teardown waits for at its end, *)
(* is module NodeResolution.                                               *)
(***************************************************************************)
EXTENDS TargetTree, FiniteSets

CONSTANTS
    Actors,        \* threads and processes that use the library
    NoMount,       \* not mounted
    NoDevice,      \* no device
    EnableTries,   \* write_attr's retries of `enable` (100 in the code)
    UnmountTries   \* umount attempts of unmount() and of Drop (20 in the code)

ASSUME LifecycleAssumption ==
    /\ EnableTries \in Nat \ {0}
    /\ UnmountTries \in Nat \ {0}
    /\ NoMount \notin Mountpoints

Devices == [name : Names, naa : Naas, conf : Confs \cup {NoConf}]

ASSUME NoDeviceAssumption == NoDevice \notin Devices

\* What a resultFile holds is the answer to the launch of an actor, or:
\*   none  nothing            late  the answer to a launch given up on
\*   old   was there when the up that uses the file began
\*   kept  so was this, and the file could not be removed
\* A label is history: it records how the content came about, no step depends on it.
ASSUME AnswerAssumption == Actors \cap {"none", "old", "late", "kept"} = {}

VARIABLES
    pc,         \* where each actor is
    dev,        \* the Device it works on
    armed,      \* Live::armed, TRUE also during a teardown by name
    at,         \* where its Mounted is mounted
    tries,      \* attempts made in the loop it is in
    sub,        \* the mount that a Dir it got from create_subdir is open on
    persisted,  \* devices handed off with persist and not taken down since
    outside,    \* mountpoints that something outside the library is in
    jobs,       \* launches the daemon has not reported on
    result      \* per config, the content of its resultFile

handles == <<pc, dev, armed, at, tries>>
daemon  == <<jobs, result>>
vars    == <<tree, handles, sub, persisted, outside, daemon>>

-----------------------------------------------------------------------------
(* Places                                                                  *)

Teardown == {"td_link", "td_lun", "td_tpgt", "td_naa", "td_bs", "td_hba"}

\* The points of up that return early with `?`; no Live exists yet, so nothing
\* is torn down.
Fallible == {"reset", "mk_hba", "mk_bs", "configure", "enable", "mk_naa",
             "mk_tpgt", "mk_lun", "nexus", "link", "resolve"}

\* An up that has no answer yet.
Launching == {"reset", "mk_hba", "mk_bs", "configure", "enable", "await"}

Launched == {"mk_naa", "mk_tpgt", "mk_lun", "nexus", "link"}

\* A Mounted value exists, or is being consumed.
HasMount == {"opendir", "mounted", "unmount", "drop_mounted"}

PCs == {"idle", "await", "live", "drop"} \cup Fallible \cup HasMount \cup Teardown

\* The attempts the loop an actor is in may make; one where there is no loop.
TriesAllowed(l) ==
    IF l = "enable" THEN EnableTries
    ELSE IF l \in {"unmount", "drop_mounted"} THEN UnmountTries ELSE 1

\* What a resultFile may hold.
Contents == [by : Actors \cup {"none", "old", "late", "kept"}, ok : BOOLEAN]

NoResult == [by |-> "none", ok |-> FALSE]

TypeOK ==
    /\ TreeTypeOK
    /\ pc \in [Actors -> PCs]
    /\ dev \in [Actors -> Devices \cup {NoDevice}]
    /\ \A p \in Actors : pc[p] # "idle" => dev[p] \in Devices
    /\ armed \in [Actors -> BOOLEAN]
    /\ at \in [Actors -> Mountpoints \cup {NoMount}]
    /\ tries \in [Actors -> Nat]
    /\ \A p \in Actors : tries[p] < TriesAllowed(pc[p])
    /\ sub \in [Actors -> Mountpoints \cup {NoMount}]
    /\ persisted \subseteq [name : Names, naa : Naas]
    /\ outside \subseteq Mountpoints
    /\ jobs \subseteq [conf : Confs, by : Actors \cup {"late"}]
    /\ result \in [Confs -> Contents]

Init ==
    /\ TreeInit
    /\ pc = [p \in Actors |-> "idle"]
    /\ dev = [p \in Actors |-> NoDevice]
    /\ armed = [p \in Actors |-> FALSE]
    /\ at = [p \in Actors |-> NoMount]
    /\ tries = [p \in Actors |-> 0]
    /\ sub = [p \in Actors |-> NoMount]
    /\ persisted = {}
    /\ outside = {}
    /\ jobs = {}
    /\ result = [c \in Confs |-> NoResult]

-----------------------------------------------------------------------------
(* Helpers                                                                 *)

Goto(p, from, to) ==
    /\ pc[p] = from
    /\ pc' = [pc EXCEPT ![p] = to]

\* The value the actor held has been dropped to the last field.
Release(p) ==
    /\ pc' = [pc EXCEPT ![p] = "idle"]
    /\ dev' = [dev EXCEPT ![p] = NoDevice]
    /\ armed' = [armed EXCEPT ![p] = FALSE]
    /\ at' = [at EXCEPT ![p] = NoMount]
    /\ tries' = [tries EXCEPT ![p] = 0]

\* umount(2) answers EBUSY: somebody else is in the mount, a Dir from
\* create_subdir is open, or a Mounted still holds its own.
Busy(m) ==
    \/ m \in outside
    \/ \E p \in Actors : sub[p] = m \/ (pc[p] = "mounted" /\ at[p] = m)

\* Nobody waits for the launch any more; a late answer is marked as one.
GiveUp(p) ==
    jobs' = {[conf |-> j.conf, by |-> IF j.by = p THEN "late" ELSE j.by] : j \in jobs}

Labelled(r, l) == IF r.by = "none" THEN r ELSE [by |-> l, ok |-> r.ok]

-----------------------------------------------------------------------------
(* Device::new and Device::up                                              *)

\* (fault) any name is accepted
BeginUpAnyName(p) ==
    /\ Goto(p, "idle", "reset")
    /\ \E d \in [name : Names, naa : OurNaas, conf : Confs] :
          /\ dev' = [dev EXCEPT ![p] = d]
          /\ result' = [result EXCEPT ![d.conf] = Labelled(@, "old")]
    /\ UNCHANGED <<tree, armed, at, tries, sub, persisted, outside, jobs>>

\* Device::new and the call of up.  A name without DEV_PREFIX is refused.
BeginUp(p) ==
    /\ Goto(p, "idle", "reset")
    /\ \E d \in [name : OurNames, naa : OurNaas, conf : Confs] :
          /\ dev' = [dev EXCEPT ![p] = d]
          /\ result' = [result EXCEPT ![d.conf] = Labelled(@, "old")]
    /\ UNCHANGED <<tree, armed, at, tries, sub, persisted, outside, jobs>>

\* (fault) the old resultFile stays
KeepResult(p) ==
    /\ Goto(p, "reset", "mk_hba")
    /\ UNCHANGED <<tree, dev, armed, at, tries, sub, persisted, outside, daemon>>

\* remove_file, whose failure is ignored.
ResetResult(p) ==
    /\ Goto(p, "reset", "mk_hba")
    /\ \E r \in {NoResult, Labelled(result[dev[p].conf], "kept")} :
          result' = [result EXCEPT ![dev[p].conf] = r]
    /\ UNCHANGED <<tree, dev, armed, at, tries, sub, persisted, outside, jobs>>

CreateHba(p) ==
    /\ Goto(p, "mk_hba", "mk_bs")
    /\ MkdirHba
    /\ UNCHANGED <<backstore, devcfg, nexus, lun, mnt, dev, armed, at, tries, sub,
                   persisted, outside, daemon>>

CreateBackstore(p) ==
    /\ Goto(p, "mk_bs", "configure")
    /\ MkdirBackstore(dev[p].name)
    /\ UNCHANGED <<hba, devcfg, nexus, lun, mnt, dev, armed, at, tries, sub, persisted,
                   outside, daemon>>

\* dev_config and max_data_area_mb.  The directory is not ours yet: it may be
\* another actor's, and may be gone again.
Configure(p) ==
    /\ Goto(p, "configure", "enable")
    /\ WriteDevConfig(dev[p].name, dev[p].conf)
    /\ UNCHANGED <<hba, backstore, nexus, lun, mnt, dev, armed, at, tries, sub,
                   persisted, outside, daemon>>

\* The write that starts the daemon on whatever config the backstore names now.
EnableSucceeds(p) ==
    /\ Goto(p, "enable", "await")
    /\ Enable(dev[p].name)
    /\ jobs' = jobs \cup {[conf |-> devcfg[dev[p].name], by |-> p]}
    /\ tries' = [tries EXCEPT ![p] = 0]
    /\ UNCHANGED <<hba, devcfg, nexus, lun, mnt, dev, armed, at, sub, persisted, outside,
                   result>>

\* (fault) one attempt too many
EnableAgainOnce(p) ==
    /\ pc[p] = "enable"
    /\ backstore[dev[p].name] = "made"
    /\ tries[p] < EnableTries
    /\ tries' = [tries EXCEPT ![p] = @ + 1]
    /\ UNCHANGED <<tree, pc, dev, armed, at, sub, persisted, outside, daemon>>

\* EAGAIN: the daemon is still attaching.
EnableAgain(p) ==
    /\ pc[p] = "enable"
    /\ backstore[dev[p].name] = "made"
    /\ tries[p] + 1 < EnableTries
    /\ tries' = [tries EXCEPT ![p] = @ + 1]
    /\ UNCHANGED <<tree, pc, dev, armed, at, sub, persisted, outside, daemon>>

\* Every early return: an I/O error, EEXIST, EAGAIN on the last attempt, no
\* block device in time.
UpFails(p) ==
    /\ pc[p] \in Fallible
    /\ Release(p)
    /\ UNCHANGED <<tree, sub, persisted, outside, daemon>>

\* The answer may be one to an earlier launch; its own comes late then.
AwaitSuccess(p) ==
    /\ Goto(p, "await", "mk_naa")
    /\ result[dev[p].conf].ok
    /\ GiveUp(p)
    /\ UNCHANGED <<tree, dev, armed, at, tries, sub, persisted, outside, result>>

\* A reported failure builds an armed Live and tears it down.
LaunchRefused(p) ==
    /\ Goto(p, "await", "td_link")
    /\ result[dev[p].conf].by # "none"
    /\ ~result[dev[p].conf].ok
    /\ GiveUp(p)
    /\ armed' = [armed EXCEPT ![p] = TRUE]
    /\ UNCHANGED <<tree, dev, at, tries, sub, persisted, outside, result>>

\* So does an empty result at the deadline; the answer may have come after the
\* last poll.
LaunchTimesOut(p) ==
    /\ Goto(p, "await", "td_link")
    /\ armed' = [armed EXCEPT ![p] = TRUE]
    /\ GiveUp(p)
    /\ UNCHANGED <<tree, dev, at, tries, sub, persisted, outside, result>>

\* create_dir_all(lun0): the levels that are missing, top down.
CreateNexus(p) ==
    /\ \/ Goto(p, "mk_naa", "mk_tpgt") /\ MkdirNexus(dev[p].naa, 1)
       \/ Goto(p, "mk_tpgt", "mk_lun") /\ MkdirNexus(dev[p].naa, 2)
       \/ Goto(p, "mk_lun", "nexus")   /\ MkdirNexus(dev[p].naa, 3)
    /\ UNCHANGED <<hba, backstore, devcfg, lun, mnt, dev, armed, at, tries, sub, persisted,
                   outside, daemon>>

WriteNexus(p) ==
    /\ Goto(p, "nexus", "link")
    /\ nexus[dev[p].naa] >= 2
    /\ UNCHANGED <<tree, dev, armed, at, tries, sub, persisted, outside, daemon>>

Link(p) ==
    /\ Goto(p, "link", "resolve")
    /\ LinkLun(dev[p].naa, dev[p].name)
    /\ UNCHANGED <<hba, backstore, devcfg, nexus, mnt, dev, armed, at, tries, sub,
                   persisted, outside, daemon>>

\* Only now is there an armed Live for Drop to tear down.
Resolve(p) ==
    /\ Goto(p, "resolve", "live")
    /\ armed' = [armed EXCEPT ![p] = TRUE]
    /\ UNCHANGED <<tree, dev, at, tries, sub, persisted, outside, daemon>>

-----------------------------------------------------------------------------
(* Live and Mounted                                                        *)

\* Live::mount, up to mount(2).
Mount(p) ==
    /\ Goto(p, "live", "opendir")
    /\ lun[dev[p].naa] = dev[p].name
    /\ \E m \in Mountpoints :
          /\ MountAt(dev[p].name, m)
          /\ at' = [at EXCEPT ![p] = m]
    /\ UNCHANGED <<hba, backstore, devcfg, nexus, lun, dev, armed, tries, sub, persisted,
                   outside, daemon>>

MountFails(p) ==
    /\ Goto(p, "live", "drop")
    /\ UNCHANGED <<tree, dev, armed, at, tries, sub, persisted, outside, daemon>>

OpenDir(p) ==
    /\ Goto(p, "opendir", "mounted")
    /\ UNCHANGED <<tree, dev, armed, at, tries, sub, persisted, outside, daemon>>

\* No Mounted exists yet: only the Live is dropped.
OpenDirFails(p) ==
    /\ Goto(p, "opendir", "drop")
    /\ at' = [at EXCEPT ![p] = NoMount]
    /\ UNCHANGED <<tree, dev, armed, tries, sub, persisted, outside, daemon>>

\* create_subdir returns an owned Dir.
Subdir(p) ==
    /\ pc[p] = "mounted"
    /\ sub' = [sub EXCEPT ![p] = at[p]]
    /\ UNCHANGED <<tree, handles, persisted, outside, daemon>>

\* The caller drops that Dir whenever it likes.
DropSubdir(p) ==
    /\ sub[p] # NoMount
    /\ sub' = [sub EXCEPT ![p] = NoMount]
    /\ UNCHANGED <<tree, handles, persisted, outside, daemon>>

Unmount(p) ==
    /\ Goto(p, "mounted", "unmount")
    /\ UNCHANGED <<tree, dev, armed, at, tries, sub, persisted, outside, daemon>>

\* A Mounted going out of scope: Drop for Mounted runs first, then the drop
\* of its Live.
DropMounted(p) ==
    /\ Goto(p, "mounted", "drop_mounted")
    /\ UNCHANGED <<tree, dev, armed, at, tries, sub, persisted, outside, daemon>>

\* umount(2) goes through in unmount() or in Drop for Mounted.
Umount(p) ==
    /\ \/ Goto(p, "unmount", "live")
       \/ Goto(p, "drop_mounted", "drop")
    /\ mnt[at[p]] # NoName
    /\ ~Busy(at[p])
    /\ UnmountAt(at[p])
    /\ at' = [at EXCEPT ![p] = NoMount]
    /\ tries' = [tries EXCEPT ![p] = 0]
    /\ UNCHANGED <<hba, backstore, devcfg, nexus, lun, dev, armed, sub, persisted,
                   outside, daemon>>

\* (fault) the attempts are not counted
UmountForever(p) ==
    /\ pc[p] \in {"unmount", "drop_mounted"}
    /\ Busy(at[p]) \/ mnt[at[p]] = NoName
    /\ UNCHANGED vars

\* EBUSY, or nothing mounted there any more; after the last attempt unmount()
\* returns Err(Busy), which drops the Mounted, and Drop for Mounted goes on to
\* drop the Live with the mount still in place.
UmountBusy(p) ==
    /\ pc[p] \in {"unmount", "drop_mounted"}
    /\ Busy(at[p]) \/ mnt[at[p]] = NoName
    /\ IF tries[p] + 1 < UnmountTries
       THEN /\ tries' = [tries EXCEPT ![p] = @ + 1]
            /\ UNCHANGED <<pc, at>>
       ELSE /\ tries' = [tries EXCEPT ![p] = 0]
            /\ \/ Goto(p, "unmount", "drop_mounted") /\ UNCHANGED at
               \/ /\ Goto(p, "drop_mounted", "drop")
                  /\ at' = [at EXCEPT ![p] = NoMount]
    /\ UNCHANGED <<tree, dev, armed, sub, persisted, outside, daemon>>

\* (fault) the handle stays armed
PersistArmed(p) ==
    /\ \/ Goto(p, "live", "drop")
       \/ Goto(p, "mounted", "drop")
    /\ persisted' = persisted \cup {[name |-> dev[p].name, naa |-> dev[p].naa]}
    /\ at' = [at EXCEPT ![p] = NoMount]
    /\ UNCHANGED <<tree, dev, armed, tries, sub, outside, daemon>>

\* Live::persist and Mounted::persist: disarm, then drop.
Persist(p) ==
    /\ \/ Goto(p, "live", "drop")
       \/ Goto(p, "mounted", "drop")
    /\ persisted' = persisted \cup {[name |-> dev[p].name, naa |-> dev[p].naa]}
    /\ armed' = [armed EXCEPT ![p] = FALSE]
    /\ at' = [at EXCEPT ![p] = NoMount]
    /\ UNCHANGED <<tree, dev, tries, sub, outside, daemon>>

Down(p) ==
    /\ Goto(p, "live", "td_link")
    /\ UNCHANGED <<tree, dev, armed, at, tries, sub, persisted, outside, daemon>>

\* Drop for Live, reached by every path that consumes one.
DropLive(p) ==
    /\ pc[p] \in {"live", "drop"}
    /\ IF armed[p]
       THEN pc' = [pc EXCEPT ![p] = "td_link"] /\ UNCHANGED <<dev, armed, at, tries>>
       ELSE Release(p)
    /\ UNCHANGED <<tree, sub, persisted, outside, daemon>>

-----------------------------------------------------------------------------
(* Teardown                                                                *)

\* teardown_named(name, naa_suffix).  A name without DEV_PREFIX is refused.
TeardownNamed(p, n, a) ==
    /\ Goto(p, "idle", "td_link")
    /\ n \in OurNames
    /\ dev' = [dev EXCEPT ![p] = [name |-> n, naa |-> a, conf |-> NoConf]]
    /\ persisted' = persisted \ {[name |-> n, naa |-> a]}
    /\ armed' = [armed EXCEPT ![p] = TRUE]
    /\ UNCHANGED <<tree, at, tries, sub, outside, daemon>>

\* By a later process, for a device that was persisted.
BeginTeardownNamed(p) == \E d \in persisted : TeardownNamed(p, d.name, d.naa)

\* (fault) the LUN link is forgotten
NoUnlinkStep(p) ==
    /\ Goto(p, "td_link", "td_lun")
    /\ UNCHANGED <<tree, dev, armed, at, tries, sub, persisted, outside, daemon>>

UnlinkStep(p) ==
    /\ Goto(p, "td_link", "td_lun")
    /\ RmSymlink(dev[p].naa, dev[p].name)
    /\ UNCHANGED <<hba, backstore, devcfg, nexus, mnt, dev, armed, at, tries, sub,
                   persisted, outside, daemon>>

RmNexusStep(p) ==
    /\ \/ Goto(p, "td_lun", "td_tpgt") /\ RmdirNexus(dev[p].naa, 3)
       \/ Goto(p, "td_tpgt", "td_naa") /\ RmdirNexus(dev[p].naa, 2)
       \/ Goto(p, "td_naa", "td_bs")   /\ RmdirNexus(dev[p].naa, 1)
    /\ UNCHANGED <<hba, backstore, devcfg, lun, mnt, dev, armed, at, tries, sub, persisted,
                   outside, daemon>>

RmBackstoreStep(p) ==
    /\ Goto(p, "td_bs", "td_hba")
    /\ RmdirBackstore(dev[p].name)
    /\ UNCHANGED <<hba, nexus, lun, mnt, dev, armed, at, tries, sub, persisted,
                   outside, daemon>>

\* (fault) the handle is still armed when it is dropped
RmHbaArmed(p) ==
    /\ Goto(p, "td_hba", "drop")
    /\ RmdirHba
    /\ UNCHANGED <<backstore, devcfg, nexus, lun, mnt, dev, armed, at, tries, sub, persisted,
                   outside, daemon>>

\* The HBA goes with its last backstore; the handle is disarmed.
RmHbaStep(p) ==
    /\ Goto(p, "td_hba", "drop")
    /\ RmdirHba
    /\ armed' = [armed EXCEPT ![p] = FALSE]
    /\ UNCHANGED <<backstore, devcfg, nexus, lun, mnt, dev, at, tries, sub, persisted,
                   outside, daemon>>

-----------------------------------------------------------------------------
(* The rest of the host                                                    *)

\* The daemon writes the resultFile of the config it launched, at any time.
DaemonReports ==
    \E j \in jobs, ok \in BOOLEAN :
        /\ result' = [result EXCEPT ![j.conf] = [by |-> j.by, ok |-> ok]]
        /\ jobs' = jobs \ {j}
        /\ UNCHANGED <<tree, handles, sub, persisted, outside>>

\* A shell or a service enters a mount, and leaves it.
OutsideEnters ==
    \E m \in Mountpoints \ outside :
        /\ mnt[m] # NoName
        /\ outside' = outside \cup {m}
        /\ UNCHANGED <<tree, handles, sub, persisted, daemon>>

OutsideLeaves ==
    \E m \in outside :
        /\ outside' = outside \ {m}
        /\ UNCHANGED <<tree, handles, sub, persisted, daemon>>

\* cleanup::unmount_path, or umount(8), on a mount no handle is responsible for.
UnmountPath(m) ==
    /\ mnt[m] # NoName
    /\ ~Busy(m)
    /\ \A p \in Actors : at[p] # m
    /\ UnmountAt(m)
    /\ UNCHANGED <<hba, backstore, devcfg, nexus, lun, handles, sub, persisted, outside,
                   daemon>>

\* SIGKILL: the descriptors close, nothing is dropped.
Crash(p) ==
    /\ pc[p] # "idle"
    /\ Release(p)
    /\ sub' = [sub EXCEPT ![p] = NoMount]
    /\ GiveUp(p)
    /\ UNCHANGED <<tree, persisted, outside, result>>

-----------------------------------------------------------------------------

\* A step the library takes by itself, inside a call.
CallStep(p) ==
    \/ ResetResult(p) \/ CreateHba(p) \/ CreateBackstore(p) \/ Configure(p)
    \/ EnableSucceeds(p) \/ EnableAgain(p) \/ UpFails(p)
    \/ AwaitSuccess(p) \/ LaunchRefused(p) \/ LaunchTimesOut(p)
    \/ CreateNexus(p) \/ WriteNexus(p) \/ Link(p) \/ Resolve(p)
    \/ OpenDir(p) \/ OpenDirFails(p) \/ Umount(p) \/ UmountBusy(p)
    \/ UnlinkStep(p) \/ RmNexusStep(p) \/ RmBackstoreStep(p) \/ RmHbaStep(p)
    \/ pc[p] = "drop" /\ DropLive(p)

\* What its caller chooses to do next.
CallerStep(p) ==
    \/ BeginUp(p) \/ Mount(p) \/ MountFails(p) \/ Subdir(p) \/ DropSubdir(p)
    \/ Unmount(p) \/ DropMounted(p) \/ Persist(p) \/ Down(p)
    \/ pc[p] = "live" /\ DropLive(p)
    \/ BeginTeardownNamed(p)

HostStep ==
    \/ DaemonReports \/ OutsideEnters \/ OutsideLeaves
    \/ \E m \in Mountpoints : UnmountPath(m)

NextNoCrash ==
    \/ \E p \in Actors : CallStep(p) \/ CallerStep(p)
    \/ HostStep

Next == NextNoCrash \/ \E p \in Actors : Crash(p)

Spec == Init /\ [][Next]_vars

\* No process is killed.
SpecNoCrash == Init /\ [][NextNoCrash]_vars

\* Every loop of the library has a deadline or counts its attempts, so a call
\* in progress keeps taking steps; nothing is assumed of callers, of the daemon
\* or of whoever is in a mount.
FairSpec == SpecNoCrash /\ \A p \in Actors : WF_vars(CallStep(p))

-----------------------------------------------------------------------------
(* Correctness                                                             *)

\* The backstore is this actor's to remove: from its accepted `enable` until
\* its teardown got to the backstore.
Owns(p) ==
    \/ pc[p] \in {"await", "resolve", "live"} \cup Launched \cup HasMount
    \/ pc[p] \in Teardown \ {"td_hba"}
    \/ pc[p] = "drop" /\ armed[p]

\* The actor relies on the device working.
Uses(p) ==
    \/ pc[p] \in {"resolve", "live"} \cup HasMount
    \/ pc[p] = "drop" /\ armed[p]

IsUp(n, a) == backstore[n] = "enabled" /\ nexus[a] = 3 /\ lun[a] = n

\* One owner per backstore: not two handles, and no handle on a device that was
\* handed off.  EEXIST on `enable` is all that arbitrates.
Exclusive ==
    /\ \A p, q \in Actors : p # q /\ Owns(p) /\ Owns(q) => dev[p].name # dev[q].name
    /\ \A p \in Actors, d \in persisted : Owns(p) => dev[p].name # d.name

\* A device in use stays up: whatever other actors launch, tear down or retry,
\* under other names or the same, on other nexuses or the same.
HandleIsUp == \A p \in Actors : Uses(p) => IsUp(dev[p].name, dev[p].naa)

\* A persisted device stays up until a later process takes it down; in
\* particular the handle it came from does not tear it down when dropped.
PersistedIsUp == \A d \in persisted : IsUp(d.name, d.naa)

\* An up acts on what the daemon wrote since that up began: the answer to its own
\* launch, or one to a launch that was given up on.  What was in the resultFile
\* before, be it of a launch that succeeded, failed, was torn down or was killed, is
\* acted on only if it could not be removed and nothing was written over it since.
OwnResult ==
    [][\A p \in Actors :
          AwaitSuccess(p) \/ LaunchRefused(p)
              => result[dev[p].conf].by \in {p, "late", "kept"}]_vars

\* What it takes of the callers: of two ups under way, neither the name nor the
\* config is the same.
OneUpEach ==
    \A p, q \in Actors : p # q /\ pc[p] \in Launching /\ pc[q] \in Launching =>
        dev[p].name # dev[q].name /\ dev[p].conf # dev[q].conf

ForeignKept ==
    /\ \A n \in ForeignNames : backstore'[n] = backstore[n] /\ devcfg'[n] = devcfg[n]
    /\ \A a \in ForeignNaas : nexus'[a] = nexus[a] /\ lun'[a] = lun[a]

\* What other software keeps under the shared directories is left alone.
ForeignUntouched == [][ForeignKept]_vars

\* A teardown of a device that is not mounted removes its backstore, whatever
\* its neighbours do meanwhile.
TeardownRemoves ==
    \A p \in Actors, n \in Names :
        pc[p] = "td_link" /\ dev[p].name = n /\ ~IsMounted(n) ~> backstore[n] = "absent"

\* The part of it that needs no fairness, crashes included: the link a teardown of
\* a device that is not mounted removes is all that holds its backstore, nobody
\* links it again before the teardown has got to the backstore, and then it goes.
TeardownUnpins ==
    [][\A p \in Actors, n \in Names :
          pc[p] \in Teardown \ {"td_hba"} /\ dev[p].name = n =>
              /\ UnlinkStep(p) /\ ~IsMounted(n) => ~IsLinked(n)'
              /\ pc[p] # "td_link" /\ ~IsLinked(n) => ~IsLinked(n)'
              /\ RmBackstoreStep(p) /\ ~IsLinked(n) => backstore'[n] = "absent"]_vars

AtRest == {"idle", "live", "mounted"}

\* How many steps of its own a call may still take.
Left ==
    [idle |-> 0, live |-> 0, mounted |-> 0,
     resolve |-> 1, link |-> 2, nexus |-> 3, mk_lun |-> 4, mk_tpgt |-> 5, mk_naa |-> 6,
     await |-> 8, enable |-> 8 + EnableTries, configure |-> 9 + EnableTries,
     mk_bs |-> 10 + EnableTries, mk_hba |-> 11 + EnableTries, reset |-> 12 + EnableTries,
     drop |-> 1, td_hba |-> 2, td_bs |-> 3, td_naa |-> 4, td_tpgt |-> 5, td_lun |-> 6,
     td_link |-> 7, opendir |-> 9,
     drop_mounted |-> 8 + UnmountTries, unmount |-> 8 + 2 * UnmountTries]

StepsLeft(p) ==
    IF pc[p] = "drop" /\ armed[p] THEN 8 ELSE Left[pc[p]] - tries[p]

\* A call comes to its end in a bounded number of steps of its own: none of its
\* retry loops, nor a Drop on the way out, starts anything over, and nobody else's
\* step takes it back.
CallsAreBounded ==
    [][\A p \in Actors :
          /\ CallStep(p) => StepsLeft(p)' < StepsLeft(p)
          /\ pc[p] \notin AtRest => StepsLeft(p)' =< StepsLeft(p)]_vars

\* Every call of the library returns: with a handle, or with the actor idle.
CallsReturn ==
    \A p \in Actors :
        pc[p] \notin {"idle", "live", "mounted"} ~> pc[p] \in {"idle", "live", "mounted"}

-----------------------------------------------------------------------------
(* What the documentation says and the code does not keep                  *)

\* device.rs:423-426: a device must not survive an error path as a configfs
\* entry needing manual surgery.  Every backstore of ours is being worked on by
\* some actor, or was handed off.
NothingLeftBehind ==
    \A n \in OurNames :
        \/ backstore[n] = "absent"
        \/ \E p \in Actors : dev[p] # NoDevice /\ dev[p].name = n
        \/ \E d \in persisted : d.name = n
        \/ IsMounted(n)

=============================================================================
