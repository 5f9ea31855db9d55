# A TLA+ model of obd

`obd` launches overlaybd block devices through the kernel's configfs target
tree, mounts them and takes them down again; `obdctl` is a command line over
it. Nothing of a device is kept in a file of the crate: the kernel's tree, the
mount table and the name and nexus suffix a caller chose are all the state
there is. Several processes work on that state without a lock, any of them may
be killed, and every step is a separate system call. That is what is modelled
here, with TLC runs on small instances and TLAPS proofs for every instance.

## The system

| Component | State | Operations | Modelled in |
|---|---|---|---|
| configfs target tree, mount table (kernel) | HBA, backstores and their attributes, nexuses, LUN links, mounts | mkdir, attribute writes, symlink, rmdir, mount, umount | `TargetTree` |
| `Device`, `Live`, `Mounted`, `PersistedDevice` (`device.rs`) | the typestate of each handle, `armed`, what it is mounted at | `new`, `up`, `mount`, `create_subdir`, `unmount`, `persist`, `down`, `Drop` twice, `teardown_named` | `DeviceLifecycle` |
| configfs primitives (`configfs.rs`) | none of their own; loops with deadlines or counted attempts | `write_attr`, `await_result`, `rm_symlink`, `rmdir` | `TargetTree`, `DeviceLifecycle` |
| node resolution (`configfs.rs`) | SCSI address, what sysfs and `/dev` said so far | `resolve_block_device`, `node_matches`, `node_readable`, `wait_for_scsi_removal` | `NodeResolution`, `DevT` |
| cleanup (`cleanup.rs`) | listings of both directories, the report | `unmount_path`, `cleanup_all`, `force_cleanup`, the signal thread | `Cleanup` |
| `obdctl` (`bin/obdctl.rs`) | none; its exit code and what it prints | `device up`, `device down`, `cleanup`, `layer create`, `layer commit` | `Obdctl` |
| layer tools (`tools.rs`) | the files of a layer | `create_sparse_layer`, `commit_layer`, `run` | `LayerTools` |
| device configuration (`config.rs`, `obdctl config`) | the builder, the file | specs to lowers, builders, `to_json`, `write` | `DeviceConfig` |
| preflight (`lib.rs`, `tools::find`) | the checks made so far | `preflight`, `daemon_running`, `find` | `Preflight` |
| overlaybd-tcmu daemon | launches it has not reported on, resultFiles, the configs it serves | reports a launch, opens a config | external, in `DeviceLifecycle`, `Obdctl`, `DeviceConfig` |
| SCSI layer and udev | disks under addresses, nodes | attach, detach, add and remove nodes | external, in `NodeResolution` |
| errors, host set-up, packaging, CI | | | not modelled |

How they interact. `up` writes the tree step by step and asks the daemon by
writing `enable`; the daemon answers in a file, not in the write. The kernel
answers the LUN link with a disk under the nexus's SCSI address, udev with a
node; `up` polls for both. `Live` owns the device in memory only: dropping it
tears the device down, unless it was disarmed by `persist` or by a teardown. A
later process takes a persisted device down by name. The sweep goes by name
prefix over everything there is, in its own process or in a thread of a process
that holds handles. `obdctl` strings these calls together, one process each;
what ties a `device up` to its `device down`, and a layer to both, is what the
shell between them remembers and was told.

The hard parts, each in `PROJECT.json` under "hazards" at its line: two
processes on one name or one nexus, where `EEXIST` on `enable` is the only
arbiter; error paths that return before there is a handle; primitives that fail
silently, so that a wrong order shows only as a device that stays; handles that
are dropped armed or disarmed; retry loops that run out; answers, disks and
tools left over from an earlier command; a sweep or a signal in the middle of
anything; checks and the uses of what they checked; and processes that are
killed.

## Modules

    TargetTree <- DeviceLifecycle <- OwnershipRefinement    (instantiates Ownership)
                  DeviceLifecycle <- Cleanup <- Obdctl
                                  LayerTools <- Obdctl
    DevT <- NodeResolution
    Preflight
    DeviceConfig

`A <- B` is B EXTENDS A. The proofs about a module are in its `...Proofs` module,
those about the refinement in `OwnershipProofs`, those about `DevT` in
`NodeResolutionProofs`, those about `LayerTools` in `ObdctlProofs` and those about
all of `Obdctl` in `CommandProofs`, which EXTENDS `ObdctlProofs` and
`CleanupProofs`. The `MC*`
modules name the model values of the instances.

**`TargetTree`** has one operator per system call. The ones that remove never
fail, as `rmdir` and `rm_symlink` swallow what goes wrong (configfs.rs:397-423);
the ones that create are guarded by what lets the call succeed, and the error
path of the caller stands for the rest. `nexus[a]` is how deep the tree of a
nexus reaches (0 to 3), since its levels are created and removed in order.

What the kernel does is modelled by what the code relies on: a directory with
entries is not removed; a backstore a LUN links to is not removed; a LUN carries
one backstore; the LUN link of a mounted device stays ("a mounted device cannot
be torn down", cleanup.rs:163, obdctl.rs:450); a live backstore refuses
`enable` with EEXIST (configfs.rs:134); mount(2) fails on a mountpoint in use
(device.rs:304-305). If a kernel lets go of the link of a mounted device, the
disk goes away under the filesystem instead. That it stays is what the
counterexample of obdctl_down rests on, and what makes a mounted device survive
a teardown; it is the repository's own account of the kernel, not something its
code shows.

**`DeviceLifecycle`** EXTENDS it with actors. `pc[p]` is the system call an
actor is about to make, `dev[p]` its `Device`, `armed[p]` the field of `Live`,
`at[p]` the mountpoint of its `Mounted`, `tries[p]` the attempts of the loop it
is in. `outside` is who else is in a mount, `sub` the `Dir` that `create_subdir`
handed out, `persisted` the devices given to a later process, `jobs` and
`result` the daemon and its files. One action per call or step; each step may
be followed by a step of any other actor, of the daemon, of the host, or by a
crash.

- `up` is `BeginUp` to `Resolve`. `UpFails` is every `?` of it: before `Live`
  exists there is nothing to undo it. `LaunchRefused` and `LaunchTimesOut` are
  the one error path that tears down (device.rs:181-198).
- `ResetResult` removes the resultFile, or fails to, which device.rs:132 ignores:
  the up then goes on with what is there. `result` says of each file whose answer
  it holds: of the launch of an actor, of one that was given up on (`"late"`), one
  that was there when the current up began (`"old"`), or one that could not be
  removed (`"kept"`). `BeginUp` relabels what it finds, so that the labels are
  the history `OwnResult` needs; the code sees none of them.
- `Resolve` is the end of `resolve_block_device`, which reads a sector of the
  node; a device the daemon does not serve would not pass it. The step has no
  such guard: that no up gets there on somebody else's answer is for `OwnResult`
  to say.
- `write_attr`'s EAGAIN loop is `EnableAgain`, bounded by `EnableTries`.
- `unmount`, and `Drop` for `Mounted`, are `Umount` and `UmountBusy`, bounded by
  `UnmountTries`. When the attempts are spent, `unmount` returns an error, which
  drops the `Mounted`, whose `Drop` tries again and then drops its `Live`.
- Teardown by handle, by `Drop` and by name share their steps (`td_*`), as the
  code repeats them (device.rs:366-376, 653-662).
- `BeginTeardownNamed` takes a persisted device, once per hand-off. The code
  would take any name; that the caller names a device that was handed to it is
  the contract of `PersistedDevice`, and without it no property about other
  actors' handles could hold. `Obdctl` uses the call itself, `TeardownNamed`,
  with the launches of its shells.

**`Ownership`** is what the typestate promises of backstores, without a tree, a
daemon or a mount: each is held by nobody, by one handle, or by the process
that will come for it; it is claimed only when it is not live and nobody holds
it; it is handed off, taken over and let go. **`OwnershipRefinement`** maps the
detailed state to it: the holder of a name is the actors that own it (from the
accepted `enable` until their teardown gets to the backstore) and `Later`, if it
was persisted; a backstore is live when it is enabled. `ImplementsOwnership` is
the abstract specification under that mapping.

**`Cleanup`** EXTENDS `DeviceLifecycle`: `force_cleanup` one system call at a
time on the listings it took, while the actors go on. `host` is the actor whose
process the signal thread runs in; `EndSweep` ends that process, `KillSweep` a
sweep in the middle. A directory that cannot be read, or an entry of it, is
passed over (cleanup.rs:93, 108, 133), so a listing is any part of what is there;
a mount table that cannot be read counts as nothing mounted (cleanup.rs:37),
where `MountsUnreadable` says so. It is FALSE in cleanup_signal and obdctl_down,
whose subject is a mount that is seen and busy. `quiet` records that nobody moved
and everything could be read since the sweep began.

**`NodeResolution`** is the end of `up` and of teardown in the detail the other
modules leave out. Addresses, disk names and dev_t numbers are recycled at will;
udev follows with any delay; a disk goes away some time after its link. The
polls read the directory, the dev_t, the node and a sector in four steps,
between which all of that moves. Ups and teardowns of different devices
interleave as they like and are killed anywhere, since the code has no lock;
`Spec` is all of it, with `cleanup_all` and waits that end with the disk still
there. `CarefulSpec` leaves out three things: a nexus that is created while a
teardown waits for its disk to go, a wait that ends before the disk is gone (the
15 s are over, or the process is killed), and sweeps. `SweepSpec` is that care
with sweeps. A node carries an `st_rdev` as
makedev(3) puts it together, and `node_matches` takes it apart again: **`DevT`**
has both as operations on the sets of one-bits of the numbers.

**`LayerTools`** has the two library calls that run a tool, by any number of
shells. A call looks for its outputs one after the other (`CheckExists`), spawns
the tool (`Spawn`), waits for it (`ToolEnds`) and, for a commit, reads the size
of the output (`StatOutput`). A tool opens its outputs O_EXCL one by one, writes
them, fails anywhere and leaves what it made (tools.rs:119-126, 143-145). A
killed call leaves its tool running. `file` says which tool made a file and
whether it was written to the end.

**`Obdctl`** EXTENDS `Cleanup` and `LayerTools`: the commands as processes.
`cmd[p]` is the command a shell waits for; `device up` is a call of `up`, then
`mount` and `create_subdir` if asked for, then `persist` (obdctl.rs:400-431), as
actions that restrict those of `DeviceLifecycle`; `device down` is `unmount_path`
and, whatever came of it, `teardown_named`; `InCall` is the rest of the library.
Any command may be killed at any point. `served` is the config the daemon opened
at `enable`, so a backstore that a killed command left may serve another config
than the next command asks for. `open` is not the program's: it is what a shell
that goes by README.md:439 ("sync, unmount, tear down, then commit") knows of
its devices from what the commands print.

**`Preflight`** makes the checks in their order, each over the places it looks
at, on a host that changes between any two looks; the daemon is looked for by
pid, `comm` and `stat` in two steps (lib.rs:240-259), in a /proc that may be
unreadable for a time (`ProcReadable`). `ever` and `always` record
what was there at some and at every moment of the run.

**`DeviceConfig`** turns command lines into lowers, a `DeviceConfig` and a file.
A spec is a sequence of tokens, `=` one of them, cut as obdctl.rs:338-365 cuts
it. The file is a sequence of pieces, so that a write can stop anywhere, and the
next command goes over what is there. A command renders before it touches the
file; which fields the daemon needs to parse it is `Parses`. Its tail has the
upper and the resultFile.

Operators marked "(fault)" are not reachable from any specification. Each is an
action with a plausible bug in it, and `PROJECT.json` pairs it with a property
that catches it: every property of every passing run has one.

## What is checked

Correct behaviour:

| Property | Says | Run |
|---|---|---|
| `Exclusive` | a backstore has one owner, a handle or a hand-off, from the accepted `enable` until its removal | lifecycle_names |
| `HandleIsUp` | the device behind a handle is enabled, its nexus complete, its link in place, whatever others do | lifecycle_names, lifecycle_mounts |
| `ForeignUntouched` | backstores and nexuses outside the prefixes are never changed | lifecycle_names |
| `TypeOK` | types, and no loop beyond its attempts | lifecycle_mounts |
| `PersistedIsUp` | a device handed off stays up; the handle it came from does not take it down | lifecycle_mounts |
| `ImplementsOwnership` | the lifecycle implements `Ownership` | lifecycle_mounts |
| `TeardownUnpins` | a teardown of an unmounted device removes the only link to its backstore, nobody links it again before the teardown is at the backstore, which then goes | lifecycle_mounts |
| `CallsAreBounded` | a call has a number of steps left that each of its steps lowers and nobody raises: no loop and no `Drop` on the way out starts anything over | lifecycle_mounts |
| `CallsReturn` | every call of the library returns | lifecycle_live |
| `TeardownRemoves` | a teardown of an unmounted device removes its backstore | lifecycle_live |
| `SweepTypeOK` | a sweep works on its own nexuses, backstores and mountpoints only | cleanup_sweep |
| `QuietSweepIsComplete` | an undisturbed sweep that can read what it lists leaves nothing of ours, from any state, if no mount is busy or left out | cleanup_sweep |
| `SweepForeignUntouched` | a sweep changes nothing outside the prefixes, however it interleaves | cleanup_sweep |
| `OwnResult` | an `up` never acts on what was in the resultFile before it began, unless it could not be removed; sweeps and kills included | cleanup_sweep |
| `TypeOK` | an `up` compares and opens a node only with a name and a number it has read | resolve_careful |
| `OwnDisk` | the node `up` returns, and the one `mount` opens, is the device's own disk | resolve_careful |
| `ObdTypeOK` | the types of all that `Obdctl` composes | commands |
| `CommitReadsWhole` | a commit never reads a layer the daemon may still write to, or one not created to the end | commands |
| `OutputsAreOwn` | a layer command that succeeds wrote every output itself | commands |
| `UpIsAsAsked` | a `device up` that ends well hands off a device that serves its config and is mounted where asked | commands |
| `PreflightTypeOK` | no check looks beyond its places | preflight |
| `SuccessIsTrue` | a preflight that ends well was right about each part at some moment | preflight |
| `NotMissed` | what is there all the while is found, and where it takes precedence, if /proc can be read all the while | preflight |
| `ConfigTypeOK` | what is rendered can be parsed; no directory is empty | config |
| `WrittenAsSaid` | the file says what the options say; a refused spec says nothing | config |
| `ReadsNoMixture` | what the daemon can read is a whole text some command was to write | config |
| `RefusedTouchesNothing` | a command that is refused leaves the file alone | config |

Where the code and its documentation differ, each with a counterexample and the
quoted line under "findings" in `PROJECT.json`:

| Run | Shows |
|---|---|
| lifecycle_leak | an `up` that fails early leaves its half-built device behind |
| cleanup_signal | the signal thread cannot unmount what its own process holds |
| obdctl_down | `device down` reports a device torn down that is mounted and there |
| resolve_sweep | the sweep frees a SCSI address without waiting for its disk |

Three more were met while modelling, and have no run of their own. A `Mounted`
whose mount stays busy through the loop of its `Drop` leaves the mount in place
and tears down the `Live` below it (device.rs:617). `create_subdir` returns an
owned `Dir` (device.rs:468), which may outlive `unmount` and makes it busy:
README.md:434-436 says that cannot be compiled. And the report of the sweep
lists entries whose removal was refused (cleanup.rs:125).

### Bounds

- Two actors in the lifecycle runs: every hazard there is between two parties
  (two launches, a launch and a teardown, a handle and a hand-off). Crashes free
  an actor for another call, so a run holds any number of processes one after
  another. `cleanup_sweep` has one actor beside the sweep, which makes it an
  instance of what `OwnResult` is proved under, `OneUpEach`: with two ups at a
  time on one config the reset of its resultFile and `enable` are two steps of
  each, and one takes the other's answer.
- lifecycle_names has two names, one nexus for both and a foreign device with
  its nexus: sharing a nexus under different names. It has no mountpoint.
  lifecycle_mounts has one name, two nexuses and a mountpoint: sharing a name
  over different nexuses. Two names with two nexuses of their own are two
  devices with nothing in common but the HBA.
- `EnableTries` and `UnmountTries` are 1 or 2 instead of 100 and 20: with 2, a
  loop goes round, and runs out.
- cleanup_sweep: one name and one nexus beside the foreign ones. The listings
  are walked in any order, and an element of one does not affect another.
- resolve_careful: two devices with two addresses, three disk names and three
  numbers, so that a name comes back with another number, a number under another
  name, and a device comes up where another was, is, or is going away. The
  numbers are 8:0, 8:16 and 8:256, the last told from the first by the upper bits
  of the minor only. A third address changes nothing, as two devices use two; the
  theorem is about any number of each. resolve_sweep has two of each.
- commands: two shells, of which one also runs devices, two tools, one layer,
  one name with and without a mount. Two tools at a time are a tool that was
  left behind and the next one, or those of two shells; one layer is what they
  compete for.
- preflight: one tool in two places, one module, two pids, and `Changes` = 2
  changes of the host during the run. Two are enough for a daemon to end and
  another to start, or for a tool to move from one place to another behind the
  search; the theorems have no bound.
- config: every spec of up to five tokens, and up to seven with a directory
  that has separators in it; every combination of up to two files, up to two
  remote layers, a URL and an upper; `Commands` = 2, since a command meets at
  most the file of the one before.
- Symmetry is used in safety runs only.

Deadlock is checked, as an actor or a shell at rest can always begin a call,
except in preflight and config, whose programs end.

### Fairness

Only lifecycle_live assumes any: weak fairness of `CallStep(p)`, the steps an
actor takes inside a call. The thread that made the call keeps running until it
returns, since every loop of the library counts its attempts or has a deadline:
configfs.rs:81, 232, 332, 364 and device.rs:518, 617-623. `LaunchTimesOut` and
`UmountBusy` are the steps that end them. Nothing is assumed of callers, who may
hold a handle for ever, of the daemon, which may never answer, or of whoever is
in a mount. No process is killed in that run.

### Assumptions

- Launches and teardowns of one name may race in `DeviceLifecycle`. In
  `NodeResolution` a device has one caller at a time, and `CarefulSpec` has the
  care described above. It is less than README.md:412-414 asks of the suites, that
  they do not run concurrently, and it is about one step: a nexus is not created
  while a teardown is in its wait. The code does not enforce it; without it, or
  where nobody waits, follows what resolve_sweep shows.
- `OwnResult` lets two kinds of foreign answer through, as the code does. An
  answer that could not be removed is taken for the answer to this launch until
  the daemon writes over it. And an answer to a launch that was given up on may
  come between the reset of the next up and its own answer; nothing in the file
  tells them apart.
- In `Obdctl` the shells keep to what the documentation asks of them: a layer is
  not brought up while a layer command or a tool that was left behind works on
  it (`InUse`), and is committed only when its devices are known to be gone
  (`MayCommit`). A shell takes a device down with the name, nexus and mount it
  brought it up with. `CommitReadsWhole` is false without that. Signals are not
  handled in `obdctl`: only users of the library install the handler.
- Two theorems have a premise on the callers beside the specification.
  `OneUpEach`, for `OwnResult`: of two ups under way neither the name nor the
  config is the same. The resultFile is named by the device config and reset by
  `up` without a lock (device.rs:132, 160), so that one config is one device is
  left to the caller. `Apart`, for `UpIsAsAsked` and `CommitReadsWhole`: of two
  device or cleanup commands under way neither is a cleanup, and they are about
  two names. A name identifies a device on the host, `cleanup` takes down all of
  them, and README.md:413 says that two suites cannot run concurrently. Nothing
  of the layer commands, of kills, of the tools and commands they leave behind,
  or of how many shells there are is restricted. In cleanup_sweep and commands
  one actor runs devices, so that the premises hold in every state of theirs.
- One cleanup, and one `config` command on a file, at a time.
- `SuccessIsTrue` excepts the daemon if a pid went to another process during the
  preflight: its `stat` may then be read of a process whose `comm` never was.
- `WrittenAsSaid` is about paths that are UTF-8. `path.display()` replaces the
  rest, and the model does too (`Lossy`).

## What is proved

For every set of actors, names, nexuses, mountpoints, configs, shells, tools,
layers, devices, addresses, numbers, places and pids and all bounds, under the
ASSUMEs of the modules (the prefixed names are some of the names, the "none"
values are not ordinary values, bounds are natural numbers; for `DeviceConfig`
also that the options have the types clap gives them):

| Module | Theorem | States |
|---|---|---|
| `DeviceLifecycleProofs` | `TypeCorrect`, `ExclusiveOwnership`, `HandlesStayUp`, `PersistedStaysUp`, `ForeignStaysUntouched` | `TypeOK`, `Exclusive`, `HandleIsUp`, `PersistedIsUp`, `ForeignUntouched` |
| | `TeardownFindsEveryLink`, `CallsEnd` | `TeardownUnpins`, `CallsAreBounded` |
| | `AnswersAreNotReused` | `Spec /\ []OneUpEach => OwnResult` |
| `OwnershipProofs` | `LifecycleImplementsOwnership` | `Spec => ImplementsOwnership` |
| `CleanupProofs` | `SweepWellTyped`, `SweepLeavesForeign`, `QuietSweepsAreComplete` | `SweepTypeOK`, `SweepForeignUntouched`, `QuietSweepIsComplete` |
| | `SweptAnswersAreNotReused` | `SweepSpec /\ []OneUpEach => OwnResult` |
| `NodeResolutionProofs` | `DevTRoundTrip` | what makedev puts together is what `node_matches` reads, for 32-bit numbers |
| | `ResolutionWellTyped`, `CarefulWellTyped`, `CarefulUpOpensItsOwn` | `TypeOK` twice, `OwnDisk` |
| `ObdctlProofs` | `LayersAreOwn` | `OutputsAreOwn` |
| `CommandProofs` | `CommandsWellTyped`, `CommandsLeaveForeign` | `ObdTypeOK`, and `ForeignUntouched` of every command |
| | `UpsAreAsAsked`, `CommitsReadWhole` | `UpIsAsAsked`, `[]CommitReadsWhole`, each from `ObdSpec /\ []Apart` |
| `PreflightProofs` | `PreflightWellTyped`, `SuccessesAreTrue`, `NothingIsMissed` | `PreflightTypeOK`, `SuccessIsTrue`, `NotMissed` |
| `DeviceConfigProofs` | `ConfigWellTyped`, `FilesSayWhatWasAsked`, `NeverAMixture`, `RefusalsTouchNothing` | `ConfigTypeOK`, `WrittenAsSaid`, `ReadsNoMixture`, `RefusedTouchesNothing` |

Each comes from an inductive invariant, proved with one step per action.

- **The lifecycle.** `TypeOK` is inductive; the others follow from `IInv`.
  `HandleIsUp` alone cannot be carried through a teardown: the step that removes
  a nexus would break the other handle on it unless that nexus still holds the
  other's link, and the step that removes a backstore would break the other
  handle on it unless there is no other. `IInv` therefore adds what lies between
  the accepted `enable` and the finished `up`, and what a teardown has left: a
  device an actor owns is enabled (`OwnedEnabled`), every device worked on or
  handed off bears the crate's prefixes (`OursOnly`), and one name is handed off
  at most once (`OnePersisted`). The argument for `Exclusive` is that `enable`
  succeeds only on a backstore that is not enabled, while whatever is owned or
  handed off is.
- **Teardown.** A LUN link is removed by name and nexus, and a backstore goes
  only when no nexus links to it. `LinksOwned` adds to `IInv` that a link is to
  a live backstore, and that the name an actor owns, or that was handed off, is
  linked in its own nexus only. An up that dies leaves its link and its live
  backstore together, which is why no later `enable` of that name can make an
  owner with a second link. That nobody links the name again while the teardown
  is under way is `Exclusive`.
- **Bounded calls.** `StepsLeft` gives each place a number of steps, counts the
  attempts left in a loop, and has the teardown of an armed handle on top where
  it will come; a `Mounted` that is dropped by a failed `unmount` has a second
  loop. Only `TypeOK` is needed of the state. That a call in progress always has a
  step to take, the other half of `CallsReturn`, is about ENABLED and is left to
  lifecycle_live.
- **Answers.** `AnswersAreOwn`: a launch the daemon has not reported on is one
  its actor waits for, or one that was given up on; from its reset on, the
  resultFile of an up holds nothing, what could not be removed, its own answer or
  a late one; and what `enable` starts the daemon on is the config this up wrote. `OneUpEach`
  enters where the reset, the config or the answer of one up would be another's.
  A sweep changes none of it.
- **The refinement.** Under `IInv`, the holders of a name are a set of at most
  one (`HeldBy`, `HandedOff`) and empty where a backstore is not live
  (`HeldByNobody`). Each action is then a claim, a hand-off, a take-over, a
  letting go, or changes neither `holder` nor `live` (`SameOwners`). An `enable`
  that meets a backstore left live by a crash is refused, which is why `Claim`
  can ask for one that is not live.
- **The sweep.** `IInv` does not hold next to a sweep, which takes devices from
  under their handles. `TreeShape` does: links lie in complete nexuses,
  backstores under an HBA, and a foreign nexus links to nothing of ours.
  Completeness needs `QuietProgress`: at each place of an undisturbed sweep,
  which mounts, nexuses and backstores are already gone, and that the rest is
  still on its list.
- **The disk.** `CarefulInv`: disks have names and numbers of their own
  (`DisksDiffer`); no two devices share an address, a teardown in its wait
  included (`OwnAddress`), which is where the care of `CarefulSpec` enters; a disk
  that is going away sits under the address of a device that was unlinked and
  whose nexus, or whose waiting teardown, is still there, also where a teardown
  was killed (`DisksInPlace`); from the directory listing on, what an `up` has
  found stays there and is its own (`FoundIsOwn`). That two numbers with one
  `st_rdev` are one number is `MakedevInjective`, from the round trip.
- **The layer commands.** `LIInv`: a tool owns the outputs it has opened and no
  file changes hands (`ToolsOwn`), and a call waits for a tool nobody else waits
  for, which does what the call asked (`CallsWait`). The rest of `Obdctl` does
  not touch these variables.
- **Device commands.** `ObdIInv` is the invariants of the parts, together with
  the types of what `Obdctl` adds. `ApartIInv` adds what ties a command to the
  tree. `CommandsOwn`: the library works for the command of its actor, on the
  name, nexus and config that names. `DevicesOwn`: the mount a `Mounted` is for
  is there and where the command wanted it (`MountHeld`); an up is served the
  config it wrote, also where it met a directory a killed one left (`ServesOwn`);
  a mount holds its link and a link its backstore (`Pinned`); and behind each
  served backstore there is one launch, still `open` to its shell, which alone
  links and mounts it and is the one any up under way on it is for (`Accounted`,
  `Behind`). The last part of `Behind` is what makes the printed outcome of
  `device down` good enough to commit by: a down that will be believed, as its
  unmount went through or it had nothing to unmount, has nothing in its way, and
  the launch leaves `open` only with the backstore gone. That `device down` lies
  in the other case (obdctl_down) does no harm to a shell that does not believe
  it.
- **Commits.** `Settled`: a commit under way, in its call or in a tool that
  outlives a killed call, is of a layer that could be committed still. Nobody
  brings a device up on a layer somebody works on (`InUse`), and with `Accounted`
  a layer with no open launch is served to nobody.
- **The preflight.** `PIInv`: a search that is at some place has passed nothing
  that is there all the while (`NothingPassed`); where `comm` was the daemon's,
  the pid had a process, so that what runs there is the daemon unless it was
  recycled (`CommHolds`); a check that concluded had a witness (`Witnessed`).
- **The config.** `CIInv`: the file is the part of the text that was written so
  far, and no piece before the last is a tail (`Shaped`), so that no proper
  beginning of a text can be read. That a text has this shape needs its pieces
  one by one, since `Json` is a concatenation of three sequences. For
  `WrittenAsSaid`, `Rendered` says that the text written is that of the command
  line, and the rest is about sequences: the first separator is the smallest of
  a set of positions (by well-foundedness of <, as there is no induction to be
  had), before and behind it are the parts `split_once` gives (`CutsFirst`), and
  these parts joined are the spec, and no other parts are (`CutParts`,
  `JoinedParts`). So a spec is accepted when it says something and the lower is
  what it says.

Model-checked only: `CallsReturn` and `TeardownRemoves`, as liveness is out of
TLAPS's reach; what they need of safety is proved, as `CallsAreBounded` and
`TeardownUnpins`. The four violations are counterexamples and have nothing to
prove.

## Not modelled

- Errors and wording: the text of errors, logs and reports; `log_tail`; the
  spelling of JSON. Which call returns an error is part of the modules.
- Host set-up and packaging (`lib/`, `scripts/`, `build.rs`): sequential scripts
  around package managers, whose state is the package database.
- Test suites and CI, which were read as documentation of the intended use.
- The content of mounts: what `create_subdir` creates, read-only against
  writable mounts, sync.
- `Device::from_config` as a whole: it writes a file, as `DeviceConfig` has it,
  before `Device::new`, as `DeviceLifecycle` has it.
- The parsing of a `/proc` line by `proc_state`, which is taken by its result,
  and of the command line by clap.
- Platforms other than Linux, where every operation is refused.
- Stacked mounts: mount(2) on a mountpoint in use fails here, as the comment at
  device.rs:304 has it.
- `teardown_named` of somebody else's device: of one that was not handed over in
  `DeviceLifecycle`, of one that is no launch of the shells in `Obdctl`.

## Running

    tlc -workers 2 -config lifecycle_names.cfg MCDeviceLifecycle
    tlapm DeviceLifecycleProofs.tla

A run takes from a second to two minutes, the proofs of a module from seconds to
four minutes.
