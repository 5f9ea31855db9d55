---------------------------- MODULE CommandProofs ----------------------------
(***************************************************************************)
(* For any number of shells, devices, layers and tools: the state of the   *)
(* commands stays well typed and they keep to their prefixes; and as long  *)
(* as the shells keep the devices they work on apart, a device up that     *)
(* ends well is what was asked for, and no commit reads what the daemon    *)
(* may write.                                                              *)
(***************************************************************************)
EXTENDS CleanupProofs, ObdctlProofs

USE TreeAssumption, LifecycleAssumption, NoDeviceAssumption, CleanupAssumption,
    LayerAssumption, CommandAssumption

-----------------------------------------------------------------------------
(* Type correctness and other owners                                       *)

Command == [op : {"none", "up", "down", "teardown", "cleanup"},
            launch : Launches \cup {NoLaunch}, subdir : BOOLEAN, unmounted : BOOLEAN]

CommandTypeOK ==
    /\ cmd \in [Actors -> Command]
    /\ served \in [Names -> Confs \cup {NoConf}]
    /\ open \subseteq Launches
    /\ \A p \in Actors : cmd[p].op \in {"up", "down", "teardown"} => cmd[p].launch \in Launches

ObdIInv == SweepIInv /\ LIInv /\ CommandTypeOK

LEMMA InitObdIInv == ObdInit => ObdIInv
<1> SUFFICES ASSUME ObdInit PROVE ObdIInv
  OBVIOUS
<1>1. SweepIInv /\ LIInv
  BY SweepInitIInv, LayerInitOwn DEF ObdInit
<1>2. CommandTypeOK
  BY DEF ObdInit, CommandTypeOK, NoCommand, Command
<1> QED
  BY <1>1, <1>2 DEF ObdIInv

LEMMA LaunchFact ==
  ASSUME NEW l \in Launches
  PROVE  /\ l.name \in OurNames /\ l.naa \in OurNaas /\ l.conf \in Confs
         /\ l.mount \in Mountpoints \cup {NoMount}
         /\ l \in Launches \cup {NoLaunch} /\ l # NoLaunch
  OBVIOUS

\* device down names its device itself, whoever it was handed off by.
LEMMA TearsDownKeeps ==
  ASSUME SweepIInv, NEW p \in Actors, NEW n \in OurNames, NEW a \in OurNaas,
         TeardownNamed(p, n, a)
  PROVE  TypeOK' /\ OursOnly' /\ TreeShape' /\ ForeignKept
<1> USE DEF TeardownNamed, Goto, tree, daemon
<1>0. TypeOK /\ OursOnly /\ TreeShape
  BY DEF SweepIInv, SweepTypeOK
<1>1. TypeOK'
  BY <1>0 DEF TypeOK, TreeTypeOK, TriesAllowed, PCs, Fallible, HasMount, Teardown, Devices
<1>2. OursOnly'
  BY <1>0 DEF TypeOK, OursOnly
<1>3. TreeShape' /\ ForeignKept
  BY <1>0 DEF TreeShape, ForeignKept
<1> QED
  BY <1>1, <1>2, <1>3

\* Every other step of a device command is one of the library or the host.
LEMMA DeviceStepNext ==
  ASSUME DeviceStep, \A p \in Actors : ~DownTearsDown(p)
  PROVE  [Next]_vars
<1>1. ASSUME NEW p \in Actors,
             \/ UpBegins(p) \/ UpMounts(p) \/ UpMakesSubdir(p) \/ UpDropsSubdir(p)
             \/ SubdirFails(p) \/ UpPersists(p) \/ UpExits(p) \/ InCall(p)
      PROVE  [Next]_vars
  BY <1>1 DEF UpBegins, UpMounts, UpMakesSubdir, UpDropsSubdir, SubdirFails, UpPersists,
     UpExits, InCall, Next, NextNoCrash, CallerStep
<1>2. ASSUME NEW p \in Actors,
             DownUnmountsNothing(p) \/ DownUnmounts(p) \/ DownExits(p) \/ Killed(p)
      PROVE  [Next]_vars
  <2>1. CASE DownUnmounts(p)
    <3>1. PICK l \in Launches : l.mount # NoMount /\ UnmountPath(l.mount)
      BY <2>1 DEF DownUnmounts
    <3>2. l.mount \in Mountpoints
      BY <3>1, LaunchFact
    <3> QED
      BY <3>1, <3>2 DEF Next, NextNoCrash, HostStep
  <2>2. CASE DownUnmountsNothing(p) \/ DownExits(p) \/ Killed(p)
    BY <2>2 DEF DownUnmountsNothing, DownExits, Killed, Next
  <2> QED
    BY <1>2, <2>1, <2>2
<1>3. CASE HostStep
  BY <1>3 DEF Next, NextNoCrash
<1> QED
  BY <1>1, <1>2, <1>3 DEF DeviceStep

LEMMA DeviceStepKeeps ==
  ASSUME SweepIInv, CommandTypeOK, DeviceStep
  PROVE  SweepIInv' /\ ForeignKept
<1>1. TypeOK' /\ OursOnly' /\ TreeShape' /\ ForeignKept
  <2>1. CASE \A p \in Actors : ~DownTearsDown(p)
    BY <2>1, DeviceStepNext, OthersKeep
  <2>2. ASSUME NEW p \in Actors, DownTearsDown(p)
        PROVE  TypeOK' /\ OursOnly' /\ TreeShape' /\ ForeignKept
    <3>1. cmd[p].launch \in Launches
      BY <2>2 DEF DownTearsDown, CommandTypeOK
    <3> QED
      BY <2>2, <3>1, LaunchFact, TearsDownKeeps DEF DownTearsDown
  <2> QED
    BY <2>1, <2>2
<1>2. UNCHANGED <<spc, host, todo, cur, swept>> /\ quiet' = FALSE
  BY DEF DeviceStep, Meanwhile
<1> QED
  BY <1>1, <1>2 DEF SweepIInv, SweepTypeOK, InNexus

LEMMA ObdSweepKeeps ==
  ASSUME SweepIInv, CommandTypeOK, [ObdNext]_obdVars
  PROVE  SweepIInv' /\ ForeignKept
<1>1. ASSUME NEW p \in Actors, CleanupBegins(p) \/ CleanupEnds(p)
      PROVE  SweepNext
  BY <1>1 DEF CleanupBegins, CleanupEnds, SweepNext, SweepStep
<1>2. CASE CleanupStep \/ LayerCommand \/ UNCHANGED obdVars
  <2>1. [SweepNext]_sweepVars
    BY <1>2 DEF CleanupStep, LayerCommand, obdVars, SweepNext
  <2> QED
    BY <2>1, SweepNextIInv
<1> QED
  BY <1>1, <1>2, DeviceStepKeeps, SweepNextIInv DEF ObdNext

\* What the daemon serves is a config it was given.
LEMMA ServedTypes ==
  ASSUME CommandTypeOK, TypeOK, DaemonServes
  PROVE  served' \in [Names -> Confs \cup {NoConf}]
  BY DEF DaemonServes, CommandTypeOK, TypeOK, TreeTypeOK

\* The command an actor waits for from now on; the others go on with theirs.
Becomes(p, op, l, unmounted) ==
    /\ cmd' \in [Actors -> Command]
    /\ cmd'[p].op = op /\ cmd'[p].launch = l /\ cmd'[p].unmounted = unmounted
    /\ \A q \in Actors \ {p} : cmd'[q] = cmd[q]

LEMMA BecomesFact ==
  ASSUME CommandTypeOK, NEW p \in Actors, NEW c \in Command, cmd' = [cmd EXCEPT ![p] = c]
  PROVE  Becomes(p, c.op, c.launch, c.unmounted)
  BY DEF CommandTypeOK, Becomes

LEMMA UpBecomes ==
  ASSUME CommandTypeOK, NEW p \in Actors, UpBegins(p)
  PROVE  \E l \in Launches :
            /\ Becomes(p, "up", l, FALSE)
            /\ dev'[p] = [name |-> l.name, naa |-> l.naa, conf |-> l.conf]
            /\ open' = open \cup {l}
            /\ Upper[l.conf] # NoLayer => ~InUse(Upper[l.conf])
<1>1. PICK l \in Launches, s \in BOOLEAN :
          /\ cmd' = [cmd EXCEPT ![p] = [NoCommand EXCEPT !.op = "up", !.launch = l,
                                                         !.subdir = s]]
          /\ dev'[p] = [name |-> l.name, naa |-> l.naa, conf |-> l.conf]
          /\ open' = open \cup {l}
          /\ Upper[l.conf] # NoLayer => ~InUse(Upper[l.conf])
  BY DEF UpBegins
<1> DEFINE c == [NoCommand EXCEPT !.op = "up", !.launch = l, !.subdir = s]
<1>2. NoCommand \in Command /\ NoCommand.unmounted = FALSE
  BY DEF NoCommand, Command
<1>3. c \in Command /\ c.op = "up" /\ c.launch = l /\ c.unmounted = FALSE
  BY <1>2 DEF Command
<1>4. cmd' = [cmd EXCEPT ![p] = c]
  BY <1>1
<1> HIDE DEF c
<1>5. Becomes(p, "up", l, FALSE)
  BY <1>3, <1>4, BecomesFact DEF Becomes
<1> QED
  BY <1>1, <1>5

LEMMA DownBecomes ==
  ASSUME CommandTypeOK, NEW p \in Actors, DownUnmountsNothing(p) \/ DownUnmounts(p)
  PROVE  \E l \in Launches, u \in BOOLEAN :
            /\ Becomes(p, "down", l, u)
            /\ u => l.mount # NoMount /\ UnmountPath(l.mount)
            /\ ~u => UNCHANGED vars
<1>1. PICK l \in Launches, u \in BOOLEAN :
          /\ cmd' = [cmd EXCEPT ![p] = IF u THEN [NoCommand EXCEPT !.op = "down", !.launch = l,
                                                                   !.unmounted = TRUE]
                                       ELSE [NoCommand EXCEPT !.op = "down", !.launch = l]]
          /\ u => l.mount # NoMount /\ UnmountPath(l.mount)
          /\ ~u => UNCHANGED vars
  BY DEF DownUnmountsNothing, DownUnmounts, Run
<1> DEFINE c == IF u THEN [NoCommand EXCEPT !.op = "down", !.launch = l, !.unmounted = TRUE]
                ELSE [NoCommand EXCEPT !.op = "down", !.launch = l]
<1>2. NoCommand \in Command /\ NoCommand.unmounted = FALSE
  BY DEF NoCommand, Command
<1>3. c \in Command /\ c.op = "down" /\ c.launch = l /\ c.unmounted = u
  BY <1>2 DEF Command
<1>4. cmd' = [cmd EXCEPT ![p] = c]
  BY <1>1
<1> HIDE DEF c
<1>5. Becomes(p, "down", l, u)
  BY <1>3, <1>4, BecomesFact DEF Becomes
<1> QED
  BY <1>1, <1>5

LEMMA GoesOnBecomes ==
  ASSUME CommandTypeOK, NEW p \in Actors, UpMakesSubdir(p) \/ DownTearsDown(p)
  PROVE  Becomes(p, IF DownTearsDown(p) THEN "teardown" ELSE cmd[p].op, cmd[p].launch,
                 cmd[p].unmounted)
<1>1. cmd \in [Actors -> Command] /\ cmd[p] \in Command
  BY DEF CommandTypeOK
<1>2. CASE DownTearsDown(p)
  <2> DEFINE c == [cmd[p] EXCEPT !.op = "teardown"]
  <2>1. c \in Command /\ c.op = "teardown" /\ c.launch = cmd[p].launch
        /\ c.unmounted = cmd[p].unmounted
    BY <1>1 DEF Command
  <2>2. cmd' = [cmd EXCEPT ![p] = c]
    BY <1>2 DEF DownTearsDown
  <2> HIDE DEF c
  <2> QED
    BY <1>2, <2>1, <2>2, BecomesFact DEF Becomes
<1>3. CASE UpMakesSubdir(p) /\ ~DownTearsDown(p)
  <2> DEFINE c == [cmd[p] EXCEPT !.subdir = FALSE]
  <2>1. c \in Command /\ c.op = cmd[p].op /\ c.launch = cmd[p].launch
        /\ c.unmounted = cmd[p].unmounted
    BY <1>1 DEF Command
  <2>2. cmd' = [cmd EXCEPT ![p] = c]
    BY <1>3 DEF UpMakesSubdir
  <2> HIDE DEF c
  <2> QED
    BY <1>3, <2>1, <2>2, BecomesFact DEF Becomes
<1> QED
  BY <1>2, <1>3

LEMMA ExitBecomes ==
  ASSUME CommandTypeOK, NEW p \in Actors,
         UpExits(p) \/ DownExits(p) \/ Killed(p) \/ CleanupEnds(p)
  PROVE  Becomes(p, "none", NoLaunch, FALSE)
<1>1. NoCommand \in Command /\ NoCommand.op = "none" /\ NoCommand.launch = NoLaunch
      /\ NoCommand.unmounted = FALSE
  BY DEF NoCommand, Command
<1>2. cmd' = [cmd EXCEPT ![p] = NoCommand]
  BY DEF UpExits, DownExits, Killed, CleanupEnds, Exit
<1>3. Becomes(p, NoCommand.op, NoCommand.launch, NoCommand.unmounted)
  BY <1>1, <1>2, BecomesFact
<1> QED
  BY <1>1, <1>3

LEMMA CleanupBecomes ==
  ASSUME CommandTypeOK, NEW p \in Actors, CleanupBegins(p)
  PROVE  Becomes(p, "cleanup", NoLaunch, FALSE)
<1> DEFINE c == [NoCommand EXCEPT !.op = "cleanup", !.launch = NoLaunch]
<1>1. NoCommand \in Command /\ NoCommand.unmounted = FALSE
  BY DEF NoCommand, Command
<1>2. c \in Command /\ c.op = "cleanup" /\ c.launch = NoLaunch /\ c.unmounted = FALSE
  BY <1>1 DEF Command
<1>3. cmd' = [cmd EXCEPT ![p] = c]
  BY DEF CleanupBegins, Run
<1> HIDE DEF c
<1> QED
  BY <1>2, <1>3, BecomesFact DEF Becomes

\* A command that starts, goes on or ends.
LEMMA BecomesTypes ==
  ASSUME CommandTypeOK, NEW p \in Actors, NEW op, NEW l, NEW u, Becomes(p, op, l, u),
         op \in {"up", "down", "teardown"} => l \in Launches,
         served' = served, open' \subseteq Launches
  PROVE  CommandTypeOK'
  BY DEF CommandTypeOK, Becomes

LEMMA CommandsKeep ==
  ASSUME SweepIInv, CommandTypeOK, [ObdNext]_obdVars
  PROVE  CommandTypeOK'
<1>1. open \subseteq Launches
      /\ \A p \in Actors : cmd[p].op \in {"up", "down", "teardown"} => cmd[p].launch \in Launches
  BY DEF CommandTypeOK
<1>2. TypeOK
  BY DEF SweepIInv, SweepTypeOK
<1>3. ASSUME NEW p \in Actors, UpBegins(p) PROVE CommandTypeOK'
  <2>1. served' = served
    BY <1>3 DEF UpBegins
  <2>2. PICK l \in Launches : Becomes(p, "up", l, FALSE) /\ open' = open \cup {l}
    BY <1>3, UpBecomes
  <2> QED
    BY <1>1, <2>1, <2>2, BecomesTypes
<1>4. ASSUME NEW p \in Actors, DownUnmountsNothing(p) \/ DownUnmounts(p) PROVE CommandTypeOK'
  <2>1. served' = served /\ open' = open
    BY <1>4 DEF DownUnmountsNothing, DownUnmounts
  <2>2. PICK l \in Launches, u \in BOOLEAN : Becomes(p, "down", l, u)
    BY <1>4, DownBecomes
  <2> QED
    BY <1>1, <2>1, <2>2, BecomesTypes
<1>5. ASSUME NEW p \in Actors, UpMakesSubdir(p) \/ DownTearsDown(p) PROVE CommandTypeOK'
  <2>1. served' = served /\ open' = open /\ (DownTearsDown(p) => cmd[p].op = "down")
    BY <1>5 DEF UpMakesSubdir, DownTearsDown
  <2>2. Becomes(p, IF DownTearsDown(p) THEN "teardown" ELSE cmd[p].op, cmd[p].launch,
                cmd[p].unmounted)
    BY <1>5, GoesOnBecomes
  <2> QED
    BY <1>1, <2>1, <2>2, BecomesTypes
<1>6. ASSUME NEW p \in Actors,
             \/ UpExits(p) \/ DownExits(p) \/ Killed(p)
             \/ CleanupEnds(p) \/ CleanupBegins(p)
      PROVE  CommandTypeOK'
  <2>1. served' = served /\ open' \subseteq open
    BY <1>6 DEF UpExits, DownExits, Killed, CleanupBegins, CleanupEnds
  <2>2. Becomes(p, "none", NoLaunch, FALSE) \/ Becomes(p, "cleanup", NoLaunch, FALSE)
    BY <1>6, ExitBecomes, CleanupBecomes
  <2> QED
    BY <1>1, <2>1, <2>2, BecomesTypes
<1>7. ASSUME cmd' = cmd, open' = open, served' = served \/ DaemonServes PROVE CommandTypeOK'
  BY <1>2, <1>7, ServedTypes DEF CommandTypeOK
<1>8. ASSUME NEW p \in Actors,
             \/ UpMounts(p) \/ UpDropsSubdir(p) \/ SubdirFails(p) \/ UpPersists(p)
             \/ InCall(p)
      PROVE  CommandTypeOK'
  BY <1>7, <1>8 DEF UpMounts, UpDropsSubdir, SubdirFails, UpPersists, InCall, commands
<1>9. CASE \/ HostStep /\ UNCHANGED commands
           \/ CleanupStep \/ LayerCommand \/ UNCHANGED obdVars
  BY <1>7, <1>9 DEF CleanupStep, LayerCommand, obdVars, commands
<1> QED
  BY <1>3, <1>4, <1>5, <1>6, <1>8, <1>9 DEF ObdNext, DeviceStep

LEMMA NextObdIInv == ObdIInv /\ [ObdNext]_obdVars => ObdIInv' /\ ForeignKept
  BY ObdSweepKeeps, CommandsKeep, ObdStepOwn DEF ObdIInv

LEMMA ObdInductive == ObdSpec => []ObdIInv
  BY InitObdIInv, NextObdIInv, PTL DEF ObdSpec

\* The state of the commands, of the sweep and of the tools they run stays well typed.
THEOREM CommandsWellTyped == ObdSpec => []ObdTypeOK
<1>1. ObdIInv => ObdTypeOK
  BY DEF ObdIInv, SweepIInv, LIInv, CommandTypeOK, Command, ObdTypeOK
<1> QED
  BY <1>1, ObdInductive, PTL

\* The commands leave other owners' nexuses and backstores alone, device down and
\* cleanup included.
THEOREM CommandsLeaveForeign == ObdSpec => ForeignUntouched
<1>1. ObdIInv /\ [ObdNext]_obdVars => [ForeignKept]_vars
  BY NextObdIInv
<1> QED
  BY <1>1, ObdInductive, PTL DEF ObdSpec, ForeignUntouched

-----------------------------------------------------------------------------
(* Commands on devices that are kept apart                                 *)

\* Its launch was accepted, and nothing has been taken down yet.
Raising == {"await", "resolve", "live"} \cup Launched \cup HasMount

\* A teardown has been at the link; at the backstore.
Unlinked == {"td_lun", "td_tpgt", "td_naa", "td_bs"}
TornDown == {"td_hba", "drop", "idle"}

TakesDown(p) == cmd[p].op \in {"down", "teardown"}

\* The shell will take the device for gone.
Believed(p) == TakesDown(p) /\ (cmd[p].unmounted \/ cmd[p].launch.mount = NoMount)

\* The library works for the command of its actor, on what that names; a sweep
\* runs for a cleanup.
CommandsOwn ==
    /\ host = NoActor
    /\ spc # "off" => \E p \in Actors : cmd[p].op = "cleanup"
    /\ \A p \in Actors : cmd[p].op = "up" => cmd[p].launch \in open
    /\ \A p \in Actors : pc[p] # "idle" =>
          /\ cmd[p].op \in {"up", "teardown"}
          /\ dev[p].name = cmd[p].launch.name
          /\ dev[p].naa = cmd[p].launch.naa
          /\ cmd[p].op = "up" => dev[p].conf = cmd[p].launch.conf
          /\ cmd[p].op = "teardown" => pc[p] \in Teardown \cup {"drop"}

\* What a Mounted is for is mounted, and where the command asked for it.
MountHeld(p) ==
    /\ at[p] # NoMount => pc[p] \in HasMount /\ mnt[at[p]] = dev[p].name
    /\ pc[p] \in {"opendir", "mounted"} => at[p] = cmd[p].launch.mount

\* The daemon is started on, and then serves, the config of the up.
ServesOwn(p) ==
    /\ pc[p] = "enable" => devcfg[dev[p].name] = dev[p].conf
    /\ pc[p] \in Raising =>
          backstore[dev[p].name] = "enabled" /\ served[dev[p].name] = dev[p].conf

\* A mount holds its link, and a link its backstore.
Pinned ==
    /\ \A m \in Mountpoints : mnt[m] # NoName => IsLinked(mnt[m])
    /\ \A n \in Names : backstore[n] # "enabled" => ~IsLinked(n) /\ served[n] = NoConf

\* x is the launch that brought up what is served as n: it alone links and mounts
\* it, and a device down of x that is going to be believed has nothing in its way.
Behind(n, x) ==
    /\ x \in open /\ x.name = n /\ x.conf = served[n]
    /\ \A a \in Naas : lun[a] = n => a = x.naa
    /\ \A m \in Mountpoints : mnt[m] = n => m = x.mount
    /\ \A p \in Actors : pc[p] \in Raising /\ dev[p].name = n => cmd[p].launch = x
    /\ \A p \in Actors : Believed(p) /\ cmd[p].launch = x =>
          /\ ~IsMounted(n)
          /\ pc[p] \in Unlinked => ~IsLinked(n)
          /\ cmd[p].op = "teardown" => pc[p] \notin TornDown

\* The shells know of every device that is served.
Accounted(n) == served[n] # NoConf => \E x \in open : Behind(n, x)

DevicesOwn ==
    /\ \A p \in Actors : MountHeld(p) /\ ServesOwn(p)
    /\ Pinned
    /\ \A n \in Names : Accounted(n)

ApartIInv == ObdIInv /\ CommandsOwn /\ DevicesOwn

LEMMA Places ==
    /\ \A l \in Raising \cup HasMount \cup Unlinked \cup Teardown : l # "idle"
    /\ "enable" # "idle" /\ "opendir" # "idle" /\ "mounted" # "idle"
    /\ HasMount \subseteq Raising
    /\ \A l \in Unlinked \cup Teardown \cup TornDown : l \notin Raising /\ l # "enable"
  BY DEF Raising, Launched, HasMount, Unlinked, Teardown, TornDown

LEMMA InitApart == ObdInit => CommandsOwn /\ DevicesOwn
<1> SUFFICES ASSUME ObdInit PROVE CommandsOwn /\ DevicesOwn
  OBVIOUS
<1> USE DEF ObdInit, SweepInit, Init, NoCommand
<1>1. CommandsOwn
  BY DEF CommandsOwn
<1>2. \A p \in Actors : MountHeld(p) /\ ServesOwn(p)
  BY Places DEF MountHeld, ServesOwn
<1>3. Pinned
  <2>1. \A a \in Naas : lun[a] \in ForeignNames \cup {NoName}
    BY DEF TreeInit
  <2>2. \A n \in Names : backstore[n] # "enabled" => n \notin ForeignNames /\ n # NoName
    BY DEF TreeInit, ForeignNames
  <2> QED
    BY <2>1, <2>2 DEF Pinned, IsLinked, TreeInit
<1>4. \A n \in Names : Accounted(n)
  BY DEF Accounted
<1> QED
  BY <1>1, <1>2, <1>3, <1>4 DEF DevicesOwn

\* What keeping apart means for the library: two devices worked on differ, and
\* no device is while a sweep runs.
LEMMA ApartFact ==
  ASSUME CommandsOwn, Apart
  PROVE  /\ \A p, q \in Actors : p # q /\ pc[p] # "idle" /\ pc[q] # "idle" =>
               dev[p].name # dev[q].name
         /\ \A p, q \in Actors : p # q /\ pc[p] # "idle" /\ TakesDown(q) =>
               cmd[q].launch.name # dev[p].name
         /\ spc # "off" => \A p \in Actors : pc[p] = "idle" /\ ~TakesDown(p)
<1>1. \A p, q \in Actors : p # q /\ cmd[p].op # "none" /\ cmd[q].op # "none" =>
         /\ cmd[p].op # "cleanup" /\ cmd[p].launch.name # cmd[q].launch.name
  BY DEF Apart
<1>2. \A p \in Actors : pc[p] # "idle" =>
         cmd[p].op \in {"up", "teardown"} /\ dev[p].name = cmd[p].launch.name
  BY DEF CommandsOwn
<1>3. \A q \in Actors : TakesDown(q) => cmd[q].op # "none" /\ cmd[q].op # "cleanup"
  BY DEF TakesDown
<1>4. spc # "off" => \A p \in Actors : pc[p] = "idle" /\ ~TakesDown(p)
  <2>1. SUFFICES ASSUME NEW q \in Actors, cmd[q].op = "cleanup", NEW p \in Actors
                 PROVE  pc[p] = "idle" /\ ~TakesDown(p)
    BY <2>1 DEF CommandsOwn
  <2> QED
    BY <1>1, <1>2, <1>3, <2>1
<1> QED
  BY <1>1, <1>2, <1>3, <1>4

-----------------------------------------------------------------------------
(* Steps that change nothing of a device                                   *)

\* q gets nowhere it was not, and no new device to be believed of.
Quietly(q) ==
    /\ pc'[q] \in Raising => pc[q] \in Raising
    /\ pc'[q] = "enable" => pc[q] = "enable"
    /\ pc'[q] \in {"opendir", "mounted"} => pc[q] \in {"opendir", "mounted"} /\ at'[q] = at[q]
    /\ at'[q] # NoMount => at'[q] = at[q] /\ pc'[q] \in HasMount
    /\ pc'[q] # "idle" /\ pc[q] # "idle" =>
          dev'[q] = dev[q] /\ cmd'[q].launch = cmd[q].launch
    /\ Believed(q)' => Believed(q) /\ cmd'[q].launch = cmd[q].launch
    /\ Believed(q)' /\ pc'[q] \in Unlinked => pc[q] \in Unlinked
    /\ Believed(q)' /\ cmd'[q].op = "teardown" /\ pc'[q] \in TornDown =>
          cmd[q].op = "teardown" /\ pc[q] \in TornDown

LEMMA MountKept ==
  ASSUME NEW q \in Actors, MountHeld(q), Quietly(q),
         at[q] # NoMount => mnt'[at[q]] = mnt[at[q]]
  PROVE  MountHeld(q)'
  BY Places DEF MountHeld, Quietly

LEMMA ServesKept ==
  ASSUME NEW q \in Actors, ServesOwn(q), Quietly(q),
         pc[q] = "enable" => devcfg'[dev[q].name] = devcfg[dev[q].name],
         pc[q] \in Raising => /\ backstore'[dev[q].name] = "enabled"
                              /\ served'[dev[q].name] = served[dev[q].name]
  PROVE  ServesOwn(q)'
  BY Places DEF ServesOwn, Quietly

\* q works on another name than n.
Elsewhere(q, n) ==
    /\ pc'[q] \in Raising => dev'[q].name # n
    /\ Believed(q)' => cmd'[q].launch.name # n

LEMMA BehindKept ==
  ASSUME NEW n \in Names, NEW x, Behind(n, x), x \in open', served'[n] = served[n],
         \A a \in Naas : lun'[a] = n => lun[a] = n,
         \A m \in Mountpoints : mnt'[m] = n => mnt[m] = n,
         \A q \in Actors : Quietly(q) \/ Elsewhere(q, n)
  PROVE  Behind(n, x)'
<1>0. x.name = n
  BY DEF Behind
<1>1. (IsMounted(n)' => IsMounted(n)) /\ (IsLinked(n)' => IsLinked(n))
  BY DEF IsMounted, IsLinked
<1>2. \A q \in Actors : pc'[q] \in Raising /\ dev'[q].name = n =>
         pc[q] \in Raising /\ dev'[q] = dev[q] /\ cmd'[q].launch = cmd[q].launch
  BY Places DEF Quietly, Elsewhere
<1>3. \A q \in Actors : Believed(q)' /\ cmd'[q].launch = x =>
         /\ ~IsMounted(n)
         /\ pc'[q] \in Unlinked => ~IsLinked(n)
         /\ cmd'[q].op = "teardown" => pc'[q] \notin TornDown
  BY <1>0 DEF Quietly, Elsewhere, Behind
<1> QED
  BY <1>1, <1>2, <1>3 DEF Behind

LEMMA AccountedKept ==
  ASSUME NEW n \in Names, Accounted(n), open \subseteq open',
         served'[n] \in {served[n], NoConf},
         \A a \in Naas : lun'[a] = n => lun[a] = n,
         \A m \in Mountpoints : mnt'[m] = n => mnt[m] = n,
         \A q \in Actors : Quietly(q) \/ Elsewhere(q, n)
  PROVE  Accounted(n)'
<1> SUFFICES ASSUME served'[n] # NoConf PROVE \E x \in open' : Behind(n, x)'
  BY DEF Accounted
<1>1. PICK x \in open : Behind(n, x)
  BY DEF Accounted
<1> QED
  BY <1>1, BehindKept

\* Nothing is enabled, linked, mounted or taken down.
LEMMA DevicesFrame ==
  ASSUME TypeOK, DevicesOwn, \A q \in Actors : Quietly(q), open \subseteq open',
         \A n \in Names : backstore'[n] = "enabled" <=> backstore[n] = "enabled",
         \A m \in Mountpoints : mnt'[m] \in {mnt[m], NoName},
         \A q \in Actors : at[q] # NoMount => mnt'[at[q]] = mnt[at[q]],
         UNCHANGED <<devcfg, lun, served>>
  PROVE  DevicesOwn'
<1>1. \A q \in Actors : pc[q] \in Raising => dev[q].name \in Names
  BY Places DEF TypeOK, Devices
<1>2. \A q \in Actors : MountHeld(q)' /\ ServesOwn(q)'
  BY <1>1, MountKept, ServesKept DEF DevicesOwn, ServesOwn
<1>3. Pinned'
  <2>1. \A m \in Mountpoints : mnt[m] \in Names \cup {NoName}
    BY DEF TypeOK, TreeTypeOK
  <2>2. \A n \in Names : IsLinked(n)' <=> IsLinked(n)
    BY DEF IsLinked
  <2> QED
    BY <2>1, <2>2 DEF DevicesOwn, Pinned
<1>4. \A n \in Names, m \in Mountpoints : mnt'[m] = n => mnt[m] = n
  OBVIOUS
<1>5. \A n \in Names : Accounted(n)'
  BY <1>4, AccountedKept DEF DevicesOwn
<1> QED
  BY <1>2, <1>3, <1>5 DEF DevicesOwn

\* Who is not concerned by a step.
LEMMA SameQuiet ==
  ASSUME NEW q \in Actors, MountHeld(q), cmd'[q] = cmd[q],
         pc'[q] = pc[q], dev'[q] = dev[q], at'[q] = at[q]
  PROVE  Quietly(q)
  BY DEF Quietly, Believed, TakesDown, MountHeld

LEMMA ServedFact ==
  ASSUME DaemonServes, CommandTypeOK, Pinned, NEW n \in Names
  PROVE  /\ backstore'[n] # "enabled" => served'[n] = NoConf
         /\ backstore'[n] = "enabled" /\ backstore[n] = "enabled" => served'[n] = served[n]
         /\ backstore'[n] = "enabled" /\ backstore[n] # "enabled" => served'[n] = devcfg[n]
         /\ (backstore'[n] = "enabled" <=> backstore[n] = "enabled") => served'[n] = served[n]
  BY DEF DaemonServes, Pinned

LEMMA ServedSame ==
  ASSUME DaemonServes, CommandTypeOK, Pinned,
         \A n \in Names : backstore'[n] = "enabled" <=> backstore[n] = "enabled"
  PROVE  served' = served
<1>1. \A n \in Names : served'[n] = served[n]
  BY ServedFact
<1>2. served' = [n \in Names |-> served'[n]] /\ served = [n \in Names |-> served[n]]
  BY DEF DaemonServes, CommandTypeOK
<1> QED
  BY <1>1, <1>2

-----------------------------------------------------------------------------
(* Steps of the library inside a command                                   *)

\* Those that enable, link, unmount or take down, or get a config ready.
Working(p) ==
    \/ Configure(p) \/ EnableSucceeds(p) \/ Link(p) \/ Umount(p)
    \/ UnlinkStep(p) \/ RmBackstoreStep(p)

LEMMA CallOthers ==
  ASSUME TypeOK, NEW p \in Actors, CallStep(p)
  PROVE  /\ \A q \in Actors \ {p} : pc'[q] = pc[q] /\ dev'[q] = dev[q] /\ at'[q] = at[q]
         /\ pc[p] # "idle"
         /\ pc'[p] # "idle" => dev'[p] = dev[p]
         /\ pc[p] \in Teardown \cup {"drop"} => pc'[p] \in Teardown \cup {"drop", "idle"}
<1> USE DEF TypeOK, CallStep, Goto, Release, Teardown, handles
<1>1. CASE \/ ResetResult(p) \/ CreateHba(p) \/ CreateBackstore(p) \/ Configure(p)
           \/ EnableSucceeds(p) \/ EnableAgain(p) \/ UpFails(p)
           \/ AwaitSuccess(p) \/ LaunchRefused(p) \/ LaunchTimesOut(p)
  BY <1>1 DEF ResetResult, CreateHba, CreateBackstore, Configure, EnableSucceeds,
     EnableAgain, UpFails, Fallible, AwaitSuccess, LaunchRefused, LaunchTimesOut
<1>2. CASE \/ CreateNexus(p) \/ WriteNexus(p) \/ Link(p) \/ Resolve(p)
           \/ OpenDir(p) \/ OpenDirFails(p) \/ Umount(p) \/ UmountBusy(p)
  BY <1>2 DEF CreateNexus, WriteNexus, Link, Resolve, OpenDir, OpenDirFails, Umount,
     UmountBusy
<1>3. CASE \/ UnlinkStep(p) \/ RmNexusStep(p) \/ RmBackstoreStep(p) \/ RmHbaStep(p)
           \/ pc[p] = "drop" /\ DropLive(p)
  BY <1>3 DEF UnlinkStep, RmNexusStep, RmBackstoreStep, RmHbaStep, DropLive
<1> QED
  BY <1>1, <1>2, <1>3

LEMMA CallQuiet ==
  ASSUME TypeOK, CommandsOwn, NEW p \in Actors, InCall(p),
         ~Working(p), MountHeld(p)
  PROVE  /\ Quietly(p)
         /\ \A n \in Names : backstore'[n] = "enabled" <=> backstore[n] = "enabled"
         /\ UNCHANGED <<devcfg, lun, mnt>>
<1>0. CallStep(p) /\ cmd' = cmd
  BY DEF InCall
<1>1. Believed(p)' => /\ Believed(p) /\ cmd[p].op = "teardown"
                      /\ pc[p] \in Teardown \cup {"drop"}
  BY <1>0, CallOthers DEF CommandsOwn, Believed, TakesDown, InCall
<1> USE <1>0, <1>1 DEF TypeOK, CallStep, Goto, Release, tree, Quietly, Raising,
        Launched, HasMount, Unlinked, TornDown, Teardown, Working, MountHeld
<1>2. CASE ResetResult(p) \/ CreateHba(p) \/ EnableAgain(p) \/ UpFails(p)
  BY <1>2 DEF ResetResult, CreateHba, EnableAgain, UpFails, Fallible
<1>3. CASE CreateBackstore(p)
  BY <1>3 DEF CreateBackstore, MkdirBackstore, TreeTypeOK, Devices
<1>4. CASE \/ AwaitSuccess(p) \/ LaunchRefused(p) \/ LaunchTimesOut(p)
           \/ CreateNexus(p) \/ WriteNexus(p) \/ Resolve(p)
  BY <1>4 DEF AwaitSuccess, LaunchRefused, LaunchTimesOut, CreateNexus, WriteNexus, Resolve
<1>5. CASE OpenDir(p) \/ OpenDirFails(p) \/ UmountBusy(p)
  BY <1>5 DEF OpenDir, OpenDirFails, UmountBusy
<1>6. CASE RmNexusStep(p) \/ RmHbaStep(p)
  BY <1>6 DEF RmNexusStep, RmHbaStep
<1>7. CASE pc[p] = "drop" /\ DropLive(p)
  BY <1>7 DEF DropLive
<1> QED
  BY <1>2, <1>3, <1>4, <1>5, <1>6, <1>7

LEMMA CallCommands ==
  ASSUME TypeOK, CommandsOwn, NEW p \in Actors, InCall(p), UNCHANGED <<spc, host>>
  PROVE  CommandsOwn'
  BY CallOthers DEF CommandsOwn, InCall

\* The others are not concerned.
LEMMA CallOthersQuiet ==
  ASSUME TypeOK, NEW p \in Actors, InCall(p), \A q \in Actors : MountHeld(q)
  PROVE  \A q \in Actors \ {p} : Quietly(q)
<1>1. \A q \in Actors \ {p} : /\ pc'[q] = pc[q] /\ dev'[q] = dev[q] /\ at'[q] = at[q]
                              /\ cmd'[q] = cmd[q]
  BY CallOthers DEF InCall
<1> QED
  BY <1>1 DEF Quietly, Believed, TakesDown, MountHeld

LEMMA WorkerFacts ==
  ASSUME TypeOK, CommandTypeOK, CommandsOwn, Apart, NEW p \in Actors, pc[p] # "idle"
  PROVE  /\ dev[p].name \in Names /\ dev[p].naa \in Naas
         /\ cmd[p].launch \in Launches
         /\ dev[p].name = cmd[p].launch.name /\ dev[p].naa = cmd[p].launch.naa
         /\ \A q \in Actors \ {p} :
               /\ pc[q] # "idle" => dev[q].name # dev[p].name
               /\ TakesDown(q) => cmd[q].launch.name # dev[p].name
         /\ pc[p] \notin Teardown \cup {"drop"} =>
               /\ cmd[p].op = "up" /\ ~TakesDown(p) /\ cmd[p].launch \in open
               /\ dev[p].conf = cmd[p].launch.conf
<1>1. dev[p].name \in Names /\ dev[p].naa \in Naas
  BY DEF TypeOK, Devices
<1>2. cmd[p].op \in {"up", "teardown"} /\ cmd[p].launch \in Launches
  BY DEF CommandsOwn, CommandTypeOK
<1> QED
  BY <1>1, <1>2, ApartFact DEF CommandsOwn, TakesDown

\* On other names than its own, p and its neighbours leave everything as it is.
LEMMA CallElsewhere ==
  ASSUME TypeOK, CommandTypeOK, CommandsOwn, Apart, NEW p \in Actors, InCall(p),
         \A q \in Actors : MountHeld(q)
  PROVE  \A n \in Names \ {dev[p].name} : \A q \in Actors : Quietly(q) \/ Elsewhere(q, n)
<1>1. /\ pc[p] # "idle" /\ cmd' = cmd
      /\ pc'[p] # "idle" => dev'[p] = dev[p]
  BY CallOthers DEF InCall
<1>2. cmd[p].launch.name = dev[p].name
  BY <1>1, WorkerFacts
<1>3. \A n \in Names \ {dev[p].name} : Elsewhere(p, n)
  BY <1>1, <1>2, Places DEF Elsewhere
<1> QED
  BY <1>3, CallOthersQuiet

\* What the neighbours of p have is out of its reach.
LEMMA OthersHold ==
  ASSUME TypeOK, CommandTypeOK, CommandsOwn, DevicesOwn, Apart,
         NEW p \in Actors, InCall(p), NEW q \in Actors \ {p},
         \A m \in Names \ {dev[p].name} :
             backstore'[m] = backstore[m] /\ devcfg'[m] = devcfg[m] /\ served'[m] = served[m],
         at[q] # NoMount => mnt'[at[q]] = mnt[at[q]]
  PROVE  MountHeld(q)' /\ ServesOwn(q)'
<1>1. pc[p] # "idle"
  BY CallOthers DEF InCall
<1>2. pc[q] # "idle" => dev[q].name \in Names \ {dev[p].name}
  BY <1>1, WorkerFacts DEF TypeOK, Devices
<1>3. pc[q] = "enable" \/ pc[q] \in Raising => pc[q] # "idle"
  BY Places
<1>4. MountHeld(q) /\ ServesOwn(q) /\ Quietly(q)
  BY CallOthersQuiet DEF DevicesOwn
<1> QED
  BY <1>2, <1>3, <1>4, MountKept, ServesKept DEF ServesOwn

\* A config is written, and stays until the up that wrote it is through with it.
LEMMA ConfigureDevices ==
  ASSUME TypeOK, CommandTypeOK, CommandsOwn, DevicesOwn, Apart,
         NEW p \in Actors, InCall(p), Configure(p)
  PROVE  DevicesOwn'
<1> DEFINE n == dev[p].name
<1>1. /\ pc[p] = "configure" /\ pc' = [pc EXCEPT ![p] = "enable"]
      /\ devcfg' = [devcfg EXCEPT ![n] = dev[p].conf]
      /\ UNCHANGED <<backstore, lun, mnt, dev, at>>
  BY DEF Configure, Goto, WriteDevConfig
<1>2. /\ n \in Names /\ ~TakesDown(p)
      /\ \A q \in Actors \ {p} : pc[q] # "idle" => dev[q].name # n
  BY <1>1, WorkerFacts DEF Teardown
<1>3. cmd' = cmd /\ open' = open /\ served' = served
  BY <1>1, ServedSame DEF InCall, DevicesOwn
<1>4. \A q \in Actors \ {p} : Quietly(q)
  BY CallOthersQuiet DEF DevicesOwn
<1>5. pc'[p] = "enable" /\ devcfg'[n] = dev[p].conf /\ \A m \in Names \ {n} : devcfg'[m] = devcfg[m]
  BY <1>1, <1>2 DEF TypeOK, TreeTypeOK
<1>6. MountHeld(p)' /\ ServesOwn(p)'
  BY <1>1, <1>5 DEF DevicesOwn, MountHeld, ServesOwn, HasMount, Raising, Launched
<1>7. ASSUME NEW q \in Actors \ {p} PROVE MountHeld(q)' /\ ServesOwn(q)'
  BY <1>1, <1>3, <1>5, <1>7, OthersHold
<1>8. Pinned'
  BY <1>1, <1>3 DEF DevicesOwn, Pinned, IsLinked
<1>9. \A q \in Actors, m \in Names : Quietly(q) \/ Elsewhere(q, m)
  BY <1>2, <1>3, <1>4, <1>5 DEF Elsewhere, Raising, Launched, HasMount, Believed, TakesDown
<1>10. \A m \in Names : Accounted(m)'
  BY <1>1, <1>3, <1>9, AccountedKept DEF DevicesOwn
<1> QED
  BY <1>6, <1>7, <1>8, <1>10 DEF DevicesOwn

\* The accepted `enable`: nothing is left of an earlier device of that name.
LEMMA EnableDevices ==
  ASSUME TypeOK, CommandTypeOK, CommandsOwn, DevicesOwn, Apart,
         NEW p \in Actors, InCall(p), EnableSucceeds(p)
  PROVE  DevicesOwn'
<1>0. PICK n \in Names, x \in Launches : n = dev[p].name /\ x = cmd[p].launch
  BY WorkerFacts DEF EnableSucceeds, Goto
<1>1. /\ pc[p] = "enable" /\ pc' = [pc EXCEPT ![p] = "await"]
      /\ backstore[n] = "made" /\ backstore' = [backstore EXCEPT ![n] = "enabled"]
      /\ devcfg[n] = dev[p].conf /\ devcfg[n] # NoConf
      /\ UNCHANGED <<devcfg, lun, mnt, dev, at>>
  BY <1>0 DEF EnableSucceeds, Goto, Enable, DevicesOwn, ServesOwn
<1>2. /\ n \in Names /\ ~TakesDown(p) /\ x \in open /\ x.conf = dev[p].conf /\ x.name = n
      /\ \A q \in Actors \ {p} : /\ pc[q] # "idle" => dev[q].name # n
                                 /\ TakesDown(q) => cmd[q].launch.name # n
  BY <1>0, <1>1, WorkerFacts DEF Teardown
<1>3. cmd' = cmd /\ open' = open /\ DaemonServes
  BY DEF InCall
<1>4. pc'[p] = "await" /\ backstore'[n] = "enabled"
      /\ \A m \in Names \ {n} : backstore'[m] = backstore[m]
  BY <1>1, <1>2 DEF TypeOK, TreeTypeOK
<1>5. served'[n] = dev[p].conf /\ \A m \in Names \ {n} : served'[m] = served[m]
  BY <1>1, <1>2, <1>3, <1>4, ServedFact DEF DevicesOwn
<1>6. \A q \in Actors \ {p} : Quietly(q)
  BY CallOthersQuiet DEF DevicesOwn
<1>7. MountHeld(p)' /\ ServesOwn(p)'
  BY <1>0, <1>1, <1>4, <1>5 DEF DevicesOwn, MountHeld, ServesOwn, HasMount
<1>8. ASSUME NEW q \in Actors \ {p} PROVE MountHeld(q)' /\ ServesOwn(q)'
  BY <1>0, <1>1, <1>4, <1>5, <1>8, OthersHold
<1>9. Pinned'
  BY <1>1, <1>2, <1>4, <1>5 DEF DevicesOwn, Pinned, IsLinked
<1>10. \A m \in Names \ {n} : Accounted(m)'
  BY <1>0, <1>1, <1>3, <1>5, CallElsewhere, AccountedKept DEF DevicesOwn
<1>11. Behind(n, x)'
  <2>1. ~IsLinked(n) /\ ~IsMounted(n) /\ ~IsLinked(n)' /\ ~IsMounted(n)'
    BY <1>1, <1>2 DEF DevicesOwn, Pinned, IsLinked, IsMounted
  <2>2. \A q \in Actors : Believed(q)' => q # p /\ cmd[q].launch.name # n
    BY <1>2, <1>3 DEF Believed, TakesDown
  <2>3. \A q \in Actors \ {p} : pc'[q] \in Raising => dev'[q].name # n
    BY <1>1, <1>2, Places DEF TypeOK
  <2> QED
    BY <1>0, <1>2, <1>3, <1>5, <2>1, <2>2, <2>3 DEF Behind, IsLinked, IsMounted
<1> QED
  BY <1>2, <1>3, <1>7, <1>8, <1>9, <1>10, <1>11 DEF DevicesOwn, Accounted

\* The link is made by the launch that is behind the device.
LEMMA LinkDevices ==
  ASSUME TypeOK, CommandTypeOK, CommandsOwn, DevicesOwn, Apart,
         NEW p \in Actors, InCall(p), Link(p)
  PROVE  DevicesOwn'
<1>0. PICK n \in Names, a \in Naas : n = dev[p].name /\ a = dev[p].naa
  BY WorkerFacts DEF Link, Goto
<1>1. /\ pc[p] = "link" /\ pc' = [pc EXCEPT ![p] = "resolve"]
      /\ lun[a] \in {NoName, n} /\ lun' = [lun EXCEPT ![a] = n]
      /\ UNCHANGED <<backstore, devcfg, mnt, dev, at>>
  BY <1>0 DEF Link, Goto, LinkLun
<1>2. /\ ~TakesDown(p) /\ a = cmd[p].launch.naa
      /\ \A q \in Actors \ {p} : /\ pc[q] # "idle" => dev[q].name # n
                                 /\ TakesDown(q) => cmd[q].launch.name # n
  BY <1>0, <1>1, WorkerFacts DEF Teardown
<1>3. cmd' = cmd /\ open' = open /\ served' = served
  BY <1>1, ServedSame DEF InCall, DevicesOwn
<1>4. lun'[a] = n /\ \A b \in Naas \ {a} : lun'[b] = lun[b]
  BY <1>1 DEF TypeOK, TreeTypeOK
<1>5. pc'[p] = "resolve" /\ pc[p] \in Raising
  BY <1>1 DEF TypeOK, Raising, Launched
<1>6. MountHeld(p)' /\ ServesOwn(p)'
  BY <1>1, <1>3, <1>5 DEF DevicesOwn, MountHeld, ServesOwn, HasMount
<1>7. ASSUME NEW q \in Actors \ {p} PROVE MountHeld(q)' /\ ServesOwn(q)'
  BY <1>1, <1>3, <1>7, OthersHold
<1>8. Pinned'
  <2>1. backstore[n] = "enabled"
    BY <1>0, <1>5 DEF DevicesOwn, ServesOwn
  <2>2. \A m \in Names : (IsLinked(m) => IsLinked(m)') /\ (IsLinked(m)' => IsLinked(m) \/ m = n)
    BY <1>1, <1>4 DEF IsLinked
  <2>3. \A m \in Mountpoints : mnt[m] \in Names \cup {NoName}
    BY DEF TypeOK, TreeTypeOK
  <2> QED
    BY <1>1, <1>3, <2>1, <2>2, <2>3 DEF DevicesOwn, Pinned
<1>9. \A m \in Names \ {n} : Accounted(m)'
  <2>1. \A m \in Names \ {n}, b \in Naas : lun'[b] = m => lun[b] = m
    BY <1>4
  <2> QED
    BY <1>0, <1>1, <1>3, <2>1, CallElsewhere, AccountedKept DEF DevicesOwn
<1>10. ASSUME NEW x \in open, Behind(n, x) PROVE Behind(n, x)'
  <2>1. x = cmd[p].launch
    BY <1>0, <1>5, <1>10 DEF Behind
  <2>2. \A q \in Actors : Believed(q)' => cmd[q].launch # x
    BY <1>2, <1>3, <1>10 DEF Behind, Believed, TakesDown
  <2>3. \A q \in Actors \ {p} : pc'[q] \in Raising => dev'[q].name # n
    BY <1>1, <1>2, Places DEF TypeOK
  <2>4. \A b \in Naas : lun'[b] = n => b = x.naa
    BY <1>2, <1>4, <1>10, <2>1 DEF Behind
  <2> QED
    BY <1>1, <1>3, <1>10, <2>1, <2>2, <2>3, <2>4 DEF Behind
<1>11. Accounted(n)'
  BY <1>3, <1>10 DEF DevicesOwn, Accounted
<1> QED
  BY <1>6, <1>7, <1>8, <1>9, <1>11 DEF DevicesOwn

\* A mount ends.
LEMMA UmountDevices ==
  ASSUME TypeOK, CommandTypeOK, CommandsOwn, DevicesOwn, Apart,
         NEW p \in Actors, InCall(p), Umount(p)
  PROVE  DevicesOwn'
<1>1. /\ pc[p] \in {"unmount", "drop_mounted"} /\ pc'[p] \in {"live", "drop"}
      /\ pc[p] = "drop_mounted" => pc'[p] = "drop"
      /\ at'[p] = NoMount
      /\ \A m \in Mountpoints : mnt'[m] = IF m = at[p] THEN NoName ELSE mnt[m]
      /\ UNCHANGED <<backstore, devcfg, lun, dev>>
  BY DEF Umount, Goto, UnmountAt, TypeOK, TreeTypeOK
<1>2. cmd' = cmd /\ open' = open /\ served' = served
  BY <1>1, ServedSame DEF InCall, DevicesOwn
<1>3. /\ ~TakesDown(p)
      /\ \A q \in Actors \ {p} : pc[q] # "idle" => dev[q].name # dev[p].name
  BY <1>1, WorkerFacts DEF Teardown
<1>4. Quietly(p) /\ \A q \in Actors \ {p} : Quietly(q)
  <2>1. Quietly(p)
    BY <1>1, <1>2, <1>3 DEF Quietly, Raising, HasMount, Launched, Believed, TakesDown
  <2> QED
    BY <2>1, CallOthersQuiet DEF DevicesOwn
<1>5. MountHeld(p)' /\ ServesOwn(p)'
  BY <1>1, <1>2 DEF DevicesOwn, MountHeld, ServesOwn, Raising, HasMount, Launched
<1>6. ASSUME NEW q \in Actors \ {p} PROVE MountHeld(q)' /\ ServesOwn(q)'
  <2>1. at[q] # NoMount => at[q] # at[p] /\ at[q] \in Mountpoints
    <3>1. MountHeld(p) /\ MountHeld(q)
      BY DEF DevicesOwn
    <3>2. at[q] # NoMount => pc[q] # "idle" /\ mnt[at[q]] = dev[q].name
      BY <3>1, Places DEF MountHeld
    <3> QED
      BY <1>3, <3>1, <3>2 DEF MountHeld, TypeOK
  <2> QED
    BY <1>1, <1>2, <1>6, <2>1, OthersHold
<1>7. Pinned'
  BY <1>1, <1>2 DEF DevicesOwn, Pinned, IsLinked
<1>8. \A n \in Names, m \in Mountpoints : mnt'[m] = n => mnt[m] = n
  BY <1>1
<1>9. \A n \in Names : Accounted(n)'
  BY <1>1, <1>2, <1>4, <1>8, AccountedKept DEF DevicesOwn
<1> QED
  BY <1>5, <1>6, <1>7, <1>9 DEF DevicesOwn

\* The link goes, unless the device is mounted, which a device down that is going
\* to be believed knows it is not.
LEMMA UnlinkDevices ==
  ASSUME TypeOK, CommandTypeOK, CommandsOwn, DevicesOwn, Apart,
         NEW p \in Actors, InCall(p), UnlinkStep(p)
  PROVE  DevicesOwn'
<1>0. PICK n \in Names, a \in Naas : n = dev[p].name /\ a = dev[p].naa
  BY WorkerFacts DEF UnlinkStep, Goto
<1>1. /\ pc[p] = "td_link" /\ pc'[p] = "td_lun"
      /\ \A b \in Naas : lun'[b] = IF b = a /\ lun[a] = n /\ ~IsMounted(n) THEN NoName ELSE lun[b]
      /\ UNCHANGED <<backstore, devcfg, mnt, dev, at>>
  BY <1>0 DEF UnlinkStep, Goto, RmSymlink, TypeOK, TreeTypeOK
<1>2. cmd' = cmd /\ open' = open /\ served' = served
  BY <1>1, ServedSame DEF InCall, DevicesOwn
<1>3. /\ a = cmd[p].launch.naa /\ pc[p] # "idle"
      /\ \A q \in Actors \ {p} : /\ pc[q] # "idle" => dev[q].name # n
                                 /\ TakesDown(q) => cmd[q].launch.name # n
  BY <1>0, <1>1, WorkerFacts
<1>4. MountHeld(p)' /\ ServesOwn(p)'
  BY <1>1, <1>2 DEF DevicesOwn, MountHeld, ServesOwn, Raising, HasMount, Launched
<1>5. ASSUME NEW q \in Actors \ {p} PROVE MountHeld(q)' /\ ServesOwn(q)'
  BY <1>1, <1>2, <1>5, OthersHold
<1>6. Pinned'
  <2>1. \A m \in Names : IsLinked(m)' => IsLinked(m)
    BY <1>1 DEF IsLinked
  <2>2. \A m \in Names : IsLinked(m) => IsLinked(m)' \/ (m = n /\ ~IsMounted(n))
    BY <1>1 DEF IsLinked
  <2>3. \A m \in Mountpoints : mnt[m] \in Names \cup {NoName}
    BY DEF TypeOK, TreeTypeOK
  <2> QED
    BY <1>1, <1>2, <2>1, <2>2, <2>3 DEF DevicesOwn, Pinned, IsMounted
<1>7. \A m \in Names, b \in Naas : lun'[b] = m => lun[b] = m
  BY <1>1
<1>8. \A m \in Names \ {n} : Accounted(m)'
  BY <1>0, <1>1, <1>2, <1>7, CallElsewhere, AccountedKept DEF DevicesOwn
<1>9. ASSUME NEW x \in open, Behind(n, x) PROVE Behind(n, x)'
  <2>1. ASSUME Believed(p), cmd[p].launch = x PROVE ~IsMounted(n)' /\ ~IsLinked(n)'
    <3>1. ~IsMounted(n) /\ \A b \in Naas : lun[b] = n => b = a
      BY <1>3, <1>9, <2>1 DEF Behind
    <3> QED
      BY <1>1, <3>1 DEF IsMounted, IsLinked
  <2>2. \A q \in Actors \ {p} : Believed(q)' => cmd[q].launch # x
    BY <1>2, <1>3, <1>9 DEF Behind, Believed, TakesDown
  <2>3. \A q \in Actors : pc'[q] \in Raising => dev'[q].name # n
    BY <1>1, <1>3, Places, CallOthers DEF Raising, Launched, HasMount, InCall
  <2>4. \A b \in Naas : lun'[b] = n => b = x.naa
    BY <1>7, <1>9 DEF Behind
  <2>5. Believed(p)' <=> Believed(p)
    BY <1>2 DEF Believed, TakesDown
  <2> QED
    BY <1>1, <1>2, <1>9, <2>1, <2>2, <2>3, <2>4, <2>5 DEF Behind, TornDown
<1>10. Accounted(n)'
  BY <1>2, <1>9 DEF DevicesOwn, Accounted
<1> QED
  BY <1>4, <1>5, <1>6, <1>8, <1>10 DEF DevicesOwn

\* The backstore goes, unless it is linked, which a device down that is going to
\* be believed knows it is not.
LEMMA RmBackstoreDevices ==
  ASSUME TypeOK, CommandTypeOK, CommandsOwn, DevicesOwn, Apart,
         NEW p \in Actors, InCall(p), RmBackstoreStep(p)
  PROVE  DevicesOwn'
<1>0. PICK n \in Names : n = dev[p].name
  BY WorkerFacts DEF RmBackstoreStep, Goto
<1>1. /\ pc[p] = "td_bs" /\ pc'[p] = "td_hba"
      /\ ~IsLinked(n) => backstore'[n] = "absent"
      /\ IsLinked(n) => UNCHANGED <<backstore, devcfg>>
      /\ \A m \in Names \ {n} : backstore'[m] = backstore[m] /\ devcfg'[m] = devcfg[m]
      /\ UNCHANGED <<lun, mnt, dev, at>>
  BY <1>0 DEF RmBackstoreStep, Goto, RmdirBackstore, TypeOK, TreeTypeOK
<1>2. cmd' = cmd /\ open' = open /\ DaemonServes
  BY DEF InCall
<1>3. /\ \A m \in Names \ {n} : served'[m] = served[m]
      /\ IsLinked(n) => served'[n] = served[n]
      /\ ~IsLinked(n) => served'[n] = NoConf
  BY <1>1, <1>2, ServedFact DEF DevicesOwn
<1>4. /\ n = cmd[p].launch.name /\ pc[p] # "idle"
      /\ \A q \in Actors \ {p} : /\ pc[q] # "idle" => dev[q].name # n
                                 /\ TakesDown(q) => cmd[q].launch.name # n
  BY <1>0, <1>1, WorkerFacts
<1>5. MountHeld(p)' /\ ServesOwn(p)'
  BY <1>1 DEF DevicesOwn, MountHeld, ServesOwn, Raising, HasMount, Launched
<1>6. ASSUME NEW q \in Actors \ {p} PROVE MountHeld(q)' /\ ServesOwn(q)'
  BY <1>0, <1>1, <1>3, <1>6, OthersHold
<1>7. Pinned'
  <2>1. \A m \in Names : IsLinked(m)' <=> IsLinked(m)
    BY <1>1 DEF IsLinked
  <2>2. \A m \in Names : backstore'[m] # "enabled" => ~IsLinked(m) /\ served'[m] = NoConf
    BY <1>1, <1>3 DEF DevicesOwn, Pinned
  <2>3. \A m \in Mountpoints : mnt[m] \in Names \cup {NoName}
    BY DEF TypeOK, TreeTypeOK
  <2> QED
    BY <1>1, <2>1, <2>2, <2>3 DEF DevicesOwn, Pinned
<1>8. \A m \in Names \ {n} : Accounted(m)'
  BY <1>0, <1>1, <1>2, <1>3, CallElsewhere, AccountedKept DEF DevicesOwn
<1>9. ASSUME NEW x \in open, Behind(n, x), IsLinked(n) PROVE Behind(n, x)'
  <2>1. ~(Believed(p) /\ cmd[p].launch = x)
    BY <1>1, <1>9 DEF Behind, Unlinked
  <2>2. \A q \in Actors : Believed(q)' => cmd[q].launch # x
    BY <1>2, <1>4, <1>9, <2>1 DEF Behind, Believed, TakesDown
  <2>3. \A q \in Actors : pc'[q] \in Raising => dev'[q].name # n
    BY <1>1, <1>4, Places, CallOthers DEF Raising, Launched, HasMount, InCall
  <2> QED
    BY <1>1, <1>2, <1>3, <1>9, <2>2, <2>3 DEF Behind
<1>10. Accounted(n)'
  BY <1>2, <1>3, <1>9 DEF DevicesOwn, Accounted
<1> QED
  BY <1>5, <1>6, <1>7, <1>8, <1>10 DEF DevicesOwn

LEMMA InCallDevices ==
  ASSUME TypeOK, CommandTypeOK, CommandsOwn, DevicesOwn, Apart, NEW p \in Actors, InCall(p)
  PROVE  DevicesOwn'
<1>1. CASE Working(p)
  BY <1>1, ConfigureDevices, EnableDevices, LinkDevices, UmountDevices, UnlinkDevices,
     RmBackstoreDevices DEF Working
<1>2. CASE ~Working(p)
  <2>1. MountHeld(p)
    BY DEF DevicesOwn
  <2>2. /\ Quietly(p)
        /\ \A n \in Names : backstore'[n] = "enabled" <=> backstore[n] = "enabled"
        /\ UNCHANGED <<devcfg, lun, mnt>>
    BY <1>2, <2>1, CallQuiet
  <2>3. \A q \in Actors : Quietly(q)
    BY <2>2, CallOthersQuiet DEF DevicesOwn
  <2>4. served' = served /\ open' = open
    BY <2>2, ServedSame DEF InCall, DevicesOwn
  <2> QED
    BY <2>2, <2>3, <2>4, DevicesFrame
<1> QED
  BY <1>1, <1>2

-----------------------------------------------------------------------------
(* The other steps of the commands                                         *)

\* A step of one actor, or of none.
LEMMA OwnKept ==
  ASSUME CommandsOwn, NEW p \in Actors, host' = NoActor, spc' = spc,
         cmd[p].op # "cleanup",
         \A q \in Actors \ {p} : pc'[q] = pc[q] /\ dev'[q] = dev[q] /\ cmd'[q] = cmd[q],
         \A q \in Actors : cmd'[q].op = "up" => cmd'[q].launch \in open',
         pc'[p] # "idle" =>
            /\ cmd'[p].op \in {"up", "teardown"}
            /\ dev'[p].name = cmd'[p].launch.name
            /\ dev'[p].naa = cmd'[p].launch.naa
            /\ cmd'[p].op = "up" => dev'[p].conf = cmd'[p].launch.conf
            /\ cmd'[p].op = "teardown" => pc'[p] \in Teardown \cup {"drop"}
  PROVE  CommandsOwn'
<1>1. spc' # "off" => \E q \in Actors : cmd'[q].op = "cleanup"
  BY DEF CommandsOwn
<1>2. \A q \in Actors : pc'[q] # "idle" =>
          /\ cmd'[q].op \in {"up", "teardown"}
          /\ dev'[q].name = cmd'[q].launch.name
          /\ dev'[q].naa = cmd'[q].launch.naa
          /\ cmd'[q].op = "up" => dev'[q].conf = cmd'[q].launch.conf
          /\ cmd'[q].op = "teardown" => pc'[q] \in Teardown \cup {"drop"}
  BY DEF CommandsOwn
<1> QED
  BY <1>1, <1>2 DEF CommandsOwn

LEMMA OwnFrame ==
  ASSUME CommandsOwn, host' = NoActor, spc' = "off" \/ spc # "off",
         UNCHANGED <<pc, dev, cmd, open>>
  PROVE  CommandsOwn'
  BY DEF CommandsOwn

LEMMA UpBeginsOwn ==
  ASSUME TypeOK, CommandTypeOK, CommandsOwn, DevicesOwn,
         NEW p \in Actors, UpBegins(p), UNCHANGED <<spc, host>>
  PROVE  CommandsOwn' /\ DevicesOwn'
<1>1. PICK l \in Launches :
          /\ Becomes(p, "up", l, FALSE)
          /\ dev'[p] = [name |-> l.name, naa |-> l.naa, conf |-> l.conf]
          /\ open' = open \cup {l}
  BY UpBecomes
<1>2. /\ cmd[p].op = "none" /\ pc[p] = "idle" /\ pc'[p] = "reset"
      /\ \A q \in Actors \ {p} : pc'[q] = pc[q] /\ dev'[q] = dev[q]
      /\ at' = at /\ served' = served /\ UNCHANGED tree
  BY DEF UpBegins, BeginUp, AtPrompt, NoCommand, Goto, TypeOK
<1>3. CommandsOwn'
  <2>1. \A q \in Actors : cmd'[q].op = "up" => cmd'[q].launch \in open'
    BY <1>1 DEF Becomes, CommandsOwn
  <2>2. /\ dev'[p].name = cmd'[p].launch.name /\ dev'[p].naa = cmd'[p].launch.naa
        /\ dev'[p].conf = cmd'[p].launch.conf /\ cmd'[p].op = "up"
    BY <1>1 DEF Becomes
  <2>3. \A q \in Actors \ {p} : cmd'[q] = cmd[q]
    BY <1>1 DEF Becomes
  <2>4. host' = NoActor
    BY DEF CommandsOwn
  <2> QED
    BY <1>2, <2>1, <2>2, <2>3, <2>4, OwnKept
<1>4. Quietly(p)
  <2>1. cmd'[p].op = "up"
    BY <1>1 DEF Becomes
  <2>2. at[p] = NoMount
    BY <1>2, Places DEF DevicesOwn, MountHeld
  <2> QED
    BY <1>2, <2>1, <2>2 DEF Quietly, Believed, TakesDown, Raising, Launched, HasMount
<1>5. \A q \in Actors \ {p} : Quietly(q)
  BY <1>1, <1>2, SameQuiet DEF Becomes, DevicesOwn
<1> QED
  BY <1>1, <1>2, <1>3, <1>4, <1>5, DevicesFrame DEF tree

\* The commands go on, or end with their work.
LEMMA GoesOnOwn ==
  ASSUME TypeOK, CommandTypeOK, CommandsOwn, DevicesOwn, NEW p \in Actors,
         \/ MountFails(p) /\ cmd[p].op = "up" /\ UNCHANGED commands
         \/ UpMakesSubdir(p) \/ UpDropsSubdir(p) \/ SubdirFails(p) \/ UpPersists(p)
         \/ DownTearsDown(p),
         UNCHANGED <<spc, host>>
  PROVE  CommandsOwn' /\ DevicesOwn'
<1>1. /\ served' = served /\ open' = open
      /\ \A q \in Actors \ {p} : pc'[q] = pc[q] /\ dev'[q] = dev[q] /\ at'[q] = at[q]
      /\ UNCHANGED tree
  BY DEF MountFails, UpMakesSubdir, UpDropsSubdir, SubdirFails, UpPersists, DownTearsDown,
     commands, handles, Subdir, DropSubdir, DropMounted, Persist, TeardownNamed, Goto, TypeOK
<1>2. /\ \A q \in Actors \ {p} : cmd'[q] = cmd[q]
      /\ cmd'[p].launch = cmd[p].launch /\ cmd'[p].unmounted = cmd[p].unmounted
      /\ cmd'[p].op = IF DownTearsDown(p) THEN "teardown" ELSE cmd[p].op
  <2>1. CASE UpMakesSubdir(p) \/ DownTearsDown(p)
    BY <2>1, GoesOnBecomes DEF Becomes
  <2>2. CASE cmd' = cmd /\ ~DownTearsDown(p)
    BY <2>2
  <2> QED
    BY <2>1, <2>2 DEF UpDropsSubdir, SubdirFails, UpPersists, commands
<1>3. CASE ~DownTearsDown(p)
  <2>1. dev'[p] = dev[p] /\ cmd'[p].op = cmd[p].op
    BY <1>2, <1>3 DEF MountFails, UpMakesSubdir, UpDropsSubdir, SubdirFails, UpPersists,
       handles, Subdir, DropSubdir, DropMounted, Persist
  <2>2. \/ pc'[p] = pc[p] /\ at'[p] = at[p]
        \/ pc[p] = "mounted" /\ pc'[p] = "drop_mounted" /\ at'[p] = at[p]
        \/ pc[p] \in {"live", "mounted"} /\ pc'[p] = "drop" /\ at'[p] \in {at[p], NoMount}
           /\ (pc[p] = "mounted" => at'[p] = NoMount)
    BY <1>3 DEF MountFails, UpMakesSubdir, UpDropsSubdir, SubdirFails, UpPersists,
       handles, Subdir, DropSubdir, DropMounted, Persist, Goto, TypeOK
  <2>3. cmd[p].op = "up"
    <3>1. CASE pc[p] = "mounted"
      BY <3>1 DEF CommandsOwn, Teardown
    <3> QED
      BY <1>3, <3>1 DEF UpMakesSubdir, UpDropsSubdir, SubdirFails, UpPersists, Subdir,
         DropMounted, Goto
  <2>4. CommandsOwn'
    <3>1. \A q \in Actors : cmd'[q].op = cmd[q].op /\ cmd'[q].launch = cmd[q].launch
      BY <1>2, <2>1
    <3>2. \A q \in Actors : cmd'[q].op = "up" => cmd'[q].launch \in open'
      BY <1>1, <3>1 DEF CommandsOwn
    <3>3. pc'[p] # "idle" => pc[p] # "idle"
      BY <2>2
    <3> QED
      BY <1>1, <1>2, <2>1, <2>3, <3>1, <3>2, <3>3, OwnKept DEF CommandsOwn
  <2>5. Quietly(p)
    BY <1>2, <2>1, <2>2, <2>3 DEF DevicesOwn, MountHeld, Quietly, Believed, TakesDown,
       Raising, HasMount, Launched
  <2> QED
    BY <1>1, <1>2, <2>4, <2>5, SameQuiet, DevicesFrame DEF DevicesOwn, tree
<1>4. CASE DownTearsDown(p)
  <2>1. /\ cmd[p].op = "down" /\ pc[p] = "idle" /\ pc'[p] = "td_link" /\ at' = at
        /\ dev'[p].name = cmd[p].launch.name /\ dev'[p].naa = cmd[p].launch.naa
        /\ cmd'[p].op = "teardown"
    BY <1>2, <1>4 DEF DownTearsDown, TeardownNamed, Goto, TypeOK
  <2>2. CommandsOwn'
    <3>1. \A q \in Actors : cmd'[q].op = "up" => cmd'[q].launch \in open'
      BY <1>1, <1>2, <2>1 DEF CommandsOwn
    <3> QED
      BY <1>1, <1>2, <2>1, <3>1, OwnKept DEF CommandsOwn, Teardown
  <2>3. Quietly(p)
    <3>1. at[p] = NoMount
      BY <2>1, Places DEF DevicesOwn, MountHeld
    <3> QED
      BY <1>2, <2>1, <3>1 DEF Quietly, Believed, TakesDown, Raising, HasMount, Launched,
         Unlinked, TornDown
  <2> QED
    BY <1>1, <1>2, <2>2, <2>3, SameQuiet, DevicesFrame DEF DevicesOwn, tree
<1> QED
  BY <1>3, <1>4

\* The launch that is mounted is the one behind the device.
LEMMA UpMountsOwn ==
  ASSUME TypeOK, CommandTypeOK, CommandsOwn, DevicesOwn, Apart,
         NEW p \in Actors, UpMounts(p), UNCHANGED <<spc, host>>
  PROVE  CommandsOwn' /\ DevicesOwn'
<1>1. CASE MountFails(p)
  BY <1>1, GoesOnOwn DEF UpMounts
<1>2. CASE Mount(p) /\ at'[p] = cmd[p].launch.mount
  <2>0. PICK n \in Names, y \in Launches, m \in Mountpoints :
            /\ n = dev[p].name /\ y = cmd[p].launch
            /\ MountAt(n, m) /\ at' = [at EXCEPT ![p] = m]
    BY <1>2, WorkerFacts DEF Mount, Goto
  <2>1. /\ pc[p] = "live" /\ pc' = [pc EXCEPT ![p] = "opendir"]
        /\ lun[dev[p].naa] = n /\ cmd[p].op = "up"
        /\ cmd' = cmd /\ open' = open /\ served' = served
        /\ UNCHANGED <<backstore, devcfg, lun, dev>>
    BY <1>2, <2>0 DEF Mount, Goto, UpMounts, commands
  <2>2. /\ pc'[p] = "opendir" /\ at'[p] = m /\ m = y.mount
        /\ mnt[m] = NoName /\ mnt'[m] = n
        /\ \A j \in Mountpoints \ {m} : mnt'[j] = mnt[j]
        /\ \A q \in Actors \ {p} : pc'[q] = pc[q] /\ at'[q] = at[q]
    BY <1>2, <2>0, <2>1 DEF MountAt, TypeOK, TreeTypeOK
  <2>3. /\ dev[p].naa \in Naas
        /\ \A q \in Actors \ {p} : /\ pc[q] # "idle" => dev[q].name # n
                                   /\ TakesDown(q) => cmd[q].launch.name # n
    BY <2>0, <2>1, WorkerFacts
  <2>4. CommandsOwn'
    <3>1. \A q \in Actors : cmd'[q].op = "up" => cmd'[q].launch \in open'
      BY <2>1 DEF CommandsOwn
    <3> QED
      BY <2>1, <2>2, <3>1, OwnKept DEF CommandsOwn
  <2>5. \A q \in Actors \ {p} : Quietly(q)
    BY <2>1, <2>2, SameQuiet DEF DevicesOwn
  <2>6. MountHeld(p)' /\ ServesOwn(p)'
    BY <2>0, <2>1, <2>2 DEF MountHeld, ServesOwn, DevicesOwn, Raising, HasMount
  <2>7. ASSUME NEW q \in Actors \ {p} PROVE MountHeld(q)' /\ ServesOwn(q)'
    <3>1. at[q] # NoMount => at[q] \in Mountpoints /\ mnt[at[q]] \in Names
      <4>1. at[q] # NoMount => pc[q] # "idle" /\ mnt[at[q]] = dev[q].name
        BY Places DEF DevicesOwn, MountHeld
      <4> QED
        BY <4>1 DEF TypeOK, Devices
    <3>2. at[q] # NoMount => mnt'[at[q]] = mnt[at[q]]
      BY <2>2, <3>1
    <3> QED
      BY <2>1, <2>5, <3>2, MountKept, ServesKept DEF DevicesOwn, ServesOwn
  <2>8. Pinned'
    <3>1. \A k \in Names : IsLinked(k)' <=> IsLinked(k)
      BY <2>1 DEF IsLinked
    <3>2. IsLinked(n)
      BY <2>1, <2>3 DEF IsLinked
    <3>3. \A j \in Mountpoints : mnt[j] \in Names \cup {NoName}
      BY DEF TypeOK, TreeTypeOK
    <3> QED
      BY <2>0, <2>1, <2>2, <3>1, <3>2, <3>3 DEF DevicesOwn, Pinned
  <2>9. ASSUME NEW k \in Names \ {n} PROVE Accounted(k)'
    <3>1. Elsewhere(p, k)
      BY <2>0, <2>1 DEF Elsewhere, Believed, TakesDown
    <3>2. \A j \in Mountpoints : mnt'[j] = k => mnt[j] = k
      BY <2>2
    <3> QED
      BY <2>1, <2>5, <2>9, <3>1, <3>2, AccountedKept DEF DevicesOwn
  <2>10. ASSUME NEW x \in open, Behind(n, x) PROVE Behind(n, x)'
    <3>1. x = y /\ x.name = n
      BY <2>0, <2>1, <2>10 DEF Behind, Raising
    <3>2. \A q \in Actors : Believed(q)' => cmd[q].launch # x
      BY <2>1, <2>3, <3>1 DEF Believed, TakesDown
    <3>3. \A q \in Actors \ {p} : pc'[q] \in Raising => dev'[q].name # n
      BY <2>1, <2>2, <2>3, Places
    <3>4. \A j \in Mountpoints : mnt'[j] = n => j = x.mount
      BY <2>2, <2>10, <3>1 DEF Behind
    <3> QED
      BY <2>0, <2>1, <2>10, <3>1, <3>2, <3>3, <3>4 DEF Behind
  <2>11. Accounted(n)'
    BY <2>1, <2>10 DEF DevicesOwn, Accounted
  <2> QED
    BY <2>4, <2>6, <2>7, <2>8, <2>9, <2>11 DEF DevicesOwn
<1> QED
  BY <1>1, <1>2 DEF UpMounts

\* device down begins: what it is going to be believed of is not mounted any more.
LEMMA DownBeginsOwn ==
  ASSUME TypeOK, CommandTypeOK, CommandsOwn, DevicesOwn, NEW p \in Actors,
         DownUnmountsNothing(p) \/ DownUnmounts(p), UNCHANGED <<spc, host>>
  PROVE  CommandsOwn' /\ DevicesOwn'
<1>1. PICK l \in Launches, u \in BOOLEAN :
          /\ Becomes(p, "down", l, u)
          /\ u => l.mount # NoMount /\ UnmountPath(l.mount)
          /\ ~u => UNCHANGED vars
  BY DownBecomes
<1>2. /\ cmd[p].op = "none" /\ open' = open /\ served' = served
      /\ UNCHANGED <<pc, dev, at, backstore, devcfg, lun>>
  <2>1. AtPrompt(p) /\ open' = open /\ served' = served
    BY DEF DownUnmountsNothing, DownUnmounts, Run
  <2>2. UNCHANGED <<pc, dev, at, backstore, devcfg, lun>>
    BY <1>1 DEF UnmountPath, vars, tree, handles
  <2>3. cmd[p].op = "none"
    BY <2>1 DEF AtPrompt, NoCommand
  <2> QED
    BY <2>1, <2>2, <2>3
<1>3. /\ cmd'[p].op = "down" /\ cmd'[p].launch = l /\ cmd'[p].unmounted = u
      /\ \A q \in Actors \ {p} : cmd'[q] = cmd[q]
  BY <1>1 DEF Becomes
<1>4. pc[p] = "idle" /\ at[p] = NoMount
  BY <1>2, Places DEF CommandsOwn, DevicesOwn, MountHeld
<1>5. /\ \A m \in Mountpoints : mnt'[m] \in {mnt[m], NoName}
      /\ \A q \in Actors : at[q] # NoMount => mnt'[at[q]] = mnt[at[q]]
      /\ u => l.mount \in Mountpoints /\ mnt'[l.mount] = NoName
  BY <1>1, LaunchFact DEF UnmountPath, UnmountAt, vars, tree, TypeOK, TreeTypeOK
<1>6. CommandsOwn'
  <2>1. \A q \in Actors : cmd'[q].op = "up" => cmd'[q].launch \in open'
    BY <1>2, <1>3 DEF CommandsOwn
  <2> QED
    BY <1>2, <1>3, <1>4, <2>1, OwnKept DEF CommandsOwn
<1>7. \A q \in Actors \ {p} : Quietly(q)
  BY <1>2, <1>3, SameQuiet DEF DevicesOwn
<1>8. \A q \in Actors : MountHeld(q)' /\ ServesOwn(q)'
  <2>1. MountHeld(p)' /\ ServesOwn(p)'
    BY <1>2, <1>4 DEF MountHeld, ServesOwn, Raising, HasMount, Launched
  <2> QED
    BY <1>2, <1>5, <1>7, <2>1, MountKept, ServesKept DEF DevicesOwn, ServesOwn
<1>9. Pinned'
  <2>1. \A m \in Mountpoints : mnt[m] \in Names \cup {NoName}
    BY DEF TypeOK, TreeTypeOK
  <2>2. \A n \in Names : IsLinked(n)' <=> IsLinked(n)
    BY <1>2 DEF IsLinked
  <2> QED
    BY <1>2, <1>5, <2>1, <2>2 DEF DevicesOwn, Pinned
<1>10. ASSUME NEW n \in Names, NEW x \in open, Behind(n, x) PROVE Behind(n, x)'
  <2>1. \A m \in Mountpoints : mnt'[m] = n => mnt[m] = n /\ m = x.mount
    BY <1>5, <1>10 DEF Behind
  <2>2. Believed(p)' /\ l = x => ~IsMounted(n)'
    BY <1>3, <1>5, <2>1 DEF Believed, TakesDown, IsMounted
  <2>3. \A q \in Actors \ {p} : (Believed(q)' <=> Believed(q)) /\ cmd'[q].launch = cmd[q].launch
    BY <1>3 DEF Believed, TakesDown
  <2>4. (IsMounted(n)' => IsMounted(n)) /\ (IsLinked(n)' <=> IsLinked(n))
    BY <1>2, <2>1 DEF IsMounted, IsLinked
  <2>5. \A q \in Actors : Believed(q)' /\ cmd'[q].launch = x =>
            /\ ~IsMounted(n)'
            /\ pc'[q] \in Unlinked => ~IsLinked(n)'
            /\ cmd'[q].op = "teardown" => pc'[q] \notin TornDown
    <3>1. pc'[p] \notin Unlinked /\ cmd'[p].op # "teardown"
      BY <1>2, <1>3, <1>4, Places
    <3> QED
      BY <1>2, <1>3, <1>10, <2>2, <2>3, <2>4, <3>1 DEF Behind
  <2>6. \A q \in Actors : pc'[q] \in Raising /\ dev'[q].name = n => cmd'[q].launch = x
    BY <1>2, <1>3, <1>4, <1>10, Places DEF Behind
  <2> QED
    BY <1>2, <1>10, <2>1, <2>5, <2>6 DEF Behind
<1>11. \A n \in Names : Accounted(n)'
  BY <1>2, <1>10 DEF DevicesOwn, Accounted
<1> QED
  BY <1>6, <1>8, <1>9, <1>11 DEF DevicesOwn

\* A command ends or is killed; what a device down is believed of is gone.
LEMMA ExitsOwn ==
  ASSUME TypeOK, CommandTypeOK, CommandsOwn, DevicesOwn, Apart, NEW p \in Actors,
         UpExits(p) \/ DownExits(p) \/ Killed(p), UNCHANGED <<spc, host>>
  PROVE  CommandsOwn' /\ DevicesOwn'
<1>1. /\ cmd'[p].op = "none"
      /\ \A q \in Actors \ {p} : cmd'[q] = cmd[q]
  BY ExitBecomes DEF Becomes
<1>2. /\ cmd[p].op \in {"up", "down", "teardown"}
      /\ pc'[p] = "idle" /\ served' = served /\ UNCHANGED tree
      /\ pc[p] = "idle" => UNCHANGED handles
      /\ pc[p] # "idle" => at'[p] = NoMount
      /\ \A q \in Actors \ {p} : pc'[q] = pc[q] /\ dev'[q] = dev[q] /\ at'[q] = at[q]
  BY DEF UpExits, DownExits, Killed, Crash, Release, vars, handles, TypeOK
<1>3. /\ open' \in {open, open \ {cmd[p].launch}}
      /\ open' # open => Believed(p) /\ cmd[p].op = "teardown" /\ pc[p] = "idle"
  BY DEF UpExits, DownExits, Killed, Believed, TakesDown
<1>4. \A q \in Actors \ {p} :
         cmd[q].op = "up" => cmd[q].launch \in open /\ cmd[q].launch # cmd[p].launch
  BY <1>2 DEF CommandsOwn, Apart
<1>5. CommandsOwn'
  <2>1. \A q \in Actors : cmd'[q].op = "up" => cmd'[q].launch \in open'
    BY <1>1, <1>3, <1>4
  <2> QED
    BY <1>1, <1>2, <2>1, OwnKept DEF CommandsOwn
<1>6. Quietly(p)
  <2>1. at'[p] = NoMount
    BY <1>2, Places DEF DevicesOwn, MountHeld, handles
  <2> QED
    BY <1>1, <1>2, <2>1 DEF Quietly, Believed, TakesDown, Raising, HasMount, Launched
<1>7. \A q \in Actors : Quietly(q)
  BY <1>1, <1>2, <1>6, SameQuiet DEF DevicesOwn
<1>8. CASE open' = open
  BY <1>2, <1>5, <1>7, <1>8, DevicesFrame DEF tree
<1>9. CASE open' # open
  <2>1. \A q \in Actors : MountHeld(q)' /\ ServesOwn(q)'
    BY <1>2, <1>7, MountKept, ServesKept DEF DevicesOwn, ServesOwn, tree
  <2>2. Pinned'
    BY <1>2 DEF DevicesOwn, Pinned, IsLinked, tree
  <2>3. ASSUME NEW n \in Names, NEW x \in open, Behind(n, x) PROVE x \in open' /\ Behind(n, x)'
    <3>1. x # cmd[p].launch
      BY <1>3, <1>9, <2>3 DEF Behind, TornDown
    <3>2. x \in open'
      BY <1>3, <3>1
    <3> QED
      BY <1>2, <1>7, <2>3, <3>2, BehindKept DEF tree
  <2>4. \A n \in Names : Accounted(n)'
    BY <1>2, <2>3 DEF DevicesOwn, Accounted
  <2> QED
    BY <1>5, <2>1, <2>2, <2>4 DEF DevicesOwn
<1> QED
  BY <1>8, <1>9

LEMMA HostOwn ==
  ASSUME TypeOK, CommandTypeOK, CommandsOwn, DevicesOwn,
         HostStep \/ UNCHANGED vars, UNCHANGED <<commands, spc, host>>
  PROVE  CommandsOwn' /\ DevicesOwn'
<1>1. UNCHANGED <<cmd, served, open, spc, host>>
  BY DEF commands
<1>2. /\ UNCHANGED <<pc, dev, at, backstore, devcfg, lun>>
      /\ \A m \in Mountpoints : mnt'[m] \in {mnt[m], NoName}
      /\ \A q \in Actors : at[q] # NoMount => mnt'[at[q]] = mnt[at[q]]
  <2>1. CASE DaemonReports \/ OutsideEnters \/ OutsideLeaves \/ UNCHANGED vars
    BY <2>1 DEF DaemonReports, OutsideEnters, OutsideLeaves, vars, tree, handles
  <2>2. ASSUME NEW m \in Mountpoints, UnmountPath(m)
        PROVE  /\ UNCHANGED <<pc, dev, at, backstore, devcfg, lun>>
               /\ \A j \in Mountpoints : mnt'[j] \in {mnt[j], NoName}
               /\ \A q \in Actors : at[q] # NoMount => mnt'[at[q]] = mnt[at[q]]
    BY <2>2 DEF UnmountPath, UnmountAt, handles, TypeOK, TreeTypeOK
  <2> QED
    BY <2>1, <2>2 DEF HostStep
<1>3. CommandsOwn'
  BY <1>1, <1>2, OwnFrame DEF CommandsOwn
<1>4. \A q \in Actors : Quietly(q)
  BY <1>1, <1>2, SameQuiet DEF DevicesOwn
<1> QED
  BY <1>1, <1>2, <1>3, <1>4, DevicesFrame

LEMMA DeviceStepOwn ==
  ASSUME TypeOK, CommandTypeOK, CommandsOwn, DevicesOwn, Apart, DeviceStep
  PROVE  CommandsOwn' /\ DevicesOwn'
<1>1. UNCHANGED <<spc, host>>
  BY DEF DeviceStep, Meanwhile
<1>2. ASSUME NEW p \in Actors, InCall(p) PROVE CommandsOwn' /\ DevicesOwn'
  BY <1>1, <1>2, CallCommands, InCallDevices
<1> QED
  BY <1>1, <1>2, UpBeginsOwn, UpMountsOwn, GoesOnOwn, DownBeginsOwn, ExitsOwn, HostOwn
     DEF DeviceStep

-----------------------------------------------------------------------------
(* Cleanup, while no device command is under way                           *)

LEMMA CleanupShellOwn ==
  ASSUME TypeOK, CommandTypeOK, CommandsOwn, DevicesOwn,
         NEW p \in Actors, CleanupBegins(p) \/ CleanupEnds(p)
  PROVE  CommandsOwn' /\ DevicesOwn'
<1>1. UNCHANGED vars /\ host' = NoActor
  BY DEF CleanupBegins, CleanupEnds, BeginSweep, EndSweep, KillSweep, SweeperExits, CommandsOwn
<1>2. /\ served' = served /\ open' = open
      /\ cmd[p].op \in {"none", "cleanup"} /\ cmd'[p].op \in {"none", "cleanup"}
      /\ \A q \in Actors \ {p} : cmd'[q] = cmd[q]
      /\ spc' # "off" => cmd'[p].op = "cleanup"
  <2>1. CASE CleanupBegins(p)
    <3>1. AtPrompt(p) /\ served' = served /\ open' = open
      BY <2>1 DEF CleanupBegins, Run
    <3>2. cmd[p].op = "none"
      BY <3>1 DEF AtPrompt, NoCommand
    <3> QED
      BY <2>1, <3>1, <3>2, CleanupBecomes DEF Becomes
  <2>2. CASE CleanupEnds(p)
    <3>1. /\ cmd[p].op = "cleanup" /\ served' = served /\ open' = open
          /\ spc' = "off"
      BY <2>2 DEF CleanupEnds, EndSweep, KillSweep, SweeperExits
    <3> QED
      BY <2>2, <3>1, ExitBecomes DEF Becomes
  <2> QED
    BY <2>1, <2>2
<1>3. pc[p] = "idle" /\ at[p] = NoMount
  BY <1>2, Places DEF CommandsOwn, DevicesOwn, MountHeld
<1>4. CommandsOwn'
  <2>1. \A q \in Actors : pc[q] # "idle" => q # p
    BY <1>3
  <2> QED
    BY <1>1, <1>2, <2>1 DEF CommandsOwn, vars, handles
<1>5. \A q \in Actors : Quietly(q)
  <2>1. Quietly(p)
    BY <1>1, <1>2, <1>3 DEF Quietly, Believed, TakesDown, vars, handles, Raising, HasMount,
       Launched
  <2> QED
    BY <1>1, <1>2, <2>1, SameQuiet DEF DevicesOwn, vars, handles
<1> QED
  BY <1>1, <1>2, <1>4, <1>5, DevicesFrame DEF vars, tree

\* A step of the sweep meets nobody.
LEMMA CleanupStepOwn ==
  ASSUME TypeOK, CommandTypeOK, CommandsOwn, DevicesOwn, Apart, CleanupStep
  PROVE  CommandsOwn' /\ DevicesOwn'
<1>1. /\ spc # "off" /\ spc' # "off" /\ cmd' = cmd /\ open' = open /\ DaemonServes
      /\ \/ ListNexuses \/ SweepNexus \/ SweepNexusDirs \/ SweepNaaDir \/ ListBackstores
         \/ SweepHba \/ SweepMount \/ SweepLinks \/ SweepBackstore
  BY DEF CleanupStep, SweepStep, BeginSweep, SweepTo, EndSweep, KillSweep, SweeperExits
<1>2. UNCHANGED handles /\ host' = host
  BY <1>1 DEF ListNexuses, SweepNexus, SweepNexusDirs, SweepNaaDir, ListBackstores, SweepHba,
     SweepMount, SweepLinks, SweepBackstore, vars
<1>3. \A q \in Actors : pc[q] = "idle" /\ at[q] = NoMount /\ Quietly(q)
  <2>1. \A q \in Actors : pc[q] = "idle"
    BY <1>1, ApartFact
  <2>2. \A q \in Actors : Quietly(q)
    BY <1>1, <1>2, SameQuiet DEF DevicesOwn, handles
  <2> QED
    BY <2>1, <2>2, Places DEF DevicesOwn, MountHeld
<1>4. CommandsOwn'
  BY <1>1, <1>2, OwnFrame DEF CommandsOwn, handles
<1>5. \A q \in Actors : MountHeld(q)' /\ ServesOwn(q)'
  BY <1>2, <1>3 DEF MountHeld, ServesOwn, Raising, HasMount, Launched, handles
<1>6. \A m \in Mountpoints : mnt[m] \in Names \cup {NoName}
  BY DEF TypeOK, TreeTypeOK
<1>7. CASE \/ ListNexuses \/ SweepNexus \/ SweepNexusDirs \/ SweepNaaDir \/ ListBackstores
           \/ SweepHba \/ SweepMount
  <2>1. /\ UNCHANGED <<backstore, devcfg, lun>>
        /\ \A m \in Mountpoints : mnt'[m] \in {mnt[m], NoName}
    BY <1>7 DEF ListNexuses, SweepNexus, SweepNexusDirs, SweepNaaDir, ListBackstores, SweepHba,
       SweepMount, UnmountAt, vars, tree, TypeOK, TreeTypeOK
  <2>2. served' = served
    BY <1>1, <2>1, ServedSame DEF DevicesOwn
  <2> QED
    BY <1>1, <1>3, <1>4, <2>1, <2>2, DevicesFrame
<1>8. CASE SweepLinks
  <2>1. /\ UNCHANGED <<backstore, devcfg, mnt>>
        /\ \A a \in Naas : lun'[a] = lun[a] \/ (lun'[a] = NoName /\ ~IsMounted(lun[a]))
    BY <1>8 DEF SweepLinks, RmSymlink, TypeOK, TreeTypeOK
  <2>2. served' = served
    BY <1>1, <2>1, ServedSame DEF DevicesOwn
  <2>3. \A n \in Names, a \in Naas : lun'[a] = n => lun[a] = n
    BY <2>1, TreeAssumption
  <2>4. Pinned'
    <3>1. \A n \in Names : (IsLinked(n)' => IsLinked(n)) /\ (IsLinked(n) => IsLinked(n)' \/ ~IsMounted(n))
      BY <2>1, <2>3 DEF IsLinked
    <3> QED
      BY <1>6, <2>1, <2>2, <3>1 DEF DevicesOwn, Pinned, IsMounted
  <2>5. \A n \in Names : Accounted(n)'
    BY <1>1, <1>3, <2>1, <2>2, <2>3, AccountedKept DEF DevicesOwn
  <2> QED
    BY <1>4, <1>5, <2>4, <2>5 DEF DevicesOwn
<1>9. CASE SweepBackstore
  <2>1. /\ UNCHANGED <<lun, mnt>>
        /\ \A n \in Names : \/ backstore'[n] = backstore[n]
                            \/ backstore'[n] = "absent" /\ ~IsLinked(n)
    BY <1>9 DEF SweepBackstore, RmdirBackstore, TypeOK, TreeTypeOK
  <2>2. \A n \in Names : /\ served'[n] \in {served[n], NoConf}
                         /\ backstore'[n] # "enabled" => served'[n] = NoConf
    BY <1>1, <2>1, ServedFact DEF DevicesOwn
  <2>3. Pinned'
    <3>1. \A n \in Names : IsLinked(n)' <=> IsLinked(n)
      BY <2>1 DEF IsLinked
    <3> QED
      BY <1>6, <2>1, <2>2, <3>1 DEF DevicesOwn, Pinned
  <2>4. \A n \in Names : Accounted(n)'
    BY <1>1, <1>3, <2>1, <2>2, AccountedKept DEF DevicesOwn
  <2> QED
    BY <1>4, <1>5, <2>3, <2>4 DEF DevicesOwn
<1> QED
  BY <1>1, <1>7, <1>8, <1>9

LEMMA NextApart ==
  ASSUME ApartIInv, Apart, [ObdNext]_obdVars
  PROVE  ApartIInv'
<1>1. ObdIInv' /\ TypeOK /\ CommandTypeOK /\ CommandsOwn /\ DevicesOwn
  BY NextObdIInv DEF ApartIInv, ObdIInv, SweepIInv, SweepTypeOK
<1>2. CASE LayerCommand \/ UNCHANGED obdVars
  <2>1. UNCHANGED <<vars, commands, spc, host>>
    BY <1>2 DEF LayerCommand, obdVars, sweepVars, sweep
  <2> QED
    BY <1>1, <2>1, HostOwn DEF ApartIInv
<1> QED
  BY <1>1, <1>2, DeviceStepOwn, CleanupStepOwn, CleanupShellOwn DEF ObdNext, ApartIInv

LEMMA ApartInductive == ObdSpec /\ []Apart => []ApartIInv
<1>1. ObdInit => ApartIInv
  BY InitObdIInv, InitApart DEF ApartIInv
<1>2. ApartIInv /\ Apart /\ [ObdNext]_obdVars => ApartIInv'
  BY NextApart
<1> QED
  BY <1>1, <1>2, PTL DEF ObdSpec

-----------------------------------------------------------------------------
(* A device up that ends well                                              *)

LEMMA PersistsAsAsked ==
  ASSUME ApartIInv, NEW p \in Actors, UpPersists(p)
  PROVE  /\ served[dev[p].name] = dev[p].conf
         /\ cmd[p].launch.mount # NoMount => mnt[cmd[p].launch.mount] = dev[p].name
<1>1. pc[p] \in {"live", "mounted"} /\ (cmd[p].launch.mount = NoMount \/ pc[p] = "mounted")
  BY DEF UpPersists, Persist, Goto
<1>2. MountHeld(p) /\ ServesOwn(p)
  BY DEF ApartIInv, DevicesOwn
<1> QED
  BY <1>1, <1>2 DEF MountHeld, ServesOwn, Raising, HasMount

\* For shells that keep the devices they work on apart: a device up that ends well
\* hands off a device that serves the config it was given, mounted where it was
\* asked to be (obdctl.rs:375-446), also over what killed commands left.
THEOREM UpsAreAsAsked == ObdSpec /\ []Apart => UpIsAsAsked
<1>1. ApartIInv => [\A p \in Actors :
          UpPersists(p) =>
              /\ served[dev[p].name] = dev[p].conf
              /\ cmd[p].launch.mount # NoMount => mnt[cmd[p].launch.mount] = dev[p].name
      ]_obdVars
  BY PersistsAsAsked
<1> QED
  BY <1>1, ApartInductive, PTL DEF UpIsAsAsked

-----------------------------------------------------------------------------
(* Commits and the devices of their layer                                  *)

\* A commit goes on, in its call or in a tool that outlives it, only of a layer it
\* could begin with still.
CallSettled(s) == call[s] # NoCall /\ call[s].op = "commit" => MayCommit(call[s].layer)
ToolSettled(t) == tool[t] # Off /\ tool[t].op = "commit" => MayCommit(tool[t].layer)

Settled == (\A s \in Shells : CallSettled(s)) /\ (\A t \in Tools : ToolSettled(t))

LEMMA WorkFacts ==
  ASSUME LayerTypeOK
  PROVE  /\ \A s \in Shells : call[s] # NoCall => call[s].op \in Ops /\ call[s].layer \in Layers
         /\ \A t \in Tools : tool[t] # Off => tool[t].op \in Ops /\ tool[t].layer \in Layers
  BY DEF LayerTypeOK, Call, Process

\* What calls and tools are at comes from what they were at, from the call that
\* spawned them or from the command line.
LEMMA CallsGoOn ==
  ASSUME LayerTypeOK, NEW s \in Shells, LayerStep(s) \/ KillCall(s)
  PROVE  /\ success \subseteq success'
         /\ \A r \in Shells : call'[r] # NoCall =>
               call[r] # NoCall /\ call'[r].op = call[r].op /\ call'[r].layer = call[r].layer
         /\ \A t \in Tools : tool'[t] # Off =>
               \/ tool'[t] = tool[t]
               \/ call[s] # NoCall /\ tool'[t].op = call[s].op /\ tool'[t].layer = call[s].layer
<1>1. call[s] # NoCall => call[s] \in Call
  BY DEF LayerTypeOK
<1>2. CASE Return(s) /\ ~Spawn(s)
  <2>1. \A r \in Shells : call'[r] \in {call[r], NoCall}
    BY <1>2 DEF Return, LayerTypeOK
  <2>2. success \subseteq success' /\ \A t \in Tools : tool'[t] \in {tool[t], Off}
    BY <1>2 DEF LayerStep, KillCall, CheckExists, SpawnFails, ToolEnds, StatOutput, Ok,
       LayerTypeOK
  <2> QED
    BY <2>1, <2>2
<1>3. CASE CheckExists(s) /\ call' = [call EXCEPT ![s].left = Tail(@)]
  <2>1. call[s] \in Call /\ call[s] # NoCall
    BY <1>3, CallTypes DEF CheckExists, NoCall
  <2>2. call'[s] = [call[s] EXCEPT !.left = Tail(@)] /\ \A r \in Shells \ {s} : call'[r] = call[r]
    BY <1>3 DEF LayerTypeOK
  <2>3. call'[s].op = call[s].op /\ call'[s].layer = call[s].layer
    BY <2>1, <2>2 DEF Call
  <2> QED
    BY <1>3, <2>1, <2>2, <2>3 DEF CheckExists
<1>4. CASE Spawn(s)
  <2>1. PICK t \in Tools :
            /\ call' = [call EXCEPT ![s].at = "wait", ![s].tool = t]
            /\ tool' = [tool EXCEPT ![t] =
                           [at |-> "open", op |-> call[s].op, layer |-> call[s].layer,
                            left |-> Outputs[call[s].op]]]
    BY <1>4 DEF Spawn
  <2>2. call[s] \in Call /\ call[s] # NoCall
    BY <1>4, CallTypes DEF Spawn, NoCall
  <2>3. /\ call'[s] = [call[s] EXCEPT !.at = "wait", !.tool = t]
        /\ \A r \in Shells \ {s} : call'[r] = call[r]
    BY <2>1 DEF LayerTypeOK
  <2>4. call'[s].op = call[s].op /\ call'[s].layer = call[s].layer
    BY <2>2, <2>3 DEF Call
  <2>5. /\ tool'[t].op = call[s].op /\ tool'[t].layer = call[s].layer
        /\ \A u \in Tools \ {t} : tool'[u] = tool[u]
    BY <2>1 DEF LayerTypeOK
  <2> QED
    BY <1>4, <2>2, <2>3, <2>4, <2>5 DEF Spawn
<1>5. CASE ToolEnds(s) /\ call' = [call EXCEPT ![s].at = "stat"] /\ UNCHANGED success
  <2>1. call[s] \in Call /\ call[s] # NoCall
    BY <1>5, CallTypes DEF ToolEnds, Waited, NoCall
  <2>2. call'[s] = [call[s] EXCEPT !.at = "stat"] /\ \A r \in Shells \ {s} : call'[r] = call[r]
    BY <1>5 DEF LayerTypeOK
  <2>3. call'[s].op = call[s].op /\ call'[s].layer = call[s].layer
    BY <2>1, <2>2 DEF Call
  <2>4. \A t \in Tools : tool'[t] \in {tool[t], Off}
    BY <1>5 DEF ToolEnds, LayerTypeOK
  <2> QED
    BY <1>5, <2>1, <2>2, <2>3, <2>4
<1> QED
  BY <1>2, <1>3, <1>4, <1>5 DEF LayerStep, KillCall, CheckExists, SpawnFails, ToolEnds, StatOutput

LEMMA ToolsGoOn ==
  ASSUME LayerTypeOK, NEW t \in Tools, ToolStep(t)
  PROVE  /\ success' = success /\ call' = call
         /\ \A u \in Tools : tool'[u] # Off =>
               tool[u] # Off /\ tool'[u].op = tool[u].op /\ tool'[u].layer = tool[u].layer
<1>1. success' = success /\ call' = call
  BY DEF ToolStep, ToolOpens, ToolWrites, ToolFails, OrphanEnds
<1>2. tool[t].at # "off" /\ tool[t] # Off /\ tool[t] \in Process
  BY ToolTypes DEF ToolStep, ToolOpens, ToolWrites, ToolFails, OrphanEnds, Off
<1>3. \A u \in Tools \ {t} : tool'[u] = tool[u]
  BY DEF ToolStep, ToolOpens, ToolWrites, ToolFails, OrphanEnds, LayerTypeOK
<1>4. tool'[t] # Off => tool'[t].op = tool[t].op /\ tool'[t].layer = tool[t].layer
  BY <1>2 DEF ToolStep, ToolOpens, ToolWrites, ToolFails, OrphanEnds, LayerTypeOK, Process
<1> QED
  BY <1>1, <1>2, <1>3, <1>4

LEMMA LayerCommandSettled ==
  ASSUME LayerTypeOK, Settled, LayerCommand
  PROVE  Settled'
<1>1. open' = open
  BY DEF LayerCommand, commands
<1>2. success \subseteq success' => \A l \in Layers : MayCommit(l) => MayCommit(l)'
  BY <1>1 DEF MayCommit, Created
<1>3. ASSUME NEW s \in Shells, LayerStep(s) \/ KillCall(s) PROVE Settled'
  BY <1>2, <1>3, CallsGoOn, WorkFacts DEF Settled, CallSettled, ToolSettled
<1>4. ASSUME NEW t \in Tools, ToolStep(t) PROVE Settled'
  BY <1>2, <1>4, ToolsGoOn, WorkFacts DEF Settled, CallSettled, ToolSettled
<1>5. ASSUME NEW s \in Shells, NEW l \in Layers, NEW op \in Ops, BeginCall(s, op, l),
             op = "commit" => MayCommit(l)
      PROVE  Settled'
  <2>1. /\ success' = success /\ tool' = tool
        /\ call'[s].op = op /\ call'[s].layer = l
        /\ \A r \in Shells \ {s} : call'[r] = call[r]
    BY <1>5 DEF BeginCall, LayerTypeOK
  <2> QED
    BY <1>2, <1>5, <2>1, WorkFacts DEF Settled, CallSettled, ToolSettled
<1> QED
  BY <1>3, <1>4, <1>5 DEF LayerCommand, Ops

\* A launch is begun only over a layer nobody works on.
LEMMA UpBeginsSettled ==
  ASSUME LayerTypeOK, CommandTypeOK, Settled, NEW p \in Actors, UpBegins(p),
         UNCHANGED layerVars
  PROVE  Settled'
<1>1. PICK l \in Launches :
          /\ open' = open \cup {l}
          /\ Upper[l.conf] # NoLayer => ~InUse(Upper[l.conf])
  BY UpBecomes
<1>2. \A k \in Layers : MayCommit(k) /\ InUse(k) => MayCommit(k)'
  BY <1>1 DEF MayCommit, Created, layerVars
<1>3. /\ \A s \in Shells : call[s] # NoCall => InUse(call[s].layer)
      /\ \A t \in Tools : tool[t] # Off => InUse(tool[t].layer)
  BY DEF InUse
<1> QED
  BY <1>2, <1>3, WorkFacts DEF Settled, CallSettled, ToolSettled, layerVars

LEMMA NextSettled ==
  ASSUME ObdIInv, Settled, [ObdNext]_obdVars
  PROVE  Settled'
<1>1. LayerTypeOK /\ CommandTypeOK
  BY DEF ObdIInv, LIInv
<1>2. ASSUME UNCHANGED layerVars, open' \subseteq open PROVE Settled'
  BY <1>2 DEF Settled, CallSettled, ToolSettled, MayCommit, Created, layerVars
<1>3. ASSUME NEW p \in Actors, UpBegins(p), DeviceStep PROVE Settled'
  BY <1>1, <1>3, UpBeginsSettled DEF DeviceStep
<1>4. ASSUME DeviceStep, \A p \in Actors : ~UpBegins(p) PROVE Settled'
  <2>1. UNCHANGED layerVars
    BY <1>4 DEF DeviceStep
  <2>2. ASSUME NEW p \in Actors,
               \/ UpMounts(p) \/ UpMakesSubdir(p) \/ UpDropsSubdir(p)
               \/ SubdirFails(p) \/ UpPersists(p) \/ UpExits(p)
               \/ DownUnmountsNothing(p) \/ DownUnmounts(p) \/ DownTearsDown(p)
               \/ DownExits(p) \/ InCall(p) \/ Killed(p)
        PROVE  open' \subseteq open
    BY <2>2 DEF UpMounts, UpMakesSubdir, UpDropsSubdir, SubdirFails, UpPersists, UpExits,
       DownUnmountsNothing, DownUnmounts, DownTearsDown, DownExits, InCall, Killed, commands
  <2>3. CASE UNCHANGED commands
    BY <1>2, <2>1, <2>3 DEF commands
  <2> QED
    BY <1>2, <1>4, <2>1, <2>2, <2>3 DEF DeviceStep
<1>5. ASSUME NEW p \in Actors, CleanupBegins(p) \/ CleanupEnds(p) PROVE Settled'
  BY <1>2, <1>5 DEF CleanupBegins, CleanupEnds
<1>6. CASE CleanupStep \/ UNCHANGED obdVars
  BY <1>2, <1>6 DEF CleanupStep, obdVars, commands
<1> QED
  BY <1>1, <1>3, <1>4, <1>5, <1>6, LayerCommandSettled DEF ObdNext

LEMMA SettledReadsWhole ==
  ASSUME ApartIInv, Settled
  PROVE  CommitReadsWhole
<1> SUFFICES ASSUME NEW l \in Layers, NEW t \in Tools, Reads(t, l)
             PROVE  /\ \A n \in Names : ~Writes(n, l)
                    /\ file[l]["data"].whole /\ file[l]["index"].whole
  BY DEF CommitReadsWhole
<1>1. MayCommit(l)
  BY DEF Reads, Off, Settled, ToolSettled
<1>2. ASSUME NEW n \in Names, Writes(n, l) PROVE FALSE
  <2>1. PICK x \in open : x.conf = served[n]
    BY <1>2 DEF ApartIInv, DevicesOwn, Accounted, Behind, Writes
  <2> QED
    BY <1>1, <1>2, <2>1 DEF MayCommit, Writes
<1>3. file[l]["data"].whole /\ file[l]["index"].whole
  <2>1. PICK c \in success : c.op = "create" /\ c.layer = l
    BY <1>1 DEF MayCommit, Created
  <2>2. \A k \in {"data", "index"} : file[l][k] = [by |-> c.tool, whole |-> TRUE]
    BY <2>1, OutputsFact DEF ApartIInv, ObdIInv, LIInv, OutputsAreOwn
  <2> QED
    BY <2>2
<1> QED
  BY <1>2, <1>3

\* For shells that keep the devices they work on apart: a commit never reads a
\* layer the daemon may still write to, nor one that was not created to the end,
\* also when a device down says it is done and is not, or a killed command leaves
\* its device or its tool behind (obdctl.rs:449-516, tools.rs:104-207).
THEOREM CommitsReadWhole == ObdSpec /\ []Apart => []CommitReadsWhole
<1>1. ObdInit => Settled
  BY DEF ObdInit, LayerInit, Settled, CallSettled, ToolSettled
<1>2. ApartIInv /\ Settled /\ [ObdNext]_obdVars => Settled'
  BY NextSettled DEF ApartIInv
<1>3. ApartIInv /\ Settled => CommitReadsWhole
  BY SettledReadsWhole
<1> QED
  BY <1>1, <1>2, <1>3, ApartInductive, PTL DEF ObdSpec

=============================================================================
