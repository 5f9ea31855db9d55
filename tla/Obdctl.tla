-------------------------------- MODULE Obdctl --------------------------------
(***************************************************************************)
(* obdctl.rs: the commands as processes.  Shells run them one at a time;   *)
(* the Actors among the shells also bring devices up and down, a device up *)
(* and the down that ends it being two processes.  A command may be killed *)
(* at any point, the files of a layer may be another shell's as well.      *)
(*                                                                         *)
(* A shell that means to commit a layer goes by README.md:439, "sync,      *)
(* unmount, tear down, then commit", and by what the commands tell it.     *)
(***************************************************************************)
EXTENDS Cleanup, LayerTools

CONSTANTS
    Launches,   \* what a shell may pass to device up: name, nexus, config, mount
    Upper,      \* per config, the layer it has for its upper, or NoLayer
    NoLaunch

ASSUME CommandAssumption ==
    /\ Actors \subseteq Shells
    /\ Launches \subseteq [name : OurNames, naa : OurNaas, conf : Confs,
                           mount : Mountpoints \cup {NoMount}]
    /\ Upper \in [Confs -> Layers \cup {NoLayer}]
    /\ NoLaunch \notin Launches

VARIABLES
    cmd,      \* per actor, the device or cleanup command it waits for
    served,   \* per backstore, the config the daemon opened at its enable
    open      \* launches begun whose device the shell does not know to be gone

commands == <<cmd, served, open>>
obdVars  == <<sweepVars, layerVars, commands>>

\* subdir: `--subdir` was given and is not made yet.  unmounted: what device
\* down got from unmount_path.
NoCommand == [op |-> "none", launch |-> NoLaunch, subdir |-> FALSE, unmounted |-> FALSE]

ObdTypeOK ==
    /\ SweepTypeOK
    /\ LayerTypeOK
    /\ cmd \in [Actors -> [op : {"none", "up", "down", "teardown", "cleanup"},
                           launch : Launches \cup {NoLaunch}, subdir : BOOLEAN,
                           unmounted : BOOLEAN]]
    /\ served \in [Names -> Confs \cup {NoConf}]
    /\ open \subseteq Launches
    /\ \A p \in Actors : cmd[p].op \in {"up", "down", "teardown"} => cmd[p].launch \in Launches

ObdInit ==
    /\ SweepInit /\ LayerInit
    /\ cmd = [p \in Actors |-> NoCommand]
    /\ served = [n \in Names |-> NoConf]
    /\ open = {}

-----------------------------------------------------------------------------

\* The shell waits for nothing.
AtPrompt(s) ==
    /\ call[s] = NoCall
    /\ s \in Actors => cmd[s] = NoCommand

Run(p, op, l) ==
    /\ AtPrompt(p)
    /\ cmd' = [cmd EXCEPT ![p] = [NoCommand EXCEPT !.op = op, !.launch = l]]

Exit(p) == cmd' = [cmd EXCEPT ![p] = NoCommand]

\* The daemon opens the config a backstore names when it is enabled, and lets
\* go of its files with the backstore.
DaemonServes ==
    served' = [n \in Names |->
                  IF backstore'[n] # "enabled" THEN NoConf
                  ELSE IF backstore[n] = "enabled" THEN served[n] ELSE devcfg[n]]

Writes(n, l) == served[n] # NoConf /\ Upper[served[n]] = l

\* A layer command works on it, or the tool one that was killed left behind.
InUse(l) ==
    \/ \E s \in Shells : call[s] # NoCall /\ call[s].layer = l
    \/ \E t \in Tools : tool[t] # Off /\ tool[t].layer = l

-----------------------------------------------------------------------------
(* device up                                                               *)

\* With an upper that exists and nobody works on.
UpBegins(p) ==
    \E l \in Launches :
        /\ Upper[l.conf] # NoLayer => Created(Upper[l.conf]) /\ ~InUse(Upper[l.conf])
        /\ AtPrompt(p)
        /\ BeginUp(p)
        /\ dev'[p] = [name |-> l.name, naa |-> l.naa, conf |-> l.conf]
        /\ \E subdir \in IF l.mount = NoMount THEN {FALSE} ELSE BOOLEAN :
              cmd' = [cmd EXCEPT ![p] = [NoCommand EXCEPT !.op = "up", !.launch = l,
                                                          !.subdir = subdir]]
        /\ open' = open \cup {l}
        /\ UNCHANGED served

UpMounts(p) ==
    /\ cmd[p].op = "up" /\ cmd[p].launch.mount # NoMount
    /\ \/ Mount(p) /\ at'[p] = cmd[p].launch.mount
       \/ MountFails(p)
    /\ UNCHANGED commands

\* create_subdir, whose Dir is dropped at once
UpMakesSubdir(p) ==
    /\ cmd[p].subdir
    /\ Subdir(p)
    /\ cmd' = [cmd EXCEPT ![p].subdir = FALSE]
    /\ UNCHANGED <<served, open>>

UpDropsSubdir(p) ==
    /\ cmd[p].op = "up"
    /\ DropSubdir(p)
    /\ UNCHANGED commands

\* `?` on create_subdir drops the Mounted.
SubdirFails(p) ==
    /\ cmd[p].subdir
    /\ DropMounted(p)
    /\ UNCHANGED commands

\* (fault) a mount that fails is only reported
UpPersistsAnyway(p) ==
    /\ cmd[p].op = "up" /\ ~cmd[p].subdir /\ sub[p] = NoMount
    /\ Persist(p)
    /\ UNCHANGED commands

UpPersists(p) ==
    /\ cmd[p].op = "up" /\ ~cmd[p].subdir /\ sub[p] = NoMount
    /\ cmd[p].launch.mount = NoMount \/ pc[p] = "mounted"
    /\ Persist(p)
    /\ UNCHANGED commands

UpExits(p) ==
    /\ cmd[p].op = "up" /\ pc[p] = "idle"
    /\ Exit(p)
    /\ UNCHANGED <<vars, served, open>>

-----------------------------------------------------------------------------
(* device down                                                             *)

\* unmount_path is not called, or answers false: nothing is mounted there, the
\* mount stays busy, or the mount table cannot be read.
DownUnmountsNothing(p) ==
    \E l \in Launches :
        /\ Run(p, "down", l)
        /\ l.mount # NoMount => mnt[l.mount] = NoName \/ Busy(l.mount) \/ MountsUnreadable
        /\ UNCHANGED <<vars, served, open>>

\* unmount_path goes through.
DownUnmounts(p) ==
    \E l \in Launches :
        /\ AtPrompt(p)
        /\ l.mount # NoMount
        /\ UnmountPath(l.mount)
        /\ cmd' = [cmd EXCEPT ![p] = [NoCommand EXCEPT !.op = "down", !.launch = l,
                                                       !.unmounted = TRUE]]
        /\ UNCHANGED <<served, open>>

\* (fault) what was asked for is forgotten before the answer to it
DownForgets(p) ==
    /\ cmd[p].op = "down"
    /\ TeardownNamed(p, cmd[p].launch.name, cmd[p].launch.naa)
    /\ cmd' = [cmd EXCEPT ![p] = [NoCommand EXCEPT !.op = "teardown"]]
    /\ UNCHANGED <<served, open>>

\* Whatever became of the mount.
DownTearsDown(p) ==
    /\ cmd[p].op = "down"
    /\ TeardownNamed(p, cmd[p].launch.name, cmd[p].launch.naa)
    /\ cmd' = [cmd EXCEPT ![p].op = "teardown"]
    /\ UNCHANGED <<served, open>>

\* (fault) the shell goes by the exit code alone
DownTrusted(p) ==
    /\ cmd[p].op = "teardown" /\ pc[p] = "idle"
    /\ Exit(p)
    /\ open' = open \ {cmd[p].launch}
    /\ UNCHANGED <<vars, served>>

\* "device torn down", with exit code 0 in any case.  The shell believes it of
\* a device it asked no mount for, or was told is unmounted.
DownExits(p) ==
    /\ cmd[p].op = "teardown" /\ pc[p] = "idle"
    /\ Exit(p)
    /\ open' = IF cmd[p].unmounted \/ cmd[p].launch.mount = NoMount
               THEN open \ {cmd[p].launch} ELSE open
    /\ UNCHANGED <<vars, served>>

-----------------------------------------------------------------------------
(* The rest                                                                *)

\* A step of the library inside device up or device down
InCall(p) ==
    /\ cmd[p].op \in {"up", "teardown"}
    /\ CallStep(p)
    /\ DaemonServes
    /\ UNCHANGED <<cmd, open>>

\* SIGKILL of a device command
Killed(p) ==
    /\ cmd[p].op \in {"up", "down", "teardown"}
    /\ IF pc[p] = "idle" THEN UNCHANGED vars ELSE Crash(p)
    /\ Exit(p)
    /\ UNCHANGED <<served, open>>

DeviceStep ==
    /\ \/ \E p \in Actors :
             \/ UpBegins(p) \/ UpMounts(p) \/ UpMakesSubdir(p) \/ UpDropsSubdir(p)
             \/ SubdirFails(p) \/ UpPersists(p) \/ UpExits(p)
             \/ DownUnmountsNothing(p) \/ DownUnmounts(p) \/ DownTearsDown(p)
             \/ DownExits(p) \/ InCall(p) \/ Killed(p)
       \/ HostStep /\ UNCHANGED commands
    /\ Meanwhile
    /\ UNCHANGED layerVars

\* obdctl cleanup
CleanupBegins(p) ==
    /\ Run(p, "cleanup", NoLaunch)
    /\ BeginSweep /\ host' = NoActor
    /\ UNCHANGED <<served, open, layerVars>>

CleanupStep ==
    /\ SweepStep /\ spc # "off" /\ spc' # "off"
    /\ DaemonServes
    /\ UNCHANGED <<cmd, open, layerVars>>

\* It reports, or is killed.
CleanupEnds(p) ==
    /\ cmd[p].op = "cleanup"
    /\ EndSweep \/ KillSweep
    /\ Exit(p)
    /\ UNCHANGED <<served, open, layerVars>>

\* Of a layer it created, whose devices it has seen go.
MayCommit(l) == Created(l) /\ \A x \in open : Upper[x.conf] # l

\* obdctl layer create, layer commit
LayerCommand ==
    /\ \/ \E s \in Shells, l \in Layers :
             /\ AtPrompt(s)
             /\ BeginCall(s, "create", l) \/ (MayCommit(l) /\ BeginCall(s, "commit", l))
       \/ \E s \in Shells : LayerStep(s) \/ KillCall(s)
       \/ \E t \in Tools : ToolStep(t)
    /\ UNCHANGED <<sweepVars, commands>>

ObdNext ==
    \/ DeviceStep \/ CleanupStep \/ LayerCommand
    \/ \E p \in Actors : CleanupBegins(p) \/ CleanupEnds(p)

ObdSpec == ObdInit /\ [][ObdNext]_obdVars

-----------------------------------------------------------------------------
(* Correctness                                                             *)

\* What the commands take of the shells: of two under way, neither is a cleanup
\* and no name is the same.
Apart ==
    \A p, q \in Actors :
        p # q /\ cmd[p].op # "none" /\ cmd[q].op # "none" =>
            /\ cmd[p].op # "cleanup" /\ cmd[q].op # "cleanup"
            /\ cmd[p].launch.name # cmd[q].launch.name

\* A commit never reads a layer the daemon may still write to, nor one that was
\* not created to the end: across processes, kills, mounts that stay busy, ups
\* that failed halfway and teardowns that were refused without a word.
CommitReadsWhole ==
    \A l \in Layers :
        (\E t \in Tools : Reads(t, l)) =>
            /\ \A n \in Names : ~Writes(n, l)
            /\ file[l]["data"].whole /\ file[l]["index"].whole

\* A device up that ends well hands off a device that serves the config it was
\* given and is mounted where it was asked to be, also over what a killed up, a
\* killed down or a cleanup before it left under the name.
UpIsAsAsked ==
    [][\A p \in Actors :
          UpPersists(p) =>
              /\ served[dev[p].name] = dev[p].conf
              /\ cmd[p].launch.mount # NoMount => mnt[cmd[p].launch.mount] = dev[p].name
      ]_obdVars

-----------------------------------------------------------------------------
(* What the documentation says and the code does not keep                  *)

\* obdctl.rs:449-474: mount first, since a mounted device cannot be torn down;
\* then "device torn down".
TornDownIsGone ==
    [][\A p \in Actors :
          DownExits(p) => backstore[cmd[p].launch.name] = "absent"]_obdVars

=============================================================================
