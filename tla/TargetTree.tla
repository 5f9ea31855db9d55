------------------------------ MODULE TargetTree ------------------------------
(***************************************************************************)
(* The kernel state every part of the crate works on: the configfs target  *)
(* tree                                                                    *)
(*                                                                         *)
(*   core/user_1/<name>                       the backstores of the HBA    *)
(*   loopback/<naa>/tpgt_1/lun/lun_0/<name>   a nexus, and its LUN link    *)
(*                                                                         *)
(* and the mount table.  An operation here is one system call.  The        *)
(* primitives that remove never fail (rmdir and rm_symlink swallow "gone"  *)
(* and "not empty"); the ones that create are guarded by what lets the     *)
(* call succeed, and the caller's error path stands for the rest.          *)
(*                                                                         *)
(* The kernel is not in the repository.  It is modelled by what the code   *)
(* relies on: a directory with entries is not removed, a backstore with a  *)
(* LUN link is not removed, LUN 0 carries one backstore, and "a mounted    *)
(* device cannot be torn down" (cleanup.rs:163, obdctl.rs:450).            *)
(***************************************************************************)
EXTENDS Naturals

CONSTANTS
    Names,        \* backstore names that exist on the host
    OurNames,     \* those that start with DEV_PREFIX
    Naas,         \* tcm_loop nexus names
    OurNaas,      \* those that start with NAA_PREFIX
    Mountpoints,  \* directories a device can be mounted at
    Confs,        \* device configs, as the dev_config attribute names them
    NoName,       \* no backstore
    NoConf        \* dev_config not written

ASSUME TreeAssumption ==
    /\ OurNames \subseteq Names
    /\ OurNaas \subseteq Naas
    /\ NoName \notin Names
    /\ NoConf \notin Confs

ForeignNames == Names \ OurNames
ForeignNaas  == Naas \ OurNaas

VARIABLES
    hba,        \* does core/user_1 exist?
    backstore,  \* per name: "absent", "made" (a directory), "enabled"
    devcfg,     \* per backstore, its dev_config attribute
    nexus,      \* per nexus, how deep its tree is: 1 naa, 2 tpgt_1, 3 lun_0
    lun,        \* per nexus, the backstore linked into its lun_0
    mnt         \* per mountpoint, the device mounted there

tree == <<hba, backstore, devcfg, nexus, lun, mnt>>

TreeTypeOK ==
    /\ hba \in BOOLEAN
    /\ backstore \in [Names -> {"absent", "made", "enabled"}]
    /\ devcfg \in [Names -> Confs \cup {NoConf}]
    /\ nexus \in [Naas -> 0..3]
    /\ lun \in [Naas -> Names \cup {NoName}]
    /\ mnt \in [Mountpoints -> Names \cup {NoName}]

\* The host before this crate touched it: what other software built under the
\* shared directories is up, the crate's own names are free.
TreeInit ==
    /\ hba = (ForeignNames # {})
    /\ backstore = [n \in Names |-> IF n \in OurNames THEN "absent" ELSE "enabled"]
    /\ devcfg = [n \in Names |-> NoConf]
    /\ nexus = [a \in Naas |-> IF a \in OurNaas THEN 0 ELSE 3]
    /\ lun \in [Naas -> ForeignNames \cup {NoName}]
    /\ \A a \in OurNaas : lun[a] = NoName
    /\ mnt = [m \in Mountpoints |-> NoName]

-----------------------------------------------------------------------------
(* What pins what                                                          *)

IsMounted(n) == \E m \in Mountpoints : mnt[m] = n

IsLinked(n) == \E a \in Naas : lun[a] = n

-----------------------------------------------------------------------------
(* Creating                                                                *)

\* create_dir_all works top down, and finding a directory already there is
\* success.
MkdirHba == hba' = TRUE

MkdirBackstore(n) ==
    /\ hba
    /\ backstore' = [backstore EXCEPT ![n] = IF @ = "absent" THEN "made" ELSE @]

MkdirNexus(a, depth) ==
    /\ nexus[a] >= depth - 1
    /\ nexus' = [nexus EXCEPT ![a] = IF @ < depth THEN depth ELSE @]

\* The attributes can be written as long as the directory is there.
WriteDevConfig(n, c) ==
    /\ backstore[n] # "absent"
    /\ devcfg' = [devcfg EXCEPT ![n] = c]

\* (fault) the write is accepted again by a backstore that is already live
EnableTwice(n) ==
    /\ backstore[n] # "absent"
    /\ devcfg[n] # NoConf
    /\ backstore' = [backstore EXCEPT ![n] = "enabled"]

\* The `enable` write.  A live backstore refuses it with EEXIST, which is the
\* only thing that arbitrates between two users of one name; without a
\* dev_config no daemon answers for it.
Enable(n) ==
    /\ backstore[n] = "made"
    /\ devcfg[n] # NoConf
    /\ backstore' = [backstore EXCEPT ![n] = "enabled"]

\* The LUN link; a link of that name that is already there is kept.
LinkLun(a, n) ==
    /\ nexus[a] = 3
    /\ backstore[n] # "absent"
    /\ lun[a] \in {NoName, n}
    /\ lun' = [lun EXCEPT ![a] = n]

-----------------------------------------------------------------------------
(* Removing.  Each is idempotent and infallible.                           *)

\* (fault) whichever link the LUN holds is removed
RmAnySymlink(a, n) ==
    lun' = [lun EXCEPT ![a] = IF IsMounted(@) THEN @ ELSE NoName]

\* rm_symlink(lun_link_path(naa, name)): the link of that name, no other.
RmSymlink(a, n) ==
    lun' = [lun EXCEPT ![a] = IF @ = n /\ ~IsMounted(n) THEN NoName ELSE @]

\* rmdir of the directory at that depth: only when it is empty.
RmdirNexus(a, depth) ==
    nexus' = [nexus EXCEPT ![a] =
                 IF @ = depth /\ lun[a] = NoName THEN depth - 1 ELSE @]

\* rmdir of a backstore: refused while a LUN links to it.  Its attributes go
\* with it.
RmdirBackstore(n) ==
    IF IsLinked(n)
    THEN UNCHANGED <<backstore, devcfg>>
    ELSE /\ backstore' = [backstore EXCEPT ![n] = "absent"]
         /\ devcfg' = [devcfg EXCEPT ![n] = NoConf]

\* Refused while any backstore, of any owner, still lives under it.
RmdirHba ==
    hba' = (hba /\ \E n \in Names : backstore[n] # "absent")

-----------------------------------------------------------------------------
(* Mounting                                                                *)

MountAt(n, m) ==
    /\ mnt[m] = NoName
    /\ mnt' = [mnt EXCEPT ![m] = n]

UnmountAt(m) == mnt' = [mnt EXCEPT ![m] = NoName]

=============================================================================
