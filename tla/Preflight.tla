------------------------------ MODULE Preflight ------------------------------
(***************************************************************************)
(* lib.rs preflight: checks made one after the other on a host that goes   *)
(* on changing.  Each looks for a witness, place by place: a tool in the   *)
(* directories of tools::find, a file or a directory in its one place, the *)
(* daemon among the processes.  Of a process comm and stat are read one    *)
(* after the other.                                                        *)
(***************************************************************************)
EXTENDS Naturals, Sequences

CONSTANTS
    Binaries,   \* the tools, in the order they are looked for
    Modules,    \* the kernel modules likewise
    Daemon,     \* overlaybd-tcmu
    NPlaces,    \* directories tools::find looks into
    NPids,      \* pids there may be
    Changes     \* bound: changes of the host while a preflight runs

ASSUME PreflightAssumption ==
    /\ NPlaces \in Nat \ {0} /\ NPids \in Nat /\ Changes \in Nat
    /\ Binaries \in Seq(STRING) /\ Modules \in Seq(STRING) /\ Daemon \in STRING \ {"proc"}

VARIABLES
    host,       \* files, directories and rights that are there
    proc,       \* per pid, what runs under it
    step,       \* the check it is at; 0 before, Len(Checks) + 1 after
    place,      \* the place this check looks at next
    comm,       \* the comm of that process was the daemon's
    found,      \* per check made, the place of its witness; 0 if it failed
    exit,       \* the exit code of obdctl preflight
    ever,       \* what was there at some moment since the preflight began
    always,     \* what was there at every moment since then
    used,       \* pids that had a process since then
    recycled,   \* one of these got another process
    changes     \* changes since then

preflight == <<step, place, comm, found, exit>>
moments   == <<ever, always, used, recycled, changes>>
vars      == <<host, proc, preflight, moments>>

-----------------------------------------------------------------------------

Checks == Binaries \o <<"baselayer", "configfs">> \o Modules \o <<Daemon, "root">>

\* Binaries: OVERLAYBD_BIN_DIR, the install directories, PATH.
Places(c) ==
    IF c = Daemon THEN 1..NPids
    ELSE IF \E i \in DOMAIN Binaries : Binaries[i] = c THEN 1..NPlaces ELSE {1}

Check == {Checks[i] : i \in DOMAIN Checks}

\* All of /proc can be listed and read.
ProcReadable == <<"proc", 1>>

Things == {ProcReadable} \cup UNION {{<<c, i>> : i \in Places(c)} : c \in Check \ {Daemon}}

ProcStates == {"none", "live", "zombie", "other"}

\* What the checks ask for, as it is.
There(h, pr) == h \cup {<<Daemon, i>> : i \in {j \in 1..NPids : pr[j] = "live"}}

InUse(pr) == {i \in 1..NPids : pr[i] # "none"}

Running == step \in DOMAIN Checks
Done    == step > Len(Checks)

PreflightTypeOK ==
    /\ host \subseteq Things
    /\ proc \in [1..NPids -> ProcStates]
    /\ step \in 0..(Len(Checks) + 1)
    /\ place \in 1..(NPlaces + NPids + 1)
    /\ comm \in BOOLEAN /\ (comm => Running /\ Checks[step] = Daemon)
    /\ found \in [1..Len(Checks) -> Nat]
    /\ \A i \in DOMAIN Checks : found[i] \in Places(Checks[i]) \cup {0}
    /\ exit \in {"none", "SUCCESS", "FAILURE"}
    /\ step > 0 => always \subseteq There(host, proc) /\ There(host, proc) \subseteq ever
    /\ used \subseteq 1..NPids /\ recycled \in BOOLEAN /\ changes \in 0..Changes

Init ==
    /\ host \in SUBSET Things
    /\ proc \in [1..NPids -> ProcStates]
    /\ step = 0 /\ place = 1 /\ comm = FALSE
    /\ found = [i \in 1..Len(Checks) |-> 0]
    /\ exit = "none"
    /\ ever = {} /\ always = {} /\ used = {} /\ recycled = FALSE /\ changes = 0

-----------------------------------------------------------------------------
(* The checks                                                              *)

Begin ==
    /\ step = 0 /\ step' = 1
    /\ ever' = There(host, proc) /\ always' = There(host, proc) /\ used' = InUse(proc)
    /\ UNCHANGED <<host, proc, place, comm, found, exit, recycled, changes>>

\* The check is made, and the next one begins.
Conclude(i) ==
    /\ found' = [found EXCEPT ![step] = i]
    /\ step' = step + 1
    /\ place' = 1
    /\ comm' = FALSE

NextPlace == place' = place + 1 /\ comm' = FALSE /\ UNCHANGED <<step, found>>

\* (fault) the search goes on after the last place
LookOn(c) == IF <<c, place>> \in host THEN Conclude(place) ELSE NextPlace

Look(c) ==
    /\ place \in Places(c)
    /\ IF <<c, place>> \in host THEN Conclude(place) ELSE NextPlace

\* A /proc that cannot be opened ends the search; an entry or a file of it that
\* cannot be read is passed over.
ReadFails(c) ==
    /\ c = Daemon /\ place \in Places(c)
    /\ ProcReadable \notin host
    /\ NextPlace \/ (place = 1 /\ ~comm /\ Conclude(0))

\* comm is another's, or its process is gone: on to the next one.  One that was
\* started since /proc was opened may not be listed.
ReadComm(c) ==
    /\ c = Daemon /\ ~comm /\ place \in Places(c)
    /\ \/ /\ proc[place] \in {"live", "zombie"}
          /\ comm' = TRUE /\ UNCHANGED <<step, place, found>>
       \/ proc[place] \in {"none", "other"} /\ NextPlace
       \/ <<c, place>> \notin always /\ NextPlace

\* (fault) a zombie is as good as a process
ReadAnyStat(c) ==
    /\ c = Daemon /\ comm
    /\ IF proc[place] # "none" THEN Conclude(place) ELSE NextPlace

\* (fault) the first process of that name decides
ReadFirstStat(c) ==
    /\ c = Daemon /\ comm
    /\ IF proc[place] \in {"none", "zombie"} THEN Conclude(0) ELSE Conclude(place)

\* stat cannot be read any more, or says Z: on to the next process.
ReadStat(c) ==
    /\ c = Daemon /\ comm
    /\ IF proc[place] \in {"none", "zombie"} THEN NextPlace ELSE Conclude(place)

NotFound(c) == place \notin Places(c) /\ Conclude(0)

CheckStep ==
    /\ Running
    /\ LET c == Checks[step]
       IN  \/ c # Daemon /\ Look(c)
           \/ ReadComm(c) \/ ReadStat(c) \/ ReadFails(c)
           \/ NotFound(c)
    /\ UNCHANGED <<host, proc, exit, moments>>

Exit ==
    /\ Done /\ exit = "none"
    /\ exit' = IF \E i \in DOMAIN Checks : found[i] = 0 THEN "FAILURE" ELSE "SUCCESS"
    /\ UNCHANGED <<host, proc, step, place, comm, found, moments>>

-----------------------------------------------------------------------------
(* The host, meanwhile                                                     *)

Meanwhile ==
    /\ Running /\ changes < Changes
    /\ changes' = changes + 1
    /\ ever' = ever \cup There(host', proc')
    /\ always' = always \cap There(host', proc')
    /\ used' = used \cup InUse(proc')
    /\ UNCHANGED preflight

\* Tools are installed and removed, modules loaded and unloaded.
HostChanges ==
    /\ \E t \in Things \ {<<"root", 1>>} :
          host' = IF t \in host THEN host \ {t} ELSE host \cup {t}
    /\ UNCHANGED <<proc, recycled>>
    /\ Meanwhile

\* The daemon, or anything else, under a free pid
ProcessStarts ==
    /\ \E i \in 1..NPids, s \in {"live", "other"} :
          /\ proc[i] = "none"
          /\ proc' = [proc EXCEPT ![i] = s]
          /\ recycled' = (recycled \/ i \in used)
    /\ UNCHANGED host
    /\ Meanwhile

\* A process exits and may be left a zombie; a zombie is reaped.
ProcessEnds ==
    /\ \E i \in 1..NPids :
          \/ proc[i] # "none" /\ proc' = [proc EXCEPT ![i] = "none"]
          \/ proc[i] = "live" /\ proc' = [proc EXCEPT ![i] = "zombie"]
    /\ UNCHANGED <<host, recycled>>
    /\ Meanwhile

Next == Begin \/ CheckStep \/ Exit \/ HostChanges \/ ProcessStarts \/ ProcessEnds

Spec == Init /\ [][Next]_vars

-----------------------------------------------------------------------------
(* Correctness                                                             *)

\* A preflight that ends well was right about everything at some moment while it
\* ran, the daemon included: one that is dead and not reaped, or that dies
\* between the two reads, is not taken for a running one, unless its pid went
\* to another process just then.
SuccessIsTrue ==
    exit = "SUCCESS" =>
        \A c \in Check : (c = Daemon => ~recycled) => \E i \in Places(c) : <<c, i>> \in ever

\* There at every moment, and nothing hides it.
ToBeSeen(c, i) == <<c, i>> \in always /\ (c = Daemon => ProcReadable \in always)

\* What is there all the while is not missed, whatever comes and goes next to
\* it; a tool is found where it takes precedence, a daemon behind the zombie of
\* its predecessor, as long as /proc can be read.
NotMissed ==
    \A s \in DOMAIN Checks : \A i \in Places(Checks[s]) :
        s < step /\ ToBeSeen(Checks[s], i) => found[s] \in 1..i

=============================================================================
