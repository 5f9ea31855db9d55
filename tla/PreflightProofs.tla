--------------------------- MODULE PreflightProofs ---------------------------
(***************************************************************************)
(* For any tools, modules, places and pids, and any number of changes of   *)
(* the host: what a preflight reports was so.  A search that has come to a *)
(* place has passed nothing that is there all the while (NothingPassed); a *)
(* pid whose comm was the daemon's is one that had a process, so that what *)
(* stat says is about the daemon unless the pid was recycled (CommHolds).  *)
(***************************************************************************)
EXTENDS Preflight, TLAPS

USE PreflightAssumption

-----------------------------------------------------------------------------
(* The invariant                                                           *)

Moments ==
    step > 0 =>
        /\ always \subseteq There(host, proc) /\ There(host, proc) \subseteq ever
        /\ InUse(proc) \subseteq used

Types ==
    /\ host \subseteq Things
    /\ proc \in [1..NPids -> ProcStates]
    /\ step \in 0..(Len(Checks) + 1)
    /\ place \in Nat \ {0}
    /\ comm \in BOOLEAN /\ (comm => Running /\ Checks[step] = Daemon /\ place \in 1..NPids)
    /\ found \in [1..Len(Checks) -> Nat]
    /\ recycled \in BOOLEAN

\* The search of this check has passed places, each of which lacked its witness
\* at some moment.
NothingPassed ==
    Running => \A i \in Places(Checks[step]) : i < place => ~ToBeSeen(Checks[step], i)

CommHolds ==
    comm => place \in used /\ (~recycled => proc[place] # "other")

\* A check that concluded had a witness there at some moment.
Witnessed ==
    \A s \in DOMAIN Checks :
        found[s] # 0 =>
            /\ found[s] \in Places(Checks[s])
            /\ (Checks[s] = Daemon => ~recycled) => <<Checks[s], found[s]>> \in ever

Reported == exit = "SUCCESS" => Done /\ \A s \in DOMAIN Checks : found[s] # 0

\* Before it begins, it has looked for nothing.
Fresh ==
    step = 0 => /\ place = 1 /\ comm = FALSE /\ exit = "none"
                /\ \A s \in DOMAIN Checks : found[s] = 0

PIInv ==
    Types /\ Fresh /\ Moments /\ NothingPassed /\ CommHolds /\ Witnessed /\ NotMissed /\ Reported

LEMMA WiderSeq ==
    ASSUME NEW S, NEW T, S \subseteq T, NEW q \in Seq(S)
    PROVE  q \in Seq(T)
  OBVIOUS

LEMMA PairSeq ==
    ASSUME NEW S, NEW x \in S, NEW y \in S
    PROVE  <<x, y>> \in Seq(S)
  OBVIOUS

LEMMA ChecksFact == Len(Checks) \in Nat /\ DOMAIN Checks = 1..Len(Checks)
<1> DEFINE S == STRING \cup {"baselayer", "configfs", "root"}
<1>1. Binaries \in Seq(S) /\ Modules \in Seq(S)
  BY WiderSeq
<1>2. <<"baselayer", "configfs">> \in Seq(S) /\ <<Daemon, "root">> \in Seq(S)
  BY PairSeq
<1> HIDE DEF S
<1>3. Binaries \o <<"baselayer", "configfs">> \o Modules \in Seq(S)
  BY <1>1, <1>2
<1>4. Checks \in Seq(S)
  BY <1>2, <1>3 DEF Checks
<1> QED
  BY <1>4

LEMMA PlacesFact ==
    ASSUME NEW c
    PROVE  /\ c = Daemon => Places(c) = 1..NPids
           /\ \A i \in Places(c) : i \in Nat \ {0} /\ ~(i < 1)
           /\ \A i \in Places(c), j \in Nat \ {0} : j \notin Places(c) => i < j
<1>1. Places(c) = 1..NPids \/ Places(c) = 1..NPlaces \/ Places(c) = {1}
  BY DEF Places
<1>2. c = Daemon => Places(c) = 1..NPids
  BY DEF Places
<1>3. \A n \in Nat : /\ \A i \in 1..n : i \in Nat \ {0} /\ ~(i < 1)
                     /\ \A i \in 1..n, j \in Nat \ {0} : j \notin 1..n => i < j
  OBVIOUS
<1>4. {1} = 1..1
  BY SMT
<1>5. PICK n \in Nat : Places(c) = 1..n
  BY <1>1, <1>4
<1> QED
  BY <1>2, <1>3, <1>5

LEMMA InitHolds == Init => PIInv
<1> SUFFICES ASSUME Init PROVE PIInv
  OBVIOUS
<1> USE DEF Init
<1>1. Types
  <2>1. found \in [1..Len(Checks) -> Nat] /\ place \in Nat \ {0}
    OBVIOUS
  <2>2. step \in 0..(Len(Checks) + 1)
    BY ChecksFact
  <2> QED
    BY <2>1, <2>2 DEF Types
<1>2. Fresh /\ Moments /\ NothingPassed /\ CommHolds /\ Witnessed /\ NotMissed /\ Reported
  BY ChecksFact DEF Fresh, Moments, NothingPassed, CommHolds, Witnessed, NotMissed, Reported, Running, ToBeSeen
<1> QED
  BY <1>1, <1>2 DEF PIInv

-----------------------------------------------------------------------------
(* The checks                                                              *)

LEMMA BeginStep == PIInv /\ Begin => PIInv'
<1> SUFFICES ASSUME PIInv, Begin PROVE PIInv'
  OBVIOUS
<1> USE DEF PIInv, Begin
<1>1. Types'
  <2>1. step' \in 0..(Len(Checks) + 1)
    BY ChecksFact
  <2>2. comm = FALSE /\ place = 1
    BY DEF Fresh
  <2> QED
    BY <2>1, <2>2 DEF Types
<1>5. Moments'
  BY DEF Moments
<1>2. NothingPassed' /\ CommHolds'
  <2>1. place' = 1 /\ comm' = FALSE
    BY DEF Fresh
  <2> QED
    BY <2>1, PlacesFact DEF NothingPassed, CommHolds
<1>3. Witnessed' /\ Fresh'
  BY DEF Fresh, Witnessed
<1>4. NotMissed' /\ Reported'
  BY ChecksFact DEF NotMissed, Reported, Done
<1> QED
  BY <1>1, <1>2, <1>3, <1>4, <1>5

\* A check concludes: at its place, where its witness is, or with nothing.
LEMMA ConcludeStep ==
    ASSUME PIInv, Running, NEW i \in Nat, Conclude(i),
           UNCHANGED <<host, proc, exit, moments>>,
           \/ /\ i = place /\ place \in Places(Checks[step])
              /\ (Checks[step] = Daemon => ~recycled) => <<Checks[step], place>> \in ever
           \/ i = 0 /\ place \notin Places(Checks[step])
           \/ i = 0 /\ \A j \in Places(Checks[step]) : ~ToBeSeen(Checks[step], j)
    PROVE  PIInv'
<1> USE DEF PIInv, Conclude, moments
<1>1. /\ step \in DOMAIN Checks /\ step \in Nat /\ step' = step + 1 /\ found' = [found EXCEPT ![step] = i]
      /\ found \in [DOMAIN Checks -> Nat]
      /\ found'[step] = i /\ \A s \in DOMAIN Checks \ {step} : found'[s] = found[s]
  BY ChecksFact DEF Running, Types
<1>2. Types' /\ Fresh'
  <2>1. step' \in 0..(Len(Checks) + 1) /\ step' # 0
    BY <1>1, ChecksFact
  <2>2. found' \in [1..Len(Checks) -> Nat] /\ place' = 1 /\ comm' = FALSE
    BY <1>1, ChecksFact
  <2>3. comm' \in BOOLEAN /\ (comm' => Running' /\ Checks[step'] = Daemon /\ place' \in 1..NPids)
    BY <2>2, Zenon
  <2>4. host' \subseteq Things /\ proc' \in [1..NPids -> ProcStates] /\ place' \in Nat \ {0}
    BY <2>2 DEF Types
  <2>6. recycled' \in BOOLEAN
    BY Zenon DEF Types
  <2>5. Types'
    BY <2>1, <2>2, <2>3, <2>4, <2>6, Zenon DEF Types
  <2> QED
    BY <2>1, <2>5 DEF Fresh
<1>3. Moments'
  <2>1. step > 0
    BY <1>1, ChecksFact
  <2> QED
    BY <2>1 DEF Moments, There, InUse
<1>4. NothingPassed'
  BY PlacesFact DEF NothingPassed
<1>5. CommHolds'
  BY DEF CommHolds
<1>6. Witnessed'
  BY <1>1 DEF Witnessed
<1>7. NotMissed'
  <2> SUFFICES ASSUME NEW s \in DOMAIN Checks, NEW j \in Places(Checks[s]),
                      s < step', ToBeSeen(Checks[s], j)
               PROVE  found'[s] \in 1..j
    BY DEF NotMissed, ToBeSeen
  <2>1. CASE s # step
    <3>1. s < step
      BY <1>1, <2>1, ChecksFact
    <3> QED
      BY <1>1, <2>1, <3>1 DEF NotMissed
  <2>2. CASE s = step
    <3>1. j \in Nat /\ place \in Nat \ {0} /\ ~(j < place)
      BY <2>2, PlacesFact DEF NothingPassed, Types
    <3>2. place \notin Places(Checks[step]) => j < place
      BY <2>2, <3>1, PlacesFact
    <3>3. i = place /\ place \in Places(Checks[step])
      BY <2>2, <3>1, <3>2
    <3>4. place <= j
      BY <3>1
    <3> QED
      BY <1>1, <2>2, <3>1, <3>3, <3>4
  <2> QED
    BY <2>1, <2>2
<1>8. Reported'
  BY <1>1, ChecksFact DEF Reported, Running, Done, Types
<1> QED
  BY <1>2, <1>3, <1>4, <1>5, <1>6, <1>7, <1>8

\* The search goes on behind a place without a witness.
LEMMA NextPlaceStep ==
    ASSUME PIInv, Running, NextPlace, UNCHANGED <<host, proc, exit, moments>>,
           ~ToBeSeen(Checks[step], place)
    PROVE  PIInv'
<1> USE DEF PIInv, NextPlace, moments
<1>1. /\ step \in DOMAIN Checks /\ step \in Nat \ {0} /\ place \in Nat \ {0}
      /\ step' = step /\ found' = found /\ place' = place + 1 /\ comm' = FALSE
  BY ChecksFact DEF Running, Types
<1>2. Types' /\ Fresh'
  <2>1. comm' \in BOOLEAN /\ (comm' => Running' /\ Checks[step'] = Daemon /\ place' \in 1..NPids)
    BY <1>1, Zenon
  <2>2. recycled' \in BOOLEAN
    BY Zenon DEF Types
  <2>3. /\ host' \subseteq Things /\ proc' \in [1..NPids -> ProcStates]
        /\ step' \in 0..(Len(Checks) + 1) /\ place' \in Nat \ {0}
        /\ found' \in [1..Len(Checks) -> Nat]
    BY <1>1 DEF Types
  <2>4. Types'
    BY <2>1, <2>2, <2>3, Zenon DEF Types
  <2> QED
    BY <1>1, <2>4 DEF Fresh
<1>3. NothingPassed'
  <2>1. \A i \in Nat : i < place + 1 => i < place \/ i = place
    BY <1>1
  <2> QED
    BY <1>1, <2>1, PlacesFact DEF NothingPassed, Running, ToBeSeen
<1>4. Moments' /\ CommHolds' /\ Witnessed' /\ NotMissed' /\ Reported'
  BY <1>1 DEF Moments, There, InUse, CommHolds, Witnessed, NotMissed, Reported, Done,
     ToBeSeen
<1> QED
  BY <1>2, <1>3, <1>4

LEMMA NoProcessInHost ==
    ASSUME Types, NEW i
    PROVE  <<Daemon, i>> \notin host
<1>1. ASSUME NEW t \in Things
      PROVE  t = <<"proc", 1>> \/ \E c \in Check \ {Daemon} : \E j \in Places(c) : t = <<c, j>>
  BY <1>1 DEF Things, ProcReadable
<1>2. Daemon # "proc"
  OBVIOUS
<1> QED
  BY <1>1, <1>2 DEF Types

\* What There says of the daemon.
LEMMA DaemonThere ==
    ASSUME PIInv, NEW i \in 1..NPids
    PROVE  <<Daemon, i>> \in There(host, proc) <=> proc[i] = "live"
  BY NoProcessInHost DEF There, PIInv

LEMMA StepPositive == PIInv /\ Running => step > 0
  BY ChecksFact DEF Running, PIInv, Types

LEMMA LookStep ==
    ASSUME PIInv, Running, Checks[step] # Daemon, Look(Checks[step]),
           UNCHANGED <<host, proc, exit, moments>>
    PROVE  PIInv'
<1> DEFINE c == Checks[step]
<1>1. place \in Places(c) /\ place \in Nat /\ step > 0
  BY StepPositive, PlacesFact DEF Look
<1>2. CASE <<c, place>> \in host
  <2>1. <<c, place>> \in ever
    BY <1>1, <1>2 DEF PIInv, Moments, There
  <2> QED
    BY <1>1, <1>2, <2>1, ConcludeStep DEF Look
<1>3. CASE <<c, place>> \notin host
  <2>1. ~ToBeSeen(c, place)
    BY <1>1, <1>3 DEF PIInv, Moments, There, ToBeSeen
  <2> QED
    BY <1>3, <2>1, NextPlaceStep DEF Look
<1> QED
  BY <1>2, <1>3

LEMMA ReadCommStep ==
    ASSUME PIInv, Running, ReadComm(Checks[step]), UNCHANGED <<host, proc, exit, moments>>
    PROVE  PIInv'
<1>1. /\ Checks[step] = Daemon /\ place \in 1..NPids /\ step > 0
      /\ ~comm
  BY StepPositive, PlacesFact DEF ReadComm
<1>2. CASE proc[place] \in {"none", "other"} /\ NextPlace
  <2>1. ~ToBeSeen(Daemon, place)
    BY <1>1, <1>2, DaemonThere DEF PIInv, Moments, ToBeSeen
  <2> QED
    BY <1>1, <1>2, <2>1, NextPlaceStep
<1>3. CASE <<Checks[step], place>> \notin always /\ NextPlace
  BY <1>3, NextPlaceStep DEF ToBeSeen
<1>4. CASE /\ proc[place] \in {"live", "zombie"}
           /\ comm' = TRUE /\ UNCHANGED <<step, place, found>>
  <2> USE DEF PIInv, moments
  <2>1. comm' \in BOOLEAN /\ (comm' => Running' /\ Checks[step'] = Daemon /\ place' \in 1..NPids)
    <3>1. Running' /\ Checks[step'] = Daemon /\ place' \in 1..NPids
      BY <1>1, <1>4 DEF Running
    <3> QED
      BY <1>4, <3>1, Zenon
  <2>2. /\ host' \subseteq Things /\ proc' \in [1..NPids -> ProcStates]
        /\ step' \in 0..(Len(Checks) + 1) /\ place' \in Nat \ {0}
        /\ found' \in [1..Len(Checks) -> Nat]
    BY <1>4 DEF Types
  <2>3. recycled' \in BOOLEAN
    BY Zenon DEF Types
  <2>4. Types'
    BY <2>1, <2>2, <2>3, Zenon DEF Types
  <2>5. CommHolds'
    <3>1. place \in used /\ proc[place] # "other"
      BY <1>1, <1>4 DEF Moments, InUse
    <3> QED
      BY <1>4, <3>1 DEF CommHolds
  <2>6. Fresh' /\ Moments' /\ NothingPassed' /\ Witnessed' /\ NotMissed' /\ Reported'
    BY <1>1, <1>4 DEF Fresh, Moments, There, InUse, NothingPassed, Running, Witnessed,
       NotMissed, Reported, Done, ToBeSeen
  <2> QED
    BY <2>4, <2>5, <2>6
<1> QED
  BY <1>2, <1>3, <1>4 DEF ReadComm

LEMMA ReadStatStep ==
    ASSUME PIInv, Running, ReadStat(Checks[step]), UNCHANGED <<host, proc, exit, moments>>
    PROVE  PIInv'
<1>1. /\ Checks[step] = Daemon /\ step > 0 /\ comm
      /\ place \in 1..NPids /\ place \in Places(Checks[step]) /\ place \in Nat
  BY StepPositive, PlacesFact DEF ReadStat, PIInv, Types
<1>2. CASE proc[place] \in {"none", "zombie"}
  <2>1. ~ToBeSeen(Daemon, place)
    BY <1>1, <1>2, DaemonThere DEF PIInv, Moments, ToBeSeen
  <2> QED
    BY <1>1, <1>2, <2>1, NextPlaceStep DEF ReadStat
<1>3. CASE proc[place] \notin {"none", "zombie"}
  <2>1. ~recycled => proc[place] = "live"
    BY <1>1, <1>3 DEF PIInv, CommHolds, Types, ProcStates
  <2>2. ~recycled => <<Daemon, place>> \in ever
    BY <1>1, <2>1, DaemonThere DEF PIInv, Moments
  <2>3. Conclude(place)
    BY <1>3 DEF ReadStat
  <2> QED
    BY <1>1, <2>2, <2>3, ConcludeStep
<1> QED
  BY <1>2, <1>3

LEMMA ReadFailsStep ==
    ASSUME PIInv, Running, ReadFails(Checks[step]), UNCHANGED <<host, proc, exit, moments>>
    PROVE  PIInv'
<1>1. Checks[step] = Daemon /\ ProcReadable \notin host /\ step > 0
  BY StepPositive DEF ReadFails
<1>2. ProcReadable \notin There(host, proc)
  <2>1. \A i \in 1..NPids : ProcReadable # <<Daemon, i>>
    BY DEF ProcReadable
  <2> QED
    BY <1>1, <2>1 DEF There
<1>3. \A j \in Places(Checks[step]) \cup {place} : ~ToBeSeen(Checks[step], j)
  BY <1>1, <1>2 DEF ToBeSeen, PIInv, Moments
<1>4. CASE NextPlace
  BY <1>3, <1>4, NextPlaceStep
<1>5. CASE Conclude(0)
  BY <1>3, <1>5, ConcludeStep
<1> QED
  BY <1>4, <1>5 DEF ReadFails

LEMMA CheckStepHolds == PIInv /\ CheckStep => PIInv'
<1> SUFFICES ASSUME PIInv, CheckStep PROVE PIInv'
  OBVIOUS
<1>1. Running /\ UNCHANGED <<host, proc, exit, moments>>
  BY DEF CheckStep
<1>2. ASSUME NotFound(Checks[step]) PROVE PIInv'
  BY <1>1, <1>2, ConcludeStep DEF NotFound
<1> QED
  BY <1>1, <1>2, LookStep, ReadCommStep, ReadStatStep, ReadFailsStep DEF CheckStep

\* Steps that leave the checks alone.
LEMMA TypesKept ==
    ASSUME Types, UNCHANGED <<step, place, comm, found>>,
           host' \subseteq Things, proc' \in [1..NPids -> ProcStates], recycled' \in BOOLEAN
    PROVE  Types'
<1>1. comm' \in BOOLEAN /\ (comm' => Running' /\ Checks[step'] = Daemon /\ place' \in 1..NPids)
  <2>1. Running <=> Running'
    BY DEF Running
  <2> QED
    BY <2>1, Zenon DEF Types
<1>2. /\ step' \in 0..(Len(Checks) + 1) /\ place' \in Nat \ {0}
      /\ found' \in [1..Len(Checks) -> Nat]
  BY DEF Types
<1> QED
  BY <1>1, <1>2, Zenon DEF Types

LEMMA ExitStep == PIInv /\ Exit => PIInv'
<1> SUFFICES ASSUME PIInv, Exit PROVE PIInv'
  OBVIOUS
<1> USE DEF PIInv, Exit, moments
<1>1. Types'
  BY TypesKept DEF Types
<1>2. Reported' /\ Fresh'
  BY ChecksFact DEF Reported, Fresh, Done, Types
<1>3. Moments' /\ NothingPassed' /\ CommHolds' /\ Witnessed' /\ NotMissed'
  BY DEF Moments, There, InUse, NothingPassed, Running, CommHolds, Witnessed, NotMissed,
         ToBeSeen
<1> QED
  BY <1>1, <1>2, <1>3

-----------------------------------------------------------------------------
(* The host                                                                *)

LEMMA MeanwhileStep ==
    ASSUME PIInv, Meanwhile,
           host' \subseteq Things, proc' \in [1..NPids -> ProcStates], recycled' \in BOOLEAN,
           recycled => recycled',
           \A i \in used \cap 1..NPids :
               proc'[i] = "other" /\ proc[i] # "other" => recycled'
    PROVE  PIInv'
<1> USE DEF PIInv, Meanwhile, preflight
<1>1. Types'
  BY TypesKept
<1>2. ever \subseteq ever' /\ always' \subseteq always /\ used \subseteq used'
  OBVIOUS
<1>3. Moments'
  BY StepPositive DEF Moments
<1>4. NothingPassed' /\ Fresh' /\ NotMissed' /\ Reported'
  BY <1>2 DEF NothingPassed, Running, Fresh, NotMissed, Reported, Done, ToBeSeen
<1>5. CommHolds'
  <2>1. comm => place \in used' /\ place \in used \cap 1..NPids
    BY <1>2 DEF CommHolds, Types
  <2>2. ASSUME comm, ~recycled' PROVE proc'[place] # "other"
    BY <2>1, <2>2 DEF CommHolds
  <2> QED
    BY <2>1, <2>2 DEF CommHolds
<1>6. Witnessed'
  BY <1>2 DEF Witnessed
<1> QED
  BY <1>1, <1>3, <1>4, <1>5, <1>6

LEMMA HostStepHolds == PIInv /\ (HostChanges \/ ProcessStarts \/ ProcessEnds) => PIInv'
<1>1. ASSUME PIInv, HostChanges PROVE PIInv'
  <2>1. host' \subseteq Things /\ proc' = proc /\ recycled' = recycled /\ Meanwhile
    BY <1>1 DEF HostChanges, PIInv, Types
  <2>2. proc' \in [1..NPids -> ProcStates] /\ recycled' \in BOOLEAN
    BY <1>1, <2>1, Zenon DEF PIInv, Types
  <2> QED
    BY <1>1, <2>1, <2>2, MeanwhileStep
<1>2. ASSUME PIInv, ProcessStarts PROVE PIInv'
  <2>1. PICK i \in 1..NPids, st \in {"live", "other"} :
            /\ proc[i] = "none"
            /\ proc' = [proc EXCEPT ![i] = st]
            /\ recycled' = (recycled \/ i \in used)
    BY <1>2 DEF ProcessStarts
  <2>2. host' \subseteq Things /\ Meanwhile
    BY <1>2 DEF ProcessStarts, PIInv, Types
  <2>3. proc' \in [1..NPids -> ProcStates] /\ \A j \in 1..NPids \ {i} : proc'[j] = proc[j]
    BY <1>2, <2>1 DEF PIInv, Types, ProcStates
  <2>4. recycled' \in BOOLEAN /\ (recycled => recycled') /\ (i \in used => recycled')
    BY <2>1, Zenon
  <2> QED
    BY <1>2, <2>2, <2>3, <2>4, MeanwhileStep
<1>3. ASSUME PIInv, ProcessEnds PROVE PIInv'
  <2>1. PICK i \in 1..NPids, st \in {"none", "zombie"} : proc' = [proc EXCEPT ![i] = st]
    BY <1>3 DEF ProcessEnds
  <2>2. host' \subseteq Things /\ recycled' = recycled /\ Meanwhile
    BY <1>3 DEF ProcessEnds, PIInv, Types
  <2>3. /\ proc' \in [1..NPids -> ProcStates]
        /\ \A j \in 1..NPids : proc'[j] = "other" => proc[j] = "other"
    BY <1>3, <2>1 DEF PIInv, Types, ProcStates
  <2>4. recycled' \in BOOLEAN
    BY <1>3, <2>2, Zenon DEF PIInv, Types
  <2> QED
    BY <1>3, <2>2, <2>3, <2>4, MeanwhileStep
<1> QED
  BY <1>1, <1>2, <1>3

LEMMA StutterStep == PIInv /\ UNCHANGED vars => PIInv'
<1> SUFFICES ASSUME PIInv, UNCHANGED vars PROVE PIInv'
  OBVIOUS
<1> USE DEF PIInv, vars, preflight, moments
<1>1. Types'
  BY TypesKept DEF Types
<1>2. Moments' /\ NothingPassed' /\ CommHolds' /\ Witnessed' /\ NotMissed' /\ Reported' /\ Fresh'
  BY DEF Moments, There, InUse, NothingPassed, Running, CommHolds, Witnessed, NotMissed,
     Reported, Done, Fresh, ToBeSeen
<1> QED
  BY <1>1, <1>2

LEMMA Invariance == Spec => []PIInv
<1>1. PIInv /\ [Next]_vars => PIInv'
  BY BeginStep, CheckStepHolds, ExitStep, HostStepHolds, StutterStep DEF Next
<1> QED
  BY <1>1, InitHolds, PTL DEF Spec

-----------------------------------------------------------------------------
(* The theorems                                                            *)

\* A preflight that ends with success was right about every part of it at some
\* moment while it ran; the daemon's pid going to another process between the two
\* reads is the one way to be wrong (lib.rs:240-259).
THEOREM SuccessesAreTrue == Spec => []SuccessIsTrue
<1>1. PIInv => SuccessIsTrue
  <2> SUFFICES ASSUME PIInv, exit = "SUCCESS", NEW c \in Check, c = Daemon => ~recycled
               PROVE  \E i \in Places(c) : <<c, i>> \in ever
    BY DEF SuccessIsTrue
  <2>1. PICK s \in DOMAIN Checks : c = Checks[s]
    BY DEF Check
  <2> QED
    BY <2>1 DEF PIInv, Reported, Witnessed
<1> QED
  BY <1>1, Invariance, PTL

\* What is there from the begin of a preflight until its check is over is found,
\* and no later than at that place.
THEOREM NothingIsMissed == Spec => []NotMissed
<1>1. PIInv => NotMissed
  BY DEF PIInv
<1> QED
  BY <1>1, Invariance, PTL

Bounds ==
    /\ place \in 1..(NPlaces + NPids + 1)
    /\ exit \in {"none", "SUCCESS", "FAILURE"}
    /\ used \subseteq 1..NPids /\ changes \in 0..Changes

LEMMA PlaceBound ==
    ASSUME NEW c, NEW i \in Places(c)
    PROVE  i + 1 \in 1..(NPlaces + NPids + 1)
<1>1. i \in 1..NPids \/ i \in 1..NPlaces \/ i = 1
  BY DEF Places
<1> QED
  BY <1>1

LEMMA BoundsStep == PIInv /\ Bounds /\ [Next]_vars => Bounds'
<1> SUFFICES ASSUME PIInv, Bounds, [Next]_vars PROVE Bounds'
  OBVIOUS
<1>0. 1 \in 1..(NPlaces + NPids + 1)
  OBVIOUS
<1>1. CASE Begin
  BY <1>1 DEF Begin, Bounds, InUse
<1>2. CASE CheckStep
  <2>1. place' = 1 \/ place' = place \/ (place \in Places(Checks[step]) /\ place' = place + 1)
    BY <1>2 DEF CheckStep, Look, ReadComm, ReadStat, ReadFails, NotFound, Conclude, NextPlace,
       PIInv, Types, Places
  <2> QED
    BY <1>0, <1>2, <2>1, PlaceBound DEF CheckStep, Bounds, moments
<1>3. CASE Exit
  BY <1>3 DEF Exit, Bounds, moments
<1>4. CASE HostChanges \/ ProcessStarts \/ ProcessEnds
  <2>1. Meanwhile
    BY <1>4 DEF HostChanges, ProcessStarts, ProcessEnds
  <2>2. InUse(proc') \subseteq 1..NPids
    BY DEF InUse
  <2>3. changes' \in 0..Changes
    BY <2>1 DEF Meanwhile, Bounds
  <2>4. UNCHANGED <<place, exit>> /\ used' = used \cup InUse(proc')
    BY <2>1 DEF Meanwhile, preflight
  <2> QED
    BY <2>2, <2>3, <2>4 DEF Bounds
<1>5. CASE UNCHANGED vars
  BY <1>5 DEF vars, preflight, moments, Bounds
<1> QED
  BY <1>1, <1>2, <1>3, <1>4, <1>5 DEF Next

\* Each check looks in places of its own, and what was there all the while is
\* there now.
THEOREM PreflightWellTyped == Spec => []PreflightTypeOK
<1>1. Init => Bounds
  BY DEF Init, Bounds
<1>2. PIInv /\ Bounds => PreflightTypeOK
  <2> SUFFICES ASSUME PIInv, Bounds PROVE PreflightTypeOK
    OBVIOUS
  <2>1. \A i \in DOMAIN Checks : found[i] \in Places(Checks[i]) \cup {0}
    BY DEF PIInv, Witnessed
  <2>2. comm \in BOOLEAN /\ (comm => Running /\ Checks[step] = Daemon) /\ recycled \in BOOLEAN
    BY Zenon DEF PIInv, Types
  <2>3. /\ host \subseteq Things /\ proc \in [1..NPids -> ProcStates]
        /\ step \in 0..(Len(Checks) + 1) /\ found \in [1..Len(Checks) -> Nat]
        /\ (step > 0 => always \subseteq There(host, proc) /\ There(host, proc) \subseteq ever)
    BY DEF PIInv, Types, Moments
  <2> QED
    BY <2>1, <2>2, <2>3, Zenon DEF PreflightTypeOK, Bounds
<1> QED
  BY <1>1, <1>2, BoundsStep, Invariance, PTL DEF Spec

=============================================================================
