----------------------------- MODULE DeviceConfig -----------------------------
(***************************************************************************)
(* config.rs and obdctl config: what the command line says becomes lowers, *)
(* a DeviceConfig, and the file the daemon reads when a backstore that     *)
(* names it is enabled.  Commands run one at a time, may fail or be killed *)
(* anywhere, and go over the file that is there.                           *)
(*                                                                         *)
(* A string is a sequence of tokens.  The file is a sequence of pieces,    *)
(* its head (repoBlobUrl), a lower each, and its tail (upper, resultFile); *)
(* any of them may be the last one that gets written.                      *)
(***************************************************************************)
EXTENDS Naturals, Sequences, FiniteSets, SequencesExt

CONSTANTS
    Sha,         \* the token of a digest that starts with sha256:
    ByteCount,   \* the tokens that parse as u64, with their values
    Utf8Paths,   \* paths that are UTF-8
    Lossy,       \* what any other path is displayed as
    Inputs,      \* the command lines: files, remotes, url, upper, result
    Commands     \* bound: commands run

\* An optional value is a sequence of at most one.
None    == <<>>
Some(x) == <<x>>

ASSUME ConfigAssumption ==
    /\ Commands \in Nat
    /\ \A t \in DOMAIN ByteCount : ByteCount[t] \in Nat /\ t # "="
    /\ Sha # "="
    /\ \A a \in Inputs :
          /\ DOMAIN a = {"files", "remotes", "url", "upper", "result"}
          /\ a.files \in Seq(STRING) /\ a.remotes \in Seq(Seq(STRING))
          /\ a.url # None => a.url[1] \in Seq(STRING)
          /\ a.upper # None =>
                a.upper = Some([data |-> a.upper[1].data, index |-> a.upper[1].index])

VARIABLES
    pc,      \* where the command is
    args,    \* its command line
    conf,    \* the DeviceConfig it builds
    json,    \* the text it has rendered
    pos,     \* pieces of it written
    file,    \* the config file; <<>> if it is empty or not there
    given,   \* the texts whose writing was begun
    runs     \* commands begun

vars == <<pc, args, conf, json, pos, file, given, runs>>

NoArgs == [files |-> <<>>, remotes |-> <<>>, url |-> None, upper |-> None, result |-> ""]
NoConf == [lowers |-> <<>>, upper |-> None, url |-> None, result |-> ""]

-----------------------------------------------------------------------------
(* The command line                                                        *)

\* (fault) str::rsplit_once
BeforeLast(s) == SubSeq(s, 1, SelectLastInSeq(s, LAMBDA t : t = "=") - 1)

\* str::split_once
Before(s) == SubSeq(s, 1, SelectInSeq(s, LAMBDA t : t = "=") - 1)

After(s) == SubSeq(s, SelectInSeq(s, LAMBDA t : t = "=") + 1, Len(s))

IsSize(s) == Len(s) = 1 /\ s[1] \in DOMAIN ByteCount

\* SIZE and SIZE=DIR
Size(rest) == IF Contains(rest, "=") THEN Before(rest) ELSE rest

Dir(rest) == IF Contains(rest, "=") THEN After(rest) ELSE <<>>

\* remote_lowers takes it, and Lower::remote the digest in it.
Accepted(spec) ==
    /\ Contains(spec, "=")
    /\ IsSize(Size(After(spec)))
    /\ Len(Before(spec)) > 0 /\ spec[1] = Sha
    /\ Contains(After(spec), "=") => Dir(After(spec)) # <<>>

\* (fault) no directory is an empty one
RemoteEmptyDir(spec) ==
    [digest |-> Before(spec), size |-> ByteCount[Size(After(spec))[1]],
     dir |-> Some(Dir(After(spec)))]

Remote(spec) ==
    [digest |-> Before(spec), size |-> ByteCount[Size(After(spec))[1]],
     dir |-> IF Dir(After(spec)) = <<>> THEN None ELSE Some(Dir(After(spec)))]

\* trim_end_matches('/')
Trim(url) == SubSeq(url, 1, SelectLastInSeq(url, LAMBDA t : t # "/"))

\* The builder calls of config(): every file lower, then every remote one.
Build(a) ==
    [lowers |-> [i \in DOMAIN a.files |-> [path |-> a.files[i]]]
                \o [i \in DOMAIN a.remotes |-> Remote(a.remotes[i])],
     url |-> IF a.url = None THEN None ELSE Some(Trim(a.url[1])),
     upper |-> a.upper,
     result |-> a.result]

-----------------------------------------------------------------------------
(* to_json                                                                 *)

IsRemote(lower) == "digest" \in DOMAIN lower

Renders(c) == (\E i \in DOMAIN c.lowers : IsRemote(c.lowers[i])) => c.url # None

\* path.display()
Display(path) == IF path \in Utf8Paths THEN path ELSE Lossy

Lower(lower) == IF IsRemote(lower) THEN lower ELSE [file |-> Display(lower.path)]

Upper(u) == [data |-> Display(u.data), index |-> Display(u.index)]

Json(c) ==
    <<[repoBlobUrl |-> c.url]>>
    \o [i \in DOMAIN c.lowers |-> Lower(c.lowers[i])]
    \o <<[upper |-> IF c.upper = None THEN None ELSE Some(Upper(c.upper[1])),
          resultFile |-> Display(c.result)]>>

\* What the daemon can parse: a head, lowers and a tail, and nothing else.
Parses(f) ==
    /\ Len(f) > 1
    /\ "repoBlobUrl" \in DOMAIN f[1] /\ "upper" \in DOMAIN f[Len(f)]
    /\ \A i \in 2..(Len(f) - 1) : DOMAIN f[i] \cap {"repoBlobUrl", "upper"} = {}

-----------------------------------------------------------------------------
(* The command                                                             *)

PCs == {"idle", "parse", "parent", "render", "open", "write", "ok", "refused"}

ConfigTypeOK ==
    /\ pc \in PCs
    /\ DOMAIN args = DOMAIN NoArgs /\ DOMAIN conf = DOMAIN NoConf
    /\ \A i \in DOMAIN conf.lowers : IsRemote(conf.lowers[i]) =>
          /\ conf.lowers[i].size \in Nat
          /\ conf.lowers[i].dir # Some(<<>>)
    /\ pos \in 0..Len(json) /\ runs \in 0..Commands
    /\ pc \in {"open", "write", "ok"} => json # <<>>
    /\ \A t \in given : Parses(t)

Init ==
    /\ pc = "idle" /\ args = NoArgs /\ conf = NoConf /\ json = <<>> /\ pos = 0
    /\ file = <<>> /\ given = {} /\ runs = 0

Goto(from, to) == pc = from /\ pc' = to

Begin ==
    /\ Goto("idle", "parse")
    /\ runs < Commands /\ runs' = runs + 1
    /\ \E a \in Inputs : args' = a
    /\ UNCHANGED <<conf, json, pos, file, given>>

AllAccepted == \A i \in DOMAIN args.remotes : Accepted(args.remotes[i])

ParseArgs ==
    /\ IF AllAccepted
       THEN Goto("parse", "parent") /\ conf' = Build(args)
       ELSE Goto("parse", "refused") /\ UNCHANGED conf
    /\ UNCHANGED <<args, json, pos, file, given, runs>>

CreateParent ==
    /\ Goto("parent", "render")
    /\ UNCHANGED <<args, conf, json, pos, file, given, runs>>

\* (fault) the old file goes before the new text is there
RenderLate ==
    /\ file' = <<>>
    /\ IF Renders(conf)
       THEN Goto("render", "open") /\ json' = Json(conf)
       ELSE Goto("render", "refused") /\ UNCHANGED json
    /\ UNCHANGED <<args, conf, pos, given, runs>>

\* MissingRepoBlobUrl, before the file is touched
Render ==
    /\ IF Renders(conf)
       THEN Goto("render", "open") /\ json' = Json(conf)
       ELSE Goto("render", "refused") /\ UNCHANGED json
    /\ UNCHANGED <<args, conf, pos, file, given, runs>>

\* (fault) opened without O_TRUNC
OpenOver ==
    /\ Goto("open", "write")
    /\ given' = given \cup {json}
    /\ UNCHANGED <<args, conf, json, pos, file, runs>>

\* fs::write opens the file O_TRUNC.
Open ==
    /\ Goto("open", "write")
    /\ file' = <<>>
    /\ given' = given \cup {json}
    /\ UNCHANGED <<args, conf, json, pos, runs>>

\* The next piece goes over what the file has at that place.
Write ==
    /\ pc = "write" /\ pos < Len(json)
    /\ file' = SubSeq(file, 1, pos) \o <<json[pos + 1]>> \o SubSeq(file, pos + 2, Len(file))
    /\ pos' = pos + 1
    /\ UNCHANGED <<pc, args, conf, json, given, runs>>

Written ==
    /\ pos = Len(json)
    /\ Goto("write", "ok")
    /\ UNCHANGED <<args, conf, json, pos, file, given, runs>>

\* The command ends, in whatever way: it returns, mkdir, open or write fail, or
\* it is killed.
End ==
    /\ pc \notin {"idle", "parse"}
    /\ pc' = "idle"
    /\ args' = NoArgs /\ conf' = NoConf /\ json' = <<>> /\ pos' = 0
    /\ UNCHANGED <<file, given, runs>>

Next ==
    \/ Begin \/ ParseArgs \/ CreateParent \/ Render \/ Open \/ Write \/ Written \/ End

Spec == Init /\ [][Next]_vars

-----------------------------------------------------------------------------
(* Correctness                                                             *)

\* What `DIGEST=SIZE[=DIR]` says, for a reader of the help text.
Says(spec, l) ==
    /\ l.digest # <<>> /\ l.digest[1] = Sha /\ ~Contains(l.digest, "=")
    /\ \E t \in DOMAIN ByteCount :
          /\ ByteCount[t] = l.size
          /\ spec = l.digest \o <<"=", t>>
                    \o (IF l.dir = None THEN <<>> ELSE <<"=">> \o l.dir[1])
    /\ l.dir # Some(<<>>)

\* The lowers a spec could stand for, cut anywhere.
Readings(spec) ==
    [digest : {SubSeq(spec, 1, i) : i \in 0..Len(spec)},
     size : {ByteCount[t] : t \in DOMAIN ByteCount},
     dir : {None} \cup {Some(SubSeq(spec, i, Len(spec))) : i \in 1..(Len(spec) + 1)}]

\* A command that ends well leaves a file that says what its options say: lowers
\* in their order, digests, sizes and directories cut where the help text cuts
\* them, directories with an `=` included, the upper's files in their roles, the
\* resultFile an up is going to wait for, and a URL to which /digest can be
\* appended.  One that refuses a spec was given one that says nothing.
WrittenAsSaid ==
    /\ pc = "ok" =>
         LET n == Len(args.files)
         IN  /\ Parses(file) /\ Len(file) = n + Len(args.remotes) + 2
             /\ \A i \in 1..n : args.files[i] \in Utf8Paths => file[i + 1].file = args.files[i]
             /\ \A i \in DOMAIN args.remotes : Says(args.remotes[i], file[n + i + 1])
             /\ args.remotes # <<>> =>
                   /\ file[1].repoBlobUrl # None
                   /\ \A j \in DOMAIN file[1].repoBlobUrl[1] :
                         j = Len(file[1].repoBlobUrl[1]) => file[1].repoBlobUrl[1][j] # "/"
             /\ args.upper # None /\ {args.upper[1].data, args.upper[1].index} \subseteq Utf8Paths
                   => file[Len(file)].upper = args.upper
             /\ args.result \in Utf8Paths => file[Len(file)].resultFile = args.result
    /\ pc = "refused" =>
         \/ args.remotes # <<>> /\ args.url = None
         \/ \E i \in DOMAIN args.remotes :
               \A l \in Readings(args.remotes[i]) : ~Says(args.remotes[i], l)

\* The daemon, whenever it opens the file, finds one it cannot read or one that a
\* command was to write: never a mixture of two, after whatever kills and failed
\* writes.
ReadsNoMixture == Parses(file) => file \in given

\* A command that is refused leaves the file of the one before it as it was: no
\* step of one whose options cannot be written touches it.
RefusedTouchesNothing ==
    [][file' # file =>
          /\ AllAccepted
          /\ args.remotes # <<>> => args.url # None]_vars

=============================================================================
