------------------------------ MODULE LayerTools ------------------------------
(***************************************************************************)
(* tools.rs: create_sparse_layer and commit_layer, calls that run a tool   *)
(* on the files of a layer, made by several shells at a time.  A call      *)
(* looks whether its outputs exist and then spawns the tool, which opens   *)
(* them O_EXCL.  A call that is killed leaves its tool running.            *)
(*                                                                         *)
(* The tools are not in the repository.  They are modelled by what the     *)
(* code says of them (tools.rs:119-126, 143-145): outputs are opened       *)
(* O_EXCL, one after the other; a tool that fails leaves what it made.     *)
(***************************************************************************)
EXTENDS Sequences

CONSTANTS
    Shells,    \* who runs commands, one at a time
    Tools,     \* tool processes there may be at a time
    Layers,    \* writable layers
    NoLayer,
    NoTool

ASSUME LayerAssumption == NoLayer \notin Layers /\ NoTool \notin Tools

VARIABLES
    call,     \* per shell, the call of the library it is in
    tool,     \* per tool process, what it is at
    file,     \* per layer and kind of file, the tool that made it; is it written?
    success   \* calls that returned Ok

layerVars == <<call, tool, file, success>>

Ops     == {"create", "commit"}
Kinds   == {"data", "index", "out"}
Outputs == [create |-> <<"data", "index">>, commit |-> <<"out">>]
OutputsOf(op) == {Outputs[op][i] : i \in DOMAIN Outputs[op]}

Absent == [by |-> NoTool, whole |-> FALSE]

\* left: the outputs still to look at, or to open.
Lefts == {<<>>, <<"data", "index">>, <<"index">>, <<"out">>}

Call ==
    [at : {"exists", "wait", "stat"}, op : Ops, layer : Layers, left : Lefts,
     tool : Tools \cup {NoTool}]
Process ==
    [at : {"open", "work", "ok", "failed"}, op : Ops, layer : Layers, left : Lefts]
NoCall == [at |-> "off"]
Off    == [at |-> "off"]

LayerTypeOK ==
    /\ call \in [Shells -> {NoCall} \cup Call]
    /\ tool \in [Tools -> {Off} \cup Process]
    /\ file \in [Layers -> [Kinds -> [by : Tools \cup {NoTool}, whole : BOOLEAN]]]
    /\ success \subseteq [tool : Tools, op : Ops, layer : Layers]

LayerInit ==
    /\ call = [s \in Shells |-> NoCall]
    /\ tool = [t \in Tools |-> Off]
    /\ file = [l \in Layers |-> [k \in Kinds |-> Absent]]
    /\ success = {}

-----------------------------------------------------------------------------
(* The calls                                                               *)

Return(s) == call' = [call EXCEPT ![s] = NoCall]

Ok(s) ==
    success' = success \cup {[tool |-> call[s].tool, op |-> call[s].op,
                              layer |-> call[s].layer]}

BeginCall(s, op, l) ==
    /\ call[s] = NoCall
    /\ call' = [call EXCEPT ![s] =
                   [at |-> "exists", op |-> op, layer |-> l, left |-> Outputs[op],
                    tool |-> NoTool]]
    /\ UNCHANGED <<tool, file, success>>

\* LayerExists, at the first output that is there
CheckExists(s) ==
    /\ call[s].at = "exists" /\ call[s].left # <<>>
    /\ IF file[call[s].layer][Head(call[s].left)] = Absent
       THEN call' = [call EXCEPT ![s].left = Tail(@)]
       ELSE Return(s)
    /\ UNCHANGED <<tool, file, success>>

\* find, then the spawn in run
Spawn(s) ==
    /\ call[s].at = "exists" /\ call[s].left = <<>>
    /\ \E t \in Tools :
          /\ tool[t] = Off
          /\ call' = [call EXCEPT ![s].at = "wait", ![s].tool = t]
          /\ tool' = [tool EXCEPT ![t] =
                         [at |-> "open", op |-> call[s].op, layer |-> call[s].layer,
                          left |-> Outputs[call[s].op]]]
    /\ UNCHANGED <<file, success>>

\* The parent directory, the binary or the process cannot be had.
SpawnFails(s) ==
    /\ call[s].at = "exists" /\ call[s].left = <<>>
    /\ Return(s)
    /\ UNCHANGED <<tool, file, success>>

\* Its tool has exited.
Waited(s) == call[s].at = "wait" /\ tool[call[s].tool].at \in {"ok", "failed"}

\* (fault) the exit status is not looked at
ToolEndsAnyhow(s) ==
    /\ Waited(s)
    /\ tool' = [tool EXCEPT ![call[s].tool] = Off]
    /\ Return(s)
    /\ Ok(s)
    /\ UNCHANGED file

\* run: a non-zero exit is an error; a commit has its size to read yet.
ToolEnds(s) ==
    /\ Waited(s)
    /\ tool' = [tool EXCEPT ![call[s].tool] = Off]
    /\ IF tool[call[s].tool].at = "failed" THEN Return(s) /\ UNCHANGED success
       ELSE IF call[s].op = "create" THEN Return(s) /\ Ok(s)
       ELSE call' = [call EXCEPT ![s].at = "stat"] /\ UNCHANGED success
    /\ UNCHANGED file

StatOutput(s) ==
    /\ call[s].at = "stat"
    /\ Return(s)
    /\ Ok(s)
    /\ UNCHANGED <<tool, file>>

\* SIGKILL of the command alone: its tool goes on.
KillCall(s) ==
    /\ call[s] # NoCall
    /\ Return(s)
    /\ UNCHANGED <<tool, file, success>>

LayerStep(s) ==
    CheckExists(s) \/ Spawn(s) \/ SpawnFails(s) \/ ToolEnds(s) \/ StatOutput(s)

-----------------------------------------------------------------------------
(* The tools                                                               *)

\* A commit opens its inputs first.
InputsExist(j) ==
    j.op = "create" \/ \A k \in {"data", "index"} : file[j.layer][k] # Absent

ToolOpens(t) ==
    /\ tool[t].at = "open" /\ InputsExist(tool[t])
    /\ LET j == tool[t]
       IN  /\ file[j.layer][Head(j.left)] = Absent
           /\ file' = [file EXCEPT ![j.layer][Head(j.left)] = [by |-> t, whole |-> FALSE]]
           /\ tool' = [tool EXCEPT ![t].left = Tail(@),
                                   ![t].at = IF Tail(j.left) = <<>> THEN "work" ELSE "open"]
    /\ UNCHANGED <<call, success>>

ToolWrites(t) ==
    /\ tool[t].at = "work"
    /\ file' = [file EXCEPT ![tool[t].layer] =
                   [k \in Kinds |-> IF k \in OutputsOf(tool[t].op)
                                    THEN [@[k] EXCEPT !.whole = TRUE] ELSE @[k]]]
    /\ tool' = [tool EXCEPT ![t].at = "ok"]
    /\ UNCHANGED <<call, success>>

\* An output is there, an input is not, the disk is full, the tool is killed.
ToolFails(t) ==
    /\ tool[t].at \in {"open", "work"}
    /\ tool' = [tool EXCEPT ![t].at = "failed", ![t].left = <<>>]
    /\ UNCHANGED <<call, file, success>>

\* Nobody waits for it any more.
OrphanEnds(t) ==
    /\ tool[t].at \in {"ok", "failed"}
    /\ \A s \in Shells : call[s].at = "wait" => call[s].tool # t
    /\ tool' = [tool EXCEPT ![t] = Off]
    /\ UNCHANGED <<call, file, success>>

ToolStep(t) == ToolOpens(t) \/ ToolWrites(t) \/ ToolFails(t) \/ OrphanEnds(t)

-----------------------------------------------------------------------------
(* Correctness                                                             *)

\* A call that returned Ok wrote every one of its outputs itself, to the end: two
\* calls that race for one path, a tool that fails halfway or a rerun over what
\* an earlier one left never end in a success over somebody else's file.
OutputsAreOwn ==
    \A c \in success : \A k \in OutputsOf(c.op) :
        file[c.layer][k] = [by |-> c.tool, whole |-> TRUE]

Created(l) == \E c \in success : c.op = "create" /\ c.layer = l

Reads(t, l) ==
    tool[t].at = "work" /\ tool[t].op = "commit" /\ tool[t].layer = l

=============================================================================
