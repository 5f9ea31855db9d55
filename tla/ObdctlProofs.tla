---------------------------- MODULE ObdctlProofs ----------------------------
(***************************************************************************)
(* For any number of shells, tools, layers and devices: a layer command    *)
(* that succeeds made its outputs itself.  A file is claimed by the tool   *)
(* that opens it O_EXCL and never changes hands; the rest is to know, for  *)
(* each tool and each call that waits for one, how far its outputs are.    *)
(***************************************************************************)
EXTENDS Obdctl, TLAPS

USE LayerAssumption

-----------------------------------------------------------------------------
(* The invariant                                                           *)

\* The outputs of op on l are files of tool t, or were also written to the end.
Opened(t, op, l) == \A k \in OutputsOf(op) : file[l][k].by = t
Whole(t)         == [by |-> t, whole |-> TRUE]
Made(t, op, l)   == \A k \in OutputsOf(op) : file[l][k] = Whole(t)

ToolOwns(t) ==
    /\ tool[t].at = "open" =>
          \/ tool[t].left = Outputs[tool[t].op]
          \/ /\ tool[t].op = "create" /\ tool[t].left = <<"index">>
             /\ file[tool[t].layer]["data"].by = t
    /\ tool[t].at = "work" => Opened(t, tool[t].op, tool[t].layer)
    /\ tool[t].at = "ok" => Made(t, tool[t].op, tool[t].layer)

ToolsOwn == \A t \in Tools : ToolOwns(t)

\* A call waits for a tool of its own that does what the call is to do.
CallsWait ==
    \A s \in Shells :
        call[s].at = "wait" =>
            /\ call[s].tool \in Tools
            /\ tool[call[s].tool] # Off
            /\ tool[call[s].tool].op = call[s].op
            /\ tool[call[s].tool].layer = call[s].layer
            /\ \A r \in Shells \ {s} : call[r].at = "wait" => call[r].tool # call[s].tool

CallsStat ==
    \A s \in Shells :
        call[s].at = "stat" =>
            call[s].tool \in Tools /\ Made(call[s].tool, call[s].op, call[s].layer)

LIInv == LayerTypeOK /\ ToolsOwn /\ CallsWait /\ CallsStat /\ OutputsAreOwn

LEMMA OutputsFact ==
    /\ OutputsOf("create") = {"data", "index"}
    /\ OutputsOf("commit") = {"out"}
    /\ Outputs["create"] = <<"data", "index">>
    /\ Outputs["commit"] = <<"out">>
    /\ \A op \in Ops : OutputsOf(op) \subseteq Kinds /\ Outputs[op] \in Lefts
  BY DEF OutputsOf, Outputs, Ops, Kinds, Lefts

LEMMA LeftsFact ==
    ASSUME NEW x \in Lefts, x # <<>>
    PROVE  /\ Head(x) \in Kinds /\ Tail(x) \in Lefts
           /\ x = <<"data", "index">> => Head(x) = "data" /\ Tail(x) = <<"index">>
           /\ x = <<"index">> => Head(x) = "index" /\ Tail(x) = <<>>
           /\ x = <<"out">> => Head(x) = "out" /\ Tail(x) = <<>>
<1>1. /\ Head(<<"data", "index">>) = "data" /\ Tail(<<"data", "index">>) = <<"index">>
      /\ Head(<<"index">>) = "index" /\ Tail(<<"index">>) = <<>>
      /\ Head(<<"out">>) = "out" /\ Tail(<<"out">>) = <<>>
  OBVIOUS
<1>2. x = <<"data", "index">> \/ x = <<"index">> \/ x = <<"out">>
  BY Zenon DEF Lefts
<1>3. Head(x) \in Kinds /\ Tail(x) \in Lefts
  BY <1>1, <1>2, Zenon DEF Lefts, Kinds
<1> QED
  BY <1>1, <1>3, Zenon

Record == [by : Tools \cup {NoTool}, whole : BOOLEAN]

LEMMA WrittenRecord ==
    ASSUME NEW r \in Record
    PROVE  /\ [r EXCEPT !.whole = TRUE] = Whole(r.by)
           /\ Whole(r.by) \in Record
           /\ r.whole => r = Whole(r.by)
<1>0. \A q \in Record : q = [by |-> q.by, whole |-> q.whole]
  BY DEF Record
<1>1. r = [by |-> r.by, whole |-> r.whole] /\ r.by \in Tools \cup {NoTool} /\ r.whole \in BOOLEAN
  BY <1>0 DEF Record
<1>2. Whole(r.by) \in Record
  BY <1>1 DEF Record, Whole
<1>3. ASSUME r.whole PROVE r = Whole(r.by)
  <2>1. r.whole = TRUE
    BY <1>1, <1>3
  <2> QED
    BY <1>1, <2>1, Zenon DEF Whole
<1>4. [r EXCEPT !.whole = TRUE] = Whole(r.by)
  <2>1. [r EXCEPT !.whole = TRUE] \in Record
    BY DEF Record
  <2>2. [r EXCEPT !.whole = TRUE].by = r.by /\ [r EXCEPT !.whole = TRUE].whole = TRUE
    BY DEF Record
  <2> QED
    BY <1>0, <2>1, <2>2, Zenon DEF Whole
<1> QED
  BY <1>2, <1>3, <1>4

LEMMA LayerInitOwn == LayerInit => LIInv
  BY DEF LayerInit, LIInv, LayerTypeOK, ToolsOwn, ToolOwns, CallsWait, CallsStat, OutputsAreOwn,
         NoCall, Off, Absent

-----------------------------------------------------------------------------
(* The calls                                                               *)

LEMMA CallTypes ==
    ASSUME LayerTypeOK, NEW s \in Shells, call[s].at # "off"
    PROVE  call[s] \in Call
  BY DEF LayerTypeOK, NoCall

LEMMA ToolTypes ==
    ASSUME LayerTypeOK, NEW t \in Tools, tool[t].at # "off"
    PROVE  tool[t] \in Process
  BY DEF LayerTypeOK, Off

\* Steps that leave tools and files alone and begin no wait.
LEMMA CallStepOwn ==
    ASSUME LIInv, NEW s \in Shells, UNCHANGED <<tool, file, success>>,
           NEW c, c \in {NoCall} \cup Call, c.at \notin {"wait", "stat"},
           call' = [call EXCEPT ![s] = c]
    PROVE  LIInv'
<1> USE DEF LIInv
<1>1. LayerTypeOK'
  BY DEF LayerTypeOK
<1>2. ToolsOwn' /\ OutputsAreOwn'
  BY DEF ToolsOwn, ToolOwns, OutputsAreOwn, Opened, Made
<1>3. \A r \in Shells : call'[r] = call[r] \/ call'[r].at \notin {"wait", "stat"}
  BY DEF LayerTypeOK
<1>4. CallsWait' /\ CallsStat'
  BY <1>3 DEF CallsWait, CallsStat, Made
<1> QED
  BY <1>1, <1>2, <1>4

LEMMA BeginCallOwn ==
    ASSUME LIInv, NEW s \in Shells, NEW op \in Ops, NEW l \in Layers, BeginCall(s, op, l)
    PROVE  LIInv'
<1> DEFINE c == [at |-> "exists", op |-> op, layer |-> l, left |-> Outputs[op], tool |-> NoTool]
<1>1. c \in Call
  BY OutputsFact DEF Call
<1>2. c.at \notin {"wait", "stat"}
  OBVIOUS
<1>3. call' = [call EXCEPT ![s] = c] /\ UNCHANGED <<tool, file, success>>
  BY DEF BeginCall
<1> HIDE DEF c
<1> QED
  BY <1>1, <1>2, <1>3, CallStepOwn

LEMMA ReturnOwn ==
    ASSUME LIInv, NEW s \in Shells, Return(s), UNCHANGED <<tool, file, success>>
    PROVE  LIInv'
<1>1. NoCall.at \notin {"wait", "stat"}
  BY DEF NoCall
<1> QED
  BY <1>1, CallStepOwn DEF Return

LEMMA CheckExistsOwn ==
    ASSUME LIInv, NEW s \in Shells, CheckExists(s)
    PROVE  LIInv'
<1>1. CASE Return(s)
  BY <1>1, ReturnOwn DEF CheckExists
<1>2. CASE call' = [call EXCEPT ![s].left = Tail(@)]
  <2> DEFINE c == [call[s] EXCEPT !.left = Tail(@)]
  <2>1. call[s] \in Call /\ call[s].at = "exists" /\ Tail(call[s].left) \in Lefts
    BY CallTypes, LeftsFact DEF CheckExists, LIInv, Call
  <2>2. c \in Call /\ c.at = "exists"
    BY <2>1 DEF Call
  <2>3. call' = [call EXCEPT ![s] = c] /\ UNCHANGED <<tool, file, success>>
    BY <1>2, <2>1 DEF CheckExists
  <2> HIDE DEF c
  <2> QED
    BY <2>2, <2>3, CallStepOwn
<1> QED
  BY <1>1, <1>2 DEF CheckExists

LEMMA SpawnOwn ==
    ASSUME LIInv, NEW s \in Shells, Spawn(s)
    PROVE  LIInv'
<1> USE DEF LIInv
<1>1. PICK t \in Tools :
          /\ tool[t] = Off
          /\ call' = [call EXCEPT ![s].at = "wait", ![s].tool = t]
          /\ tool' = [tool EXCEPT ![t] =
                         [at |-> "open", op |-> call[s].op, layer |-> call[s].layer,
                          left |-> Outputs[call[s].op]]]
  BY DEF Spawn
<1>2. call[s] \in Call /\ call[s].at = "exists"
  BY CallTypes DEF Spawn
<1>3. /\ call'[s] = [call[s] EXCEPT !.at = "wait", !.tool = t]
      /\ \A r \in Shells \ {s} : call'[r] = call[r]
  BY <1>1 DEF LayerTypeOK
<1>4. /\ call'[s] \in Call
      /\ call'[s].at = "wait" /\ call'[s].tool = t
      /\ call'[s].op = call[s].op /\ call'[s].layer = call[s].layer
  BY <1>2, <1>3 DEF Call
<1>5. /\ tool'[t] = [at |-> "open", op |-> call[s].op, layer |-> call[s].layer,
                     left |-> Outputs[call[s].op]]
      /\ \A u \in Tools \ {t} : tool'[u] = tool[u]
  BY <1>1 DEF LayerTypeOK
<1>6. tool'[t] \in Process /\ tool'[t] # Off
  BY <1>2, <1>5, OutputsFact DEF Call, Process, Off
<1>7. UNCHANGED <<file, success>>
  BY DEF Spawn
<1>8. LayerTypeOK'
  <2>1. \A r \in Shells : call'[r] \in {NoCall} \cup Call
    BY <1>3, <1>4 DEF LayerTypeOK
  <2>2. \A u \in Tools : tool'[u] \in {Off} \cup Process
    BY <1>5, <1>6 DEF LayerTypeOK
  <2> QED
    BY <1>1, <1>7, <2>1, <2>2 DEF LayerTypeOK
<1>9. ToolsOwn'
  BY <1>5, <1>7 DEF ToolsOwn, ToolOwns, Opened, Made
<1>10. CallsWait'
  <2>1. \A r \in Shells \ {s} : call[r].at = "wait" =>
           call[r].tool \in Tools \ {t}
    BY <1>1 DEF CallsWait
  <2>2. ASSUME NEW r \in Shells \ {s}, call'[r].at = "wait"
        PROVE  /\ call'[r].tool \in Tools
               /\ tool'[call'[r].tool] # Off
               /\ tool'[call'[r].tool].op = call'[r].op
               /\ tool'[call'[r].tool].layer = call'[r].layer
               /\ \A q \in Shells \ {r} : call'[q].at = "wait" => call'[q].tool # call'[r].tool
    <3>1. r \in Shells /\ call[r].at = "wait" /\ call'[r] = call[r]
      BY <1>3, <2>2
    <3>2. call[r].tool \in Tools \ {t} /\ tool'[call[r].tool] = tool[call[r].tool]
      BY <1>5, <2>1, <3>1
    <3>3. /\ tool[call[r].tool] # Off
          /\ tool[call[r].tool].op = call[r].op
          /\ tool[call[r].tool].layer = call[r].layer
          /\ \A q \in Shells \ {r} : call[q].at = "wait" => call[q].tool # call[r].tool
      BY <3>1 DEF CallsWait
    <3>4. \A q \in Shells \ {r} : call'[q].at = "wait" => call'[q].tool # call'[r].tool
      BY <1>3, <1>4, <3>1, <3>2, <3>3
    <3> QED
      BY <3>1, <3>2, <3>3, <3>4
  <2>3. /\ tool'[t].op = call'[s].op /\ tool'[t].layer = call'[s].layer
        /\ \A q \in Shells \ {s} : call'[q].at = "wait" => call'[q].tool # t
    BY <1>3, <1>4, <1>5, <2>1
  <2> QED
    BY <1>4, <1>6, <2>2, <2>3 DEF CallsWait
<1>11. CallsStat' /\ OutputsAreOwn'
  <2>1. \A r \in Shells : call'[r].at = "stat" => call[r] = call'[r]
    BY <1>3, <1>4
  <2> QED
    BY <1>7, <2>1 DEF CallsStat, OutputsAreOwn, Made
<1> QED
  BY <1>8, <1>9, <1>10, <1>11

LEMMA ToolEndsOwn ==
    ASSUME LIInv, NEW s \in Shells, ToolEnds(s)
    PROVE  LIInv'
<1> USE DEF LIInv
<1> DEFINE t == call[s].tool
<1>1. /\ call[s] \in Call /\ call[s].at = "wait" /\ t \in Tools
      /\ tool[t].at \in {"ok", "failed"}
      /\ tool' = [tool EXCEPT ![t] = Off]
      /\ file' = file
  BY CallTypes DEF ToolEnds, Waited, CallsWait
<1>2. tool'[t] = Off /\ \A u \in Tools \ {t} : tool'[u] = tool[u]
  BY <1>1 DEF LayerTypeOK
<1>3. ToolsOwn'
  BY <1>1, <1>2 DEF ToolsOwn, ToolOwns, Off, Opened, Made
<1>4. tool' \in [Tools -> {Off} \cup Process]
  BY <1>1 DEF LayerTypeOK
<1>5. \A r \in Shells \ {s} : call[r].at = "wait" => call[r].tool # t
  BY <1>1 DEF CallsWait
<1>6. tool[t].at = "ok" => Made(t, call[s].op, call[s].layer)
  BY <1>1 DEF ToolsOwn, ToolOwns, CallsWait
<1>7. CASE Return(s)
  <2>1. call'[s] = NoCall /\ \A r \in Shells \ {s} : call'[r] = call[r]
    BY <1>7 DEF Return, LayerTypeOK
  <2>2. CallsWait' /\ CallsStat'
    BY <1>1, <1>2, <1>5, <2>1 DEF CallsWait, CallsStat, NoCall, Made
  <2>3. call' \in [Shells -> {NoCall} \cup Call]
    BY <1>7 DEF Return, LayerTypeOK
  <2>4. CASE UNCHANGED success
    BY <1>1, <1>3, <1>4, <2>2, <2>3, <2>4 DEF LayerTypeOK, OutputsAreOwn
  <2>5. CASE tool[t].at = "ok" /\ Ok(s)
    <3> DEFINE c == [tool |-> t, op |-> call[s].op, layer |-> call[s].layer]
    <3>1. success' = success \cup {c} /\ c \in [tool : Tools, op : Ops, layer : Layers]
      BY <1>1, <2>5 DEF Ok, Call
    <3>2. \A k \in OutputsOf(c.op) : file[c.layer][k] = [by |-> c.tool, whole |-> TRUE]
      BY <1>6, <2>5 DEF Made, Whole
    <3> HIDE DEF c
    <3>3. OutputsAreOwn'
      BY <1>1, <3>1, <3>2 DEF OutputsAreOwn
    <3> QED
      BY <1>1, <1>3, <1>4, <2>2, <2>3, <3>1, <3>3 DEF LayerTypeOK
  <2> QED
    BY <1>1, <1>7, <2>4, <2>5 DEF ToolEnds
<1>8. CASE /\ tool[t].at = "ok"
           /\ call' = [call EXCEPT ![s].at = "stat"] /\ UNCHANGED success
  <2>1. /\ call'[s] = [call[s] EXCEPT !.at = "stat"]
        /\ \A r \in Shells \ {s} : call'[r] = call[r]
    BY <1>8 DEF LayerTypeOK
  <2>2. /\ call'[s] \in Call /\ call'[s].at = "stat" /\ call'[s].tool = t
        /\ call'[s].op = call[s].op /\ call'[s].layer = call[s].layer
    BY <1>1, <2>1 DEF Call
  <2>3. CallsWait'
    <3>1. \A r \in Shells : call'[r].at = "wait" => call'[r] = call[r] /\ call[r].tool # t
      BY <1>5, <2>1, <2>2
    <3> QED
      BY <1>2, <3>1 DEF CallsWait
  <2>4. CallsStat'
    <3>1. \A r \in Shells \ {s} :
             call'[r].at = "stat" => call'[r].tool \in Tools
                                     /\ Made(call'[r].tool, call'[r].op, call'[r].layer)
      BY <2>1 DEF CallsStat
    <3>2. \A r \in Shells :
             call'[r].at = "stat" => call'[r].tool \in Tools
                                     /\ Made(call'[r].tool, call'[r].op, call'[r].layer)
      BY <1>1, <1>6, <1>8, <2>2, <3>1
    <3> QED
      BY <1>1, <3>2 DEF CallsStat, Made
  <2>5. LayerTypeOK' /\ OutputsAreOwn'
    <3>1. \A r \in Shells : call'[r] \in {NoCall} \cup Call
      BY <2>1, <2>2 DEF LayerTypeOK
    <3> QED
      BY <1>1, <1>4, <1>8, <3>1 DEF LayerTypeOK, OutputsAreOwn
  <2> QED
    BY <1>3, <2>3, <2>4, <2>5
<1> QED
  BY <1>1, <1>7, <1>8 DEF ToolEnds

LEMMA StatOutputOwn ==
    ASSUME LIInv, NEW s \in Shells, StatOutput(s)
    PROVE  LIInv'
<1> USE DEF LIInv
<1> DEFINE c == [tool |-> call[s].tool, op |-> call[s].op, layer |-> call[s].layer]
<1>1. call[s] \in Call /\ call[s].tool \in Tools /\ Made(c.tool, c.op, c.layer)
  BY CallTypes DEF StatOutput, CallsStat
<1>2. /\ success' = success \cup {c} /\ UNCHANGED <<tool, file>>
      /\ c \in [tool : Tools, op : Ops, layer : Layers]
  BY <1>1 DEF StatOutput, Ok, Call
<1>3. call' = [call EXCEPT ![s] = NoCall]
  BY DEF StatOutput, Return
<1> HIDE DEF c
<1>4. call'[s] = NoCall /\ \A r \in Shells \ {s} : call'[r] = call[r]
  BY <1>3 DEF LayerTypeOK
<1>5. CallsWait' /\ CallsStat'
  BY <1>2, <1>4 DEF CallsWait, CallsStat, NoCall, Made
<1>6. OutputsAreOwn'
  BY <1>1, <1>2 DEF OutputsAreOwn, Made, Whole
<1>7. LayerTypeOK' /\ ToolsOwn'
  BY <1>2, <1>3 DEF LayerTypeOK, ToolsOwn, ToolOwns, Opened, Made
<1> QED
  BY <1>5, <1>6, <1>7

-----------------------------------------------------------------------------
(* The tools                                                               *)

\* A step of a tool that leaves the files alone and claims nothing more.
LEMMA ToolStopsOwn ==
    ASSUME LIInv, NEW t \in Tools, UNCHANGED <<call, file, success>>,
           NEW u, u \in {Off} \cup Process, u.at \in {"off", "failed"},
           tool' = [tool EXCEPT ![t] = u],
           \A s \in Shells : call[s].at = "wait" /\ call[s].tool = t =>
               u # Off /\ u.op = tool[t].op /\ u.layer = tool[t].layer
    PROVE  LIInv'
<1> USE DEF LIInv
<1>1. tool'[t] = u /\ \A v \in Tools \ {t} : tool'[v] = tool[v]
  BY DEF LayerTypeOK
<1>2. LayerTypeOK' /\ CallsStat' /\ OutputsAreOwn'
  BY DEF LayerTypeOK, CallsStat, OutputsAreOwn, Made
<1>3. ToolsOwn'
  BY <1>1 DEF ToolsOwn, ToolOwns, Opened, Made
<1>4. CallsWait'
  BY <1>1 DEF CallsWait
<1> QED
  BY <1>2, <1>3, <1>4

LEMMA ToolFailsOwn ==
    ASSUME LIInv, NEW t \in Tools, ToolFails(t)
    PROVE  LIInv'
<1> DEFINE u == [tool[t] EXCEPT !.at = "failed", !.left = <<>>]
<1>1. tool[t] \in Process
  BY ToolTypes DEF ToolFails, LIInv
<1>2. /\ u \in Process /\ u.at = "failed"
      /\ u.op = tool[t].op /\ u.layer = tool[t].layer
  BY <1>1 DEF Process, Lefts
<1>3. u # Off
  BY <1>2 DEF Off
<1>4. tool' = [tool EXCEPT ![t] = u] /\ UNCHANGED <<call, file, success>>
  BY <1>1 DEF ToolFails
<1> HIDE DEF u
<1> QED
  BY <1>2, <1>3, <1>4, ToolStopsOwn

LEMMA OrphanEndsOwn ==
    ASSUME LIInv, NEW t \in Tools, OrphanEnds(t)
    PROVE  LIInv'
<1>1. Off.at \in {"off", "failed"}
  BY DEF Off
<1> QED
  BY <1>1, ToolStopsOwn DEF OrphanEnds

\* What tool t does to files that are its own, or nobody's.
LEMMA OtherToolsKeep ==
    ASSUME LIInv, NEW t \in Tools, UNCHANGED <<call, success>>,
           \A u \in Tools \ {t} : tool'[u] = tool[u],
           \A l \in Layers, k \in Kinds :
               \/ file'[l][k] = file[l][k]
               \/ file[l][k] = Absent
               \/ /\ file[l][k].by = t
                  /\ file'[l][k].by = t
                  /\ file[l][k].whole => file'[l][k] = file[l][k]
    PROVE  /\ CallsStat' /\ OutputsAreOwn'
           /\ \A u \in Tools \ {t} : ToolOwns(u)'
<1> USE DEF LIInv
<1>1. \A u \in Tools, l \in Layers, k \in Kinds :
         /\ file[l][k].by = u => file'[l][k].by = u
         /\ file[l][k] = Whole(u) => file'[l][k] = Whole(u)
  BY DEF Absent, Whole
<1>2. \A u \in Tools, op \in Ops, l \in Layers :
         /\ Opened(u, op, l) => Opened(u, op, l)'
         /\ Made(u, op, l) => Made(u, op, l)'
  <2> SUFFICES ASSUME NEW u \in Tools, NEW op \in Ops, NEW l \in Layers
               PROVE  /\ Opened(u, op, l) => Opened(u, op, l)'
                      /\ Made(u, op, l) => Made(u, op, l)'
    OBVIOUS
  <2>1. OutputsOf(op) \subseteq Kinds
    BY OutputsFact
  <2>2. Opened(u, op, l) => Opened(u, op, l)'
    BY <1>1, <2>1 DEF Opened
  <2>3. Made(u, op, l) => Made(u, op, l)'
    BY <1>1, <2>1 DEF Made
  <2> QED
    BY <2>2, <2>3
<1>3. CallsStat'
  BY <1>2, CallTypes DEF CallsStat, Call
<1>4. \A c \in success : Made(c.tool, c.op, c.layer)
  BY DEF OutputsAreOwn, Made, Whole
<1>5. OutputsAreOwn'
  <2>1. \A c \in success : c.tool \in Tools /\ c.op \in Ops /\ c.layer \in Layers
    BY DEF LayerTypeOK
  <2>2. \A c \in success : Made(c.tool, c.op, c.layer)'
    BY <1>2, <1>4, <2>1
  <2> QED
    BY <2>2 DEF OutputsAreOwn, Made, Whole
<1>6. ASSUME NEW u \in Tools \ {t} PROVE ToolOwns(u)'
  <2>1. /\ tool'[u] = tool[u]
        /\ tool[u].at # "off" => tool[u].op \in Ops /\ tool[u].layer \in Layers
    BY ToolTypes DEF Process
  <2>2. CASE tool[u].at = "open"
    <3>1. "data" \in Kinds
      BY DEF Kinds
    <3> QED
      BY <1>1, <2>1, <2>2, <3>1 DEF ToolsOwn, ToolOwns
  <2>3. CASE tool[u].at = "work"
    BY <1>2, <2>1, <2>3 DEF ToolsOwn, ToolOwns, Opened
  <2>4. CASE tool[u].at = "ok"
    BY <1>2, <2>1, <2>4 DEF ToolsOwn, ToolOwns, Made
  <2>5. CASE tool[u].at \notin {"open", "work", "ok"}
    BY <2>1, <2>5 DEF ToolOwns
  <2> QED
    BY <2>2, <2>3, <2>4, <2>5
<1> QED
  BY <1>3, <1>5, <1>6

LEMMA ToolWritesOwn ==
    ASSUME LIInv, NEW t \in Tools, ToolWrites(t)
    PROVE  LIInv'
<1> USE DEF LIInv
<1> DEFINE l == tool[t].layer
           outs == OutputsOf(tool[t].op)
<1>1. /\ tool[t] \in Process /\ tool[t].at = "work"
      /\ l \in Layers /\ tool[t].op \in Ops
      /\ outs \subseteq Kinds
      /\ Opened(t, tool[t].op, l)
      /\ UNCHANGED <<call, success>>
  BY ToolTypes, OutputsFact DEF ToolWrites, Process, ToolsOwn, ToolOwns
<1>2. /\ tool'[t] = [tool[t] EXCEPT !.at = "ok"]
      /\ \A u \in Tools \ {t} : tool'[u] = tool[u]
  BY DEF ToolWrites, LayerTypeOK
<1>3. /\ tool'[t] \in Process /\ tool'[t].at = "ok"
      /\ tool'[t].op = tool[t].op /\ tool'[t].layer = l
  BY <1>1, <1>2 DEF Process
<1>4. file' = [file EXCEPT ![l] = [k \in Kinds |-> IF k \in outs
                                                   THEN [file[l][k] EXCEPT !.whole = TRUE]
                                                   ELSE file[l][k]]]
  BY <1>1 DEF ToolWrites, LayerTypeOK
<1> HIDE DEF outs
<1>5. \A k \in Kinds :
         file'[l][k] = IF k \in outs THEN Whole(t) ELSE file[l][k]
  <2>1. \A k \in outs : file[l][k] \in Record /\ file[l][k].by = t
    BY <1>1 DEF Opened, LayerTypeOK, Record, outs
  <2>2. \A k \in outs : [file[l][k] EXCEPT !.whole = TRUE] = Whole(t)
    BY <2>1, WrittenRecord
  <2>3. \A k \in Kinds :
           file'[l][k] = IF k \in outs THEN [file[l][k] EXCEPT !.whole = TRUE] ELSE file[l][k]
    BY <1>1, <1>4 DEF LayerTypeOK
  <2> QED
    BY <2>2, <2>3
<1>6. \A m \in Layers \ {l} : file'[m] = file[m]
  BY <1>1, <1>4 DEF LayerTypeOK
<1>7. file' \in [Layers -> [Kinds -> Record]]
  <2> DEFINE g == [k \in Kinds |-> IF k \in outs THEN [file[l][k] EXCEPT !.whole = TRUE]
                                   ELSE file[l][k]]
  <2>1. file'[l] = g
    BY <1>1, <1>4 DEF LayerTypeOK, Record
  <2>2. \A k \in Kinds : g[k] \in Record
    <3>1. Whole(t) \in Record
      BY DEF Whole, Record
    <3>2. \A k \in Kinds : file[l][k] \in Record
      BY <1>1 DEF LayerTypeOK, Record
    <3>3. \A k \in Kinds : g[k] = IF k \in outs THEN Whole(t) ELSE file[l][k]
      <4> HIDE DEF g
      <4> QED
        BY <1>5, <2>1
    <3> HIDE DEF g
    <3> QED
      BY <3>1, <3>2, <3>3
  <2>3. g \in [Kinds -> Record]
    BY <2>2
  <2>4. file' = [file EXCEPT ![l] = g]
    BY <1>4
  <2> HIDE DEF g
  <2> QED
    BY <1>1, <2>3, <2>4 DEF LayerTypeOK, Record
<1>8. \A k \in outs : file'[l][k] = Whole(t)
  BY <1>1, <1>5
<1>9. \A m \in Layers, k \in Kinds :
          \/ file'[m][k] = file[m][k]
          \/ file[m][k] = Absent
          \/ /\ file[m][k].by = t
             /\ file'[m][k].by = t
             /\ file[m][k].whole => file'[m][k] = file[m][k]
  <2>1. ASSUME NEW k \in outs
        PROVE  /\ file[l][k].by = t
               /\ file'[l][k].by = t
               /\ file[l][k].whole => file'[l][k] = file[l][k]
    <3>1. k \in Kinds /\ file[l][k] \in Record /\ file[l][k].by = t
      BY <1>1 DEF Opened, LayerTypeOK, Record, outs
    <3>2. file'[l][k] = Whole(t) /\ (file[l][k].whole => file[l][k] = Whole(t))
      BY <1>5, <3>1, WrittenRecord
    <3> QED
      BY <3>1, <3>2 DEF Whole
  <2>2. \A k \in Kinds \ outs : file'[l][k] = file[l][k]
    BY <1>5
  <2> QED
    BY <1>6, <2>1, <2>2
<1>10. ToolsOwn'
  <2>1. \A u \in Tools \ {t} : ToolOwns(u)'
    BY <1>1, <1>2, <1>9, OtherToolsKeep
  <2>2. ToolOwns(t)'
    BY <1>3, <1>8 DEF ToolOwns, Made, outs
  <2> QED
    BY <2>1, <2>2 DEF ToolsOwn
<1>11. CallsWait'
  BY <1>1, <1>2, <1>3 DEF CallsWait, Off, Process
<1>12. LayerTypeOK'
  <2>1. \A u \in Tools : tool'[u] \in {Off} \cup Process
    BY <1>2, <1>3 DEF LayerTypeOK
  <2>2. tool' \in [Tools -> {Off} \cup Process]
    BY <2>1 DEF ToolWrites, LayerTypeOK
  <2> QED
    BY <1>1, <1>7, <2>2 DEF LayerTypeOK, Record
<1> QED
  BY <1>1, <1>2, <1>9, <1>10, <1>11, <1>12, OtherToolsKeep

LEMMA ToolOpensOwn ==
    ASSUME LIInv, NEW t \in Tools, ToolOpens(t)
    PROVE  LIInv'
<1> USE DEF LIInv
<1> DEFINE l == tool[t].layer
           k == Head(tool[t].left)
           mine == [by |-> t, whole |-> FALSE]
           at2 == IF Tail(tool[t].left) = <<>> THEN "work" ELSE "open"
<1>1. /\ tool[t] \in Process /\ tool[t].at = "open"
      /\ l \in Layers /\ tool[t].op \in Ops /\ tool[t].left \in Lefts
      /\ \/ tool[t].op = "create" /\ tool[t].left = <<"data", "index">>
         \/ /\ tool[t].op = "create" /\ tool[t].left = <<"index">>
            /\ file[l]["data"].by = t
         \/ tool[t].op = "commit" /\ tool[t].left = <<"out">>
      /\ UNCHANGED <<call, success>>
  <2>1. tool[t] \in Process /\ tool[t].at = "open"
    BY ToolTypes DEF ToolOpens
  <2> QED
    BY <2>1, OutputsFact DEF ToolOpens, ToolsOwn, ToolOwns, Process, Ops
<1>2. k \in Kinds /\ Tail(tool[t].left) \in Lefts
  BY <1>1, LeftsFact
<1>3. /\ file[l][k] = Absent
      /\ file' = [file EXCEPT ![l][k] = mine]
      /\ tool' = [tool EXCEPT ![t].left = Tail(@), ![t].at = at2]
  BY DEF ToolOpens
<1>4. /\ tool'[t] = [tool[t] EXCEPT !.left = Tail(@), !.at = at2]
      /\ \A u \in Tools \ {t} : tool'[u] = tool[u]
  BY <1>3 DEF LayerTypeOK
<1>5. /\ tool'[t] \in Process /\ tool'[t].at = at2 /\ tool'[t].left = Tail(tool[t].left)
      /\ tool'[t].op = tool[t].op /\ tool'[t].layer = l
  BY <1>1, <1>2, <1>4 DEF Process
<1>6. /\ file'[l][k] = mine
      /\ \A j \in Kinds \ {k} : file'[l][j] = file[l][j]
      /\ \A m \in Layers \ {l} : file'[m] = file[m]
      /\ file' \in [Layers -> [Kinds -> [by : Tools \cup {NoTool}, whole : BOOLEAN]]]
  <2> HIDE DEF l, k
  <2> QED
    BY <1>1, <1>2, <1>3 DEF LayerTypeOK
<1> HIDE DEF k
<1>7. \A m \in Layers, j \in Kinds :
          \/ file'[m][j] = file[m][j]
          \/ file[m][j] = Absent
          \/ /\ file[m][j].by = t
             /\ file'[m][j].by = t
             /\ file[m][j].whole => file'[m][j] = file[m][j]
  BY <1>3, <1>6
<1>8. ToolsOwn'
  <2>1. \A u \in Tools \ {t} : ToolOwns(u)'
    BY <1>1, <1>4, <1>7, OtherToolsKeep
  <2>2. ASSUME tool[t].op = "create" /\ tool[t].left = <<"data", "index">>
        PROVE  ToolOwns(t)'
    <3>1. k = "data" /\ tool'[t].left = <<"index">> /\ tool'[t].at = "open"
      BY <1>1, <1>5, <2>2, LeftsFact DEF k
    <3>2. file'[tool'[t].layer]["data"].by = t
      BY <1>5, <1>6, <3>1
    <3>3. tool'[t].op = "create" /\ tool'[t].at \notin {"work", "ok"}
      BY <1>5, <2>2, <3>1
    <3> QED
      BY <3>1, <3>2, <3>3 DEF ToolOwns
  <2>3. ASSUME tool[t].op = "create", tool[t].left = <<"index">>, file[l]["data"].by = t
        PROVE  ToolOwns(t)'
    <3>1. k = "index" /\ tool'[t].at = "work"
      BY <1>1, <1>5, <2>3, LeftsFact DEF k
    <3>2. file'[l]["index"].by = t /\ file'[l]["data"].by = t
      BY <1>6, <2>3, <3>1 DEF Kinds
    <3>3. \A j \in OutputsOf(tool'[t].op) : file'[tool'[t].layer][j].by = t
      BY <1>5, <2>3, <3>2, OutputsFact
    <3>4. tool'[t].at \notin {"open", "ok"}
      BY <3>1
    <3> QED
      BY <3>3, <3>4 DEF ToolOwns, Opened
  <2>4. ASSUME tool[t].op = "commit" /\ tool[t].left = <<"out">>
        PROVE  ToolOwns(t)'
    <3>1. k = "out" /\ tool'[t].at = "work"
      BY <1>1, <1>5, <2>4, LeftsFact DEF k
    <3>2. file'[l]["out"].by = t
      BY <1>6, <3>1
    <3>3. \A j \in OutputsOf(tool'[t].op) : file'[tool'[t].layer][j].by = t
      BY <1>5, <2>4, <3>2, OutputsFact
    <3>4. tool'[t].at \notin {"open", "ok"}
      BY <3>1
    <3> QED
      BY <3>3, <3>4 DEF ToolOwns, Opened
  <2>5. ToolOwns(t)'
    BY <1>1, <2>2, <2>3, <2>4
  <2> QED
    BY <2>1, <2>5 DEF ToolsOwn
<1>9. CallsWait'
  <2>1. tool'[t] # Off /\ tool'[t].op = tool[t].op /\ tool'[t].layer = tool[t].layer
    BY <1>1, <1>4, <1>5 DEF Off, Process
  <2>2. \A u \in Tools : tool[u] # Off =>
           tool'[u] # Off /\ tool'[u].op = tool[u].op /\ tool'[u].layer = tool[u].layer
    BY <1>4, <2>1
  <2> QED
    BY <1>1, <2>2 DEF CallsWait
<1>10. LayerTypeOK'
  <2>1. \A u \in Tools : tool'[u] \in {Off} \cup Process
    BY <1>4, <1>5 DEF LayerTypeOK
  <2>2. tool' \in [Tools -> {Off} \cup Process]
    BY <1>3, <2>1 DEF LayerTypeOK
  <2> QED
    BY <1>1, <1>6, <2>2 DEF LayerTypeOK
<1> QED
  BY <1>1, <1>4, <1>7, <1>8, <1>9, <1>10, OtherToolsKeep

-----------------------------------------------------------------------------
(* Every step                                                              *)

LEMMA LayerUnchanged == LIInv /\ UNCHANGED layerVars => LIInv'
<1> SUFFICES ASSUME LIInv, UNCHANGED layerVars PROVE LIInv'
  OBVIOUS
<1> USE DEF layerVars, LIInv
<1>1. LayerTypeOK'
  BY DEF LayerTypeOK
<1>2. ToolsOwn'
  BY DEF ToolsOwn, ToolOwns, Opened, Made
<1>3. CallsWait' /\ CallsStat'
  BY DEF CallsWait, CallsStat, Made
<1>4. OutputsAreOwn'
  BY DEF OutputsAreOwn
<1> QED
  BY <1>1, <1>2, <1>3, <1>4

LEMMA LayerCommandOwn == LIInv /\ LayerCommand => LIInv'
<1> SUFFICES ASSUME LIInv, LayerCommand PROVE LIInv'
  OBVIOUS
<1>1. ASSUME NEW s \in Shells, NEW l \in Layers,
             BeginCall(s, "create", l) \/ BeginCall(s, "commit", l)
      PROVE  LIInv'
  BY <1>1, BeginCallOwn DEF Ops
<1>2. ASSUME NEW s \in Shells, LayerStep(s) PROVE LIInv'
  <2>1. CASE SpawnFails(s)
    BY <2>1, ReturnOwn DEF SpawnFails
  <2> QED
    BY <1>2, <2>1, CheckExistsOwn, SpawnOwn, ToolEndsOwn, StatOutputOwn DEF LayerStep
<1>3. ASSUME NEW s \in Shells, KillCall(s) PROVE LIInv'
  BY <1>3, ReturnOwn DEF KillCall
<1>4. ASSUME NEW t \in Tools, ToolStep(t) PROVE LIInv'
  BY <1>4, ToolOpensOwn, ToolWritesOwn, ToolFailsOwn, OrphanEndsOwn DEF ToolStep
<1> QED
  BY <1>1, <1>2, <1>3, <1>4 DEF LayerCommand

LEMMA ObdStepOwn == LIInv /\ [ObdNext]_obdVars => LIInv'
<1>1. ASSUME DeviceStep \/ CleanupStep \/ UNCHANGED obdVars
      PROVE  UNCHANGED layerVars
  BY <1>1 DEF DeviceStep, CleanupStep, obdVars
<1>2. ASSUME NEW p \in Actors, CleanupBegins(p) \/ CleanupEnds(p)
      PROVE  UNCHANGED layerVars
  BY <1>2 DEF CleanupBegins, CleanupEnds
<1> QED
  BY <1>1, <1>2, LayerUnchanged, LayerCommandOwn DEF ObdNext

\* A layer command that returns without an error wrote its outputs itself, and
\* whole: no other command, rerun or tool left behind by a killed one had a hand
\* in them (tools.rs:104-207).
THEOREM LayersAreOwn == ObdSpec => []OutputsAreOwn
<1>1. ObdInit => LIInv
  BY LayerInitOwn DEF ObdInit
<1>2. LIInv => OutputsAreOwn
  BY DEF LIInv
<1> QED
  BY <1>1, <1>2, ObdStepOwn, PTL DEF ObdSpec

=============================================================================
