-------------------------- MODULE EventTranslation --------------------------
(* runtime-acp/src/events.ts toRuntimeEvents: what one session update of   *)
(* the agent turns into.  The agent names a tool and reports a status once *)
(* and later sends only what changed, so the translation keeps an index of *)
(* the run's tool calls; images become events of their own.                *)
EXTENDS Naturals, Sequences, Maps

CONSTANTS
    CallIds, ToolNames, ToolStatuses,
    Absent,      \* the field is not in the update
    MaxSessionUpdates,  \* bound: updates of the run
    MaxScreenshots    \* bound: images of one update

VARIABLES
    updates,  \* the session updates so far
    index,    \* ToolCallIndex: call -> [toolName, status]
    events    \* the run's events: [kind, call, tool, status, n (update)]

translationVars == <<updates, index, events>>

ToolUpdate ==
    [type : {"tool_call", "tool_call_update"}, call : CallIds, tool : ToolNames \cup {Absent},
     status : ToolStatuses \cup {Absent}, images : 0..MaxScreenshots]
\* Text or other content of a message or a thought; anything else.
OtherUpdate ==
    [type : {"agent_message_chunk", "agent_thought_chunk"}, text : BOOLEAN]
        \cup [type : {"plan"}, text : {FALSE}]
-----------------------------------------------------------------------------
Given(value, otherwise) == IF value # Absent THEN value ELSE otherwise

Event(kind, n, call, tool, status) ==
    [kind |-> kind, n |-> n, call |-> call, tool |-> tool, status |-> status]

Screenshots(u, n) == [i \in 1..u.images |-> Event("screenshot", n, u.call, Absent, Absent)]

(* A chunk is an event when it is text; plans and the like are none.       *)
Chunk(u, n) ==
    IF u.type = "plan" \/ ~u.text THEN <<>>
    ELSE <<Event(IF u.type = "agent_message_chunk" THEN "text_delta" ELSE "thinking",
                 n, Absent, Absent, Absent)>>

(* An announced call starts its entry over.                                *)
ToolCall(u, n) ==
    LET info == [toolName |-> Given(u.tool, "unknown"), status |-> Given(u.status, "pending")] IN
    /\ index' = MapSet(index, u.call, info)
    /\ events' = events \o Screenshots(u, n) \o
          <<Event("tool_call", n, u.call, info.toolName, Absent)>>

\* Mutant: the status of an update is not remembered.
UpdateForgets(u, n) ==
    /\ UNCHANGED index
    /\ events' = events \o Screenshots(u, n) \o
          <<Event("tool_call_update", n, u.call, Absent,
                  Given(u.status, IF u.call \in DOMAIN index
                                  THEN index[u.call].status ELSE "pending"))>>

(* An update changes the entry where it says something; an update of a     *)
(* call nobody announced stands for itself and is not remembered.          *)
ToolCallUpdate(u, n) ==
    LET known == u.call \in DOMAIN index
        info  == [toolName |-> Given(u.tool, index[u.call].toolName),
                  status   |-> Given(u.status, index[u.call].status)]
        status == IF known THEN info.status ELSE Given(u.status, "pending")
    IN
    /\ index' = IF known THEN [index EXCEPT ![u.call] = info] ELSE index
    /\ events' = events \o Screenshots(u, n) \o
          <<Event("tool_call_update", n, u.call, Absent, status)>>
-----------------------------------------------------------------------------
TranslationInit == updates = <<>> /\ index = <<>> /\ events = <<>>

ToRuntimeEvents ==
    /\ Len(updates) < MaxSessionUpdates
    /\ \E u \in ToolUpdate \cup OtherUpdate :
        LET n == Len(updates) + 1 IN
        /\ updates' = Append(updates, u)
        /\ \/ u.type = "tool_call" /\ ToolCall(u, n)
           \/ u.type = "tool_call_update" /\ ToolCallUpdate(u, n)
           \/ u \in OtherUpdate /\ events' = events \o Chunk(u, n) /\ UNCHANGED index

TranslationSpec == TranslationInit /\ [][ToRuntimeEvents]_translationVars
-----------------------------------------------------------------------------
(* The updates of event e's call, from the announcement before it on.      *)
Told(e) ==
    LET own == {k \in 1..e.n : updates[k] \in ToolUpdate /\ updates[k].call = e.call}
        announced == {k \in own : updates[k].type = "tool_call"}
    IN IF announced = {} THEN {e.n}
       ELSE {k \in own : \A a \in announced : a <= k}

(* The events stand on their own: a tool_call_update event carries the     *)
(* last status its call has been given since it was announced, whatever    *)
(* the updates of other calls in between and however little its own update *)
(* says; "pending" when there was none (events.ts:3-5, :98-105).           *)
StatusesStandAlone ==
    \A i \in DOMAIN events : LET e == events[i] IN
        e.kind = "tool_call_update" =>
            LET given == {k \in Told(e) : updates[k].status # Absent} IN
            IF given = {} THEN e.status = "pending"
            ELSE \E k \in given : e.status = updates[k].status /\ \A j \in given : j <= k
=============================================================================
