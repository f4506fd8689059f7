------------------------------ MODULE SpikeLog ------------------------------
(* What a spike run says about the agent's session: the updates it prints, *)
(* the images it saves, the log of tool calls and the log of permission    *)
(* requests (box/spike/src/run.ts sessionUpdate and requestPermission,     *)
(* events.ts, policy.ts).  The handler of an update is asynchronous: it    *)
(* books the update at once, then writes the update's images one by one,   *)
(* and prints its record after the last of them.  Handlers of later        *)
(* updates run meanwhile.                                                  *)
EXTENDS Naturals, Sequences, SequencesExt, Maps

CONSTANTS
    Calls,       \* tool call ids
    Tools,       \* tool names
    Statuses,    \* statuses an update may carry
    Policy,      \* the run's allow list: a set of patterns
    Prefixed,    \* [patterns "prefix*" -> tools whose name has the prefix]
    Unknown,     \* no tool name, no status
    MaxImages,   \* bound: images of one update
    Inputs,      \* bound: the updates the agent may send
    MaxUpdates,  \* bound: updates of the session
    MaxRequests  \* bound: permission requests of the session

VARIABLES
    arrived,      \* the updates so far, in the order of the connection
    toolCalls,    \* call -> [tool, status, asked] (the tool call log)
    toolNames,    \* call -> tool
    permissionLog,\* requests with the decision and the status that followed
    writing,      \* arrival index -> images still to write, of open handlers
    printed,      \* events.ndjson: [n |-> arrival index, what |-> ..., tool]
    failed        \* arrival indices whose image could not be written

logVars == <<arrived, toolCalls, toolNames, permissionLog, writing, printed, failed>>

Update ==
    [type : {"tool_call"}, call : Calls, tool : Tools \cup {Unknown}, status : {Unknown},
     images : 0..MaxImages]
    \cup
    [type : {"tool_call_update"}, call : Calls, tool : {Unknown},
     status : Statuses \cup {Unknown}, images : 0..MaxImages]

ASSUME InputsAssumption == Inputs \subseteq Update
-----------------------------------------------------------------------------
(* policy.ts: the host allows what a pattern names, once; a tool it has no *)
(* name for is denied.                                                     *)
MatchesPattern(tool, p) ==
    p = "*" \/ tool = p \/ (p \in DOMAIN Prefixed /\ tool \in Prefixed[p])

Decide(tool) ==
    IF tool # Unknown /\ \E p \in Policy : MatchesPattern(tool, p) THEN "allow" ELSE "deny"

SelectOption(decision, offered) ==
    LET wanted == IF decision = "allow" THEN "allow_once" ELSE "reject_once" IN
    IF wanted \in offered THEN wanted ELSE "cancelled"

(* events.ts normaliseUpdate: the name comes with the update or from what  *)
(* is known of its call when the record is printed.                        *)
NormaliseUpdate(n, names) ==
    [n |-> n, what |-> arrived'[n].type,
     tool |-> IF arrived'[n].tool # Unknown THEN arrived'[n].tool
              ELSE IF arrived'[n].call \in DOMAIN names THEN names[arrived'[n].call]
              ELSE Unknown]

ImageSaved(n) == [n |-> n, what |-> "image_saved", tool |-> Unknown]

\* Mutant: the update goes to whatever request was logged last.
LastRequest(call) == Len(permissionLog)

\* The first entry of the call in the permission log, or 0 (Array.find).
FirstRequest(call) == SelectInSeq(permissionLog, LAMBDA p : p.call = call)
-----------------------------------------------------------------------------
LogInit ==
    /\ arrived = <<>> /\ toolCalls = <<>> /\ toolNames = <<>>
    /\ permissionLog = <<>> /\ writing = <<>> /\ printed = <<>> /\ failed = {}

(* The synchronous part of sessionUpdate: an announced call starts its     *)
(* entry over; an update of an unknown call, or without status, books      *)
(* nothing.                                                                *)
Book(u) ==
    \/ /\ u.type = "tool_call"
       /\ toolNames' = IF u.tool = Unknown THEN toolNames ELSE MapSet(toolNames, u.call, u.tool)
       /\ toolCalls' = MapSet(toolCalls, u.call,
                         [tool |-> u.tool, status |-> Unknown, asked |-> FALSE])
       /\ UNCHANGED permissionLog
    \/ /\ u.type = "tool_call_update"
       /\ u.call \in DOMAIN toolCalls /\ u.status # Unknown
       /\ toolCalls' = [toolCalls EXCEPT ![u.call].status = u.status]
       /\ LET p == FirstRequest(u.call) IN
          permissionLog' = IF p = 0 THEN permissionLog
                           ELSE [permissionLog EXCEPT ![p].final = u.status]
       /\ UNCHANGED toolNames
    \/ /\ u.type = "tool_call_update"
       /\ u.call \notin DOMAIN toolCalls \/ u.status = Unknown
       /\ UNCHANGED <<toolCalls, toolNames, permissionLog>>

SessionUpdate(u) ==
    /\ Len(arrived) < MaxUpdates
    /\ arrived' = Append(arrived, u)
    /\ Book(u)
    /\ LET n == Len(arrived) + 1 IN
       IF u.images = 0
       THEN printed' = Append(printed, NormaliseUpdate(n, toolNames')) /\ UNCHANGED writing
       ELSE writing' = MapSet(writing, n, u.images) /\ UNCHANGED printed
    /\ UNCHANGED failed

\* Mutant: the record is printed before the last image is on disk.
PrintsEarly(n) ==
    /\ n \in DOMAIN writing
    /\ UNCHANGED <<arrived, toolCalls, toolNames, permissionLog, failed>>
    /\ writing' = MapDelete(writing, n)
    /\ printed' = Append(printed, NormaliseUpdate(n, toolNames))

(* One image is on disk; after the last one the record follows at once.    *)
ImageWritten(n) ==
    /\ n \in DOMAIN writing
    /\ UNCHANGED <<arrived, toolCalls, toolNames, permissionLog, failed>>
    /\ IF writing[n] > 1
       THEN /\ writing' = [writing EXCEPT ![n] = @ - 1]
            /\ printed' = Append(printed, ImageSaved(n))
       ELSE /\ writing' = MapDelete(writing, n)
            /\ printed' = printed \o <<ImageSaved(n), NormaliseUpdate(n, toolNames)>>

(* The write fails: the handler rejects and the update is never printed.   *)
ImageFails(n) ==
    /\ n \in DOMAIN writing
    /\ writing' = MapDelete(writing, n) /\ failed' = failed \cup {n}
    /\ UNCHANGED <<arrived, toolCalls, toolNames, permissionLog, printed>>

RequestPermission(call, offered) ==
    /\ Len(permissionLog) < MaxRequests
    /\ LET known == call \in DOMAIN toolCalls
           tool  == IF known THEN toolCalls[call].tool ELSE Unknown
       IN
       /\ permissionLog' = Append(permissionLog,
              [call |-> call, tool |-> tool, final |-> Unknown, at |-> Len(arrived),
               answer |-> SelectOption(Decide(tool), offered)])
       /\ toolCalls' = IF known THEN [toolCalls EXCEPT ![call].asked = TRUE] ELSE toolCalls
    /\ UNCHANGED <<arrived, toolNames, writing, printed, failed>>

LogNext ==
    \/ \E u \in Inputs : SessionUpdate(u)
    \/ \E n \in DOMAIN writing : ImageWritten(n) \/ ImageFails(n)
    \/ \E call \in Calls, offered \in {{"allow_once", "reject_once"}, {"allow_always"}} :
           RequestPermission(call, offered)

LogSpec == LogInit /\ [][LogNext]_logVars
-----------------------------------------------------------------------------
Records(what) == {i \in DOMAIN printed : printed[i].what \in what}
Updates == {"tool_call", "tool_call_update"}

(* Though handlers overlap, the printed log loses and repeats nothing: an  *)
(* update is printed once, is still waiting for its images, or failed over *)
(* one; its images come before it; and updates without images keep their   *)
(* order (run.ts:291-309).                                                 *)
LogIsComplete ==
    /\ \A n \in DOMAIN arrived :
        LET own == {i \in Records(Updates) : printed[i].n = n}
            saved == {i \in Records({"image_saved"}) : printed[i].n = n}
        IN
        \/ n \in failed /\ own = {}
        \/ n \in DOMAIN writing /\ own = {}
        \/ n \notin failed \cup DOMAIN writing /\ \E i \in own :
              /\ own = {i} /\ \A j \in saved : j < i
              /\ saved = {} <=> arrived[n].images = 0
    /\ \A i, j \in Records(Updates) :
        (i < j /\ arrived[printed[i].n].images = 0 /\ arrived[printed[j].n].images = 0)
            => printed[i].n < printed[j].n

(* The status a permission request ended with is the last one reported for *)
(* its call after the request, whatever was reported of other calls in     *)
(* between and however often the call was announced again; a second        *)
(* request of the same call gets none (run.ts:265-271, :97).               *)
FinalStatusIsTheLast ==
    \A p \in DOMAIN permissionLog :
        LET r == permissionLog[p]
            told == {n \in (r.at + 1)..Len(arrived) :
                        /\ arrived[n].call = r.call /\ arrived[n].status # Unknown
                        /\ \E a \in 1..n : arrived[a].type = "tool_call"
                                           /\ arrived[a].call = r.call}
            first == \A q \in 1..(p - 1) : permissionLog[q].call # r.call
        IN
        IF first /\ told # {}
        THEN \E n \in told : r.final = arrived[n].status /\ \A k \in told : k <= n
        ELSE r.final = Unknown
=============================================================================
