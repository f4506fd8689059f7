------------------------------ MODULE SpikeRun ------------------------------
(* One spike session (box/spike/src/run.ts runSession): the host starts a  *)
(* box under a name, opens or resumes a session over ACP, prompts it, and  *)
(* accounts for what it costs from the transcript the agent's CLI writes   *)
(* in the box.  Four things run beside the host's own line of control: the *)
(* tail that hands it transcript lines, the overall timer, the kill an     *)
(* abort schedules three seconds ahead, and the box, which may exit at any *)
(* moment.                                                                 *)
(* A message's four token counters are one count, priced per token by the  *)
(* message's model; a line carries the message and its count so far.       *)
(* Cancelling the session (run.ts:219) only invites an answer the agent    *)
(* may give anyway, so an abort is modelled by its other effects.          *)
EXTENDS Naturals, Sequences, FiniteSets, FiniteSetsExt

CONSTANTS
    Messages,       \* API message ids
    ModelOf,        \* [Messages -> model name]: what the transcript reports
    ListPrice,      \* [models with a list price -> price of one token]
    FallbackPrice,  \* the most expensive tier (pricing.ts:50)
    Synthetic,      \* the model name of lines that carry no API response
    Cap,            \* config.capUsd
    Prompts,        \* number of prompts of the run
    MaxCount,       \* bound: tokens of one message
    MaxLines        \* bound: lines of the transcript

ASSUME PricesAssumption == /\ \A p \in DOMAIN ListPrice : ListPrice[p] <= FallbackPrice
                           /\ Prompts \in Nat /\ Cap \in Nat
                           /\ MaxCount \in Nat /\ MaxLines \in Nat

VARIABLES
    box,         \* "starting" (docker run not up yet), "up" or "gone"
    pc,          \* where runSession stands
    transcript,  \* the session's transcript, oldest line first
    earlier,     \* how many of its lines an earlier run of the session wrote
    preexisting, \* preexistingMessages: ids read from the resumed transcript
    ledger,      \* message id -> count (UsageLedger.byMessage)
    tail,        \* "none", "on" or "stopped"
    tailed,      \* lines the tail has handed over
    look,        \* lines the last look has read (0: not read, or cat failed)
    prompted,    \* prompts begun
    timer,       \* "armed" or "over" (fired or cleared)
    kill,        \* the kill of an abort: "no", "asleep" (3 s) or "sent"
    abortedBy    \* AbortReason

vars == <<box, pc, transcript, earlier, preexisting, ledger, tail, tailed,
          look, prompted, timer, kill, abortedBy>>
boxVars == <<box, transcript, earlier>>
money   == <<preexisting, ledger, tailed>>
control == <<timer, kill, abortedBy>>

Line == [id : Messages, count : 0..MaxCount]
IdsOf(lines) == {lines[i].id : i \in DOMAIN lines}
-----------------------------------------------------------------------------
(* Pricing and the ledger *)

IsUsage(line) == ModelOf[line.id] # Synthetic

PricingForModel(model) ==
    IF model \in DOMAIN ListPrice THEN ListPrice[model] ELSE FallbackPrice

LedgerCost(l) ==
    MapThenSumSet(LAMBDA m : l[m] * PricingForModel(ModelOf[m]), DOMAIN l)

Exceeded(l) == LedgerCost(l) > Cap

(* A line changes the ledger when it is a usage line of this run's own     *)
(* messages and says something new.                                        *)
Counts(line, l) ==
    /\ IsUsage(line)
    /\ line.id \notin preexisting
    /\ line.id \in DOMAIN l => l[line.id] # line.count

RecordUsage(l, line) ==
    [m \in DOMAIN l \cup {line.id} |-> IF m = line.id THEN line.count ELSE l[m]]

\* Mutant: the loop hands on every line up to the first it knows already.
MissingStops(lines) ==
    {i \in DOMAIN lines : \A j \in 1..i : lines[j].id \notin preexisting \cup DOMAIN ledger}

(* The last look hands on only the lines of messages the ledger has not    *)
(* seen when the loop reaches them: of several lines of one message, the   *)
(* first.                                                                  *)
Missing(lines) ==
    {i \in DOMAIN lines : /\ IsUsage(lines[i])
                          /\ lines[i].id \notin preexisting \cup DOMAIN ledger
                          /\ \A j \in 1..(i - 1) : lines[j].id # lines[i].id}

Reconciled(lines) ==
    [m \in DOMAIN ledger \cup {lines[i].id : i \in Missing(lines)} |->
        IF m \in DOMAIN ledger THEN ledger[m]
        ELSE lines[CHOOSE i \in Missing(lines) : lines[i].id = m].count]
-----------------------------------------------------------------------------
\* Mutant: the abort waits for the end of the prompt instead of killing.
AbortLater(reason) ==
    /\ abortedBy' = IF abortedBy # "none" THEN abortedBy ELSE reason
    /\ UNCHANGED kill

(* abort(reason): only the first reason counts, and it schedules the kill. *)
Abort(reason) ==
    IF abortedBy # "none" THEN UNCHANGED <<abortedBy, kill>>
    ELSE abortedBy' = reason /\ kill' = "asleep"

\* Mutant: the ledger is updated without a look at the cap.
AccountUnchecked(l) == ledger' = l /\ UNCHANGED <<abortedBy, kill>>

(* The ledger becomes l: the cap is checked on the spot.                   *)
Account(l) ==
    /\ ledger' = l
    /\ IF Exceeded(l) THEN Abort("host_cap") ELSE UNCHANGED <<abortedBy, kill>>

(* docker kill by name: it reaches a box that is up and no other.          *)
Killed == box' = IF box = "up" THEN "gone" ELSE box
-----------------------------------------------------------------------------
Init ==
    /\ box = "starting" /\ pc = "initialize"
    /\ transcript \in {<<>>} \cup {<<l>> : l \in Line}
    /\ earlier = Len(transcript)
    /\ preexisting = {} /\ ledger = <<>>
    /\ tail = "none" /\ tailed = 0 /\ look = 0 /\ prompted = 0
    /\ timer = "armed" /\ kill = "no" /\ abortedBy = "none"

BoxComesUp ==
    /\ box = "starting" /\ box' = "up"
    /\ UNCHANGED <<pc, transcript, earlier, money, tail, look, prompted, control>>

BoxExits ==
    /\ box # "gone" /\ box' = "gone"
    /\ UNCHANGED <<pc, transcript, earlier, money, tail, look, prompted, control>>

(* The agent's CLI: the counts of a message only grow.                     *)
CliWrites ==
    /\ box = "up" /\ pc \notin {"initialize", "history"}
    /\ Len(transcript) < earlier + MaxLines
    /\ \E l \in Line :
        /\ \A i \in DOMAIN transcript :
            transcript[i].id = l.id => i > earlier /\ transcript[i].count <= l.count
        /\ transcript' = Append(transcript, l)
    /\ UNCHANGED <<box, pc, earlier, money, tail, look, prompted, control>>

(* The handshake.  A run with earlier lines resumes a session: its history *)
(* is read (or the cat fails, and the run goes on without it) before the   *)
(* load; a new session is opened at once.                                  *)
Initialized ==
    /\ pc = "initialize" /\ box = "up"
    /\ pc' = IF earlier > 0 THEN "history" ELSE "session"
    /\ UNCHANGED <<boxVars, money, tail, look, prompted, control>>

HistoryRead ==
    /\ pc = "history" /\ pc' = "session"
    /\ preexisting' \in {{}} \cup
          (IF box = "up" THEN {{l.id : l \in {transcript[i] : i \in 1..earlier}}} ELSE {})
    /\ UNCHANGED <<boxVars, ledger, tailed, tail, look, prompted, control>>

SessionReady ==
    /\ pc = "session" /\ box = "up"
    /\ pc' = "loop" /\ tail' = "on"
    /\ UNCHANGED <<boxVars, money, look, prompted, control>>

(* The catch around everything: an initialize, newSession or loadSession   *)
(* that is rejected, or the box going under it.                            *)
HandshakeFails ==
    /\ pc \in {"initialize", "session"}
    /\ pc' = "kill" /\ timer' = "over"
    /\ abortedBy' = IF abortedBy = "none" THEN "box_exited" ELSE abortedBy
    /\ UNCHANGED <<boxVars, money, tail, look, prompted, kill>>

(* The prompts: an abort stops the loop, a failed prompt does not.         *)
PromptBegins ==
    /\ pc = "loop" /\ abortedBy = "none" /\ prompted < Prompts
    /\ pc' = "prompt" /\ prompted' = prompted + 1
    /\ UNCHANGED <<boxVars, money, tail, look, control>>

PromptEnds ==  \* answered, rejected by the agent, or the box is gone
    /\ pc = "prompt" /\ pc' = "loop"
    /\ UNCHANGED <<boxVars, money, tail, look, prompted, control>>

LoopEnds ==
    /\ pc = "loop" /\ (abortedBy # "none" \/ prompted = Prompts)
    /\ pc' = "settle"
    /\ UNCHANGED <<boxVars, money, tail, look, prompted, control>>

(* After 800 ms the transcript is read as a whole, or the cat fails.       *)
LookRead ==
    /\ pc = "settle" /\ pc' = "look"
    /\ look' \in {0} \cup (IF box = "up" THEN {Len(transcript)} ELSE {})
    /\ UNCHANGED <<boxVars, money, tail, prompted, control>>

(* What was read is handed on without a break, then the finally block      *)
(* clears the timer and stops the tail.                                    *)
LookHandled ==
    /\ pc = "look" /\ pc' = "kill"
    /\ Account(Reconciled(SubSeq(transcript, 1, look)))
    /\ timer' = "over" /\ tail' = "stopped"
    /\ UNCHANGED <<boxVars, preexisting, tailed, look, prompted>>

FinalKill ==
    /\ pc = "kill" /\ pc' = "exit" /\ Killed
    /\ UNCHANGED <<transcript, earlier, money, tail, look, prompted, control>>

Done ==
    /\ pc = "exit" /\ box = "gone" /\ pc' = "done"
    /\ UNCHANGED <<boxVars, money, tail, look, prompted, control>>
-----------------------------------------------------------------------------
(* Beside the host's line of control *)

HandleTranscriptLine(line) ==
    IF Counts(line, ledger) THEN Account(RecordUsage(ledger, line))
    ELSE UNCHANGED <<ledger, kill, abortedBy>>

TailLine ==
    /\ tail = "on" /\ tailed < Len(transcript)
    /\ tailed' = tailed + 1
    /\ HandleTranscriptLine(transcript[tailed + 1])
    /\ UNCHANGED <<boxVars, pc, preexisting, tail, look, prompted, timer>>

TimerFires ==
    /\ timer = "armed" /\ timer' = "over"
    /\ Abort("timeout")
    /\ UNCHANGED <<boxVars, pc, money, tail, look, prompted>>

AbortKills ==
    /\ kill = "asleep" /\ kill' = "sent" /\ Killed
    /\ UNCHANGED <<transcript, earlier, pc, money, tail, look, prompted, timer, abortedBy>>

Next ==
    \/ BoxComesUp \/ BoxExits \/ CliWrites
    \/ Initialized \/ HistoryRead \/ SessionReady \/ HandshakeFails
    \/ PromptBegins \/ PromptEnds \/ LoopEnds
    \/ LookRead \/ LookHandled \/ FinalKill \/ Done
    \/ TailLine \/ TimerFires \/ AbortKills

Spec == Init /\ [][Next]_vars

(* What the host does by itself, it does; a request to a box that is gone  *)
(* is rejected (failWhenBoxGone); the timer and the kill's sleep run out.  *)
(* The agent need not answer, and the box need not come up or exit.        *)
FairSpec ==
    /\ Spec
    /\ WF_vars(HistoryRead) /\ WF_vars(PromptBegins) /\ WF_vars(LoopEnds)
    /\ WF_vars(LookRead) /\ WF_vars(LookHandled) /\ WF_vars(FinalKill) /\ WF_vars(Done)
    /\ WF_vars(TimerFires) /\ WF_vars(AbortKills)
    /\ WF_vars(box = "gone" /\ (HandshakeFails \/ PromptEnds))
-----------------------------------------------------------------------------
TypeOK ==
    /\ box \in {"starting", "up", "gone"}
    /\ pc \in {"initialize", "history", "session", "loop", "prompt", "settle",
               "look", "kill", "exit", "done"}
    /\ transcript \in Seq(Line) /\ earlier \in 0..1
    /\ Len(transcript) <= earlier + MaxLines
    /\ preexisting \subseteq Messages
    /\ DOMAIN ledger \subseteq Messages
    /\ \A m \in DOMAIN ledger : ledger[m] \in 0..MaxCount
    /\ tail \in {"none", "on", "stopped"}
    /\ tailed \in 0..Len(transcript) /\ look \in 0..Len(transcript)
    /\ prompted \in 0..Prompts
    /\ timer \in {"armed", "over"} /\ kill \in {"no", "asleep", "sent"}
    /\ abortedBy \in {"none", "host_cap", "timeout", "box_exited"}

(* A run over its cap is being stopped, whoever found out (the tail or the *)
(* last look) and whatever aborted it first: its box is gone, or a kill is *)
(* on its way (run.ts:244-247, :221, :485).                                *)
OverCapIsStopping ==
    Exceeded(ledger) =>
        /\ abortedBy # "none"
        /\ kill = "no" => pc \in {"kill", "exit", "done"}

(* A resumed run pays for its own messages only: once its history has been *)
(* read, no message of an earlier run is ever in the ledger, though the    *)
(* tail starts over from the first line (run.ts:226, :388, docker.ts:185). *)
HistoryIsFree ==
    preexisting # {} => DOMAIN ledger \cap IdsOf(SubSeq(transcript, 1, earlier)) = {}

(* What the run is charged is what it used: every line the tail has handed *)
(* over is in the ledger at its latest count, and when a last look could   *)
(* be read, so is every message it found, whichever of the tail and the    *)
(* look came first (run.ts:227-230, :465-472).                             *)
Accounted ==
    /\ \A i \in 1..tailed :
        IsUsage(transcript[i]) /\ transcript[i].id \notin preexisting =>
            /\ transcript[i].id \in DOMAIN ledger
            /\ ledger[transcript[i].id] >= transcript[i].count
    /\ pc \in {"kill", "exit", "done"} =>
        \A i \in 1..look :
            IsUsage(transcript[i]) => transcript[i].id \in preexisting \cup DOMAIN ledger

(* The kill went out while docker had no such container to kill yet.       *)
KillMissed == (kill = "sent" \/ pc \in {"exit"}) /\ box # "gone"

(* A run ends, though the agent may never answer and the box may exit at   *)
(* any step: the timer, the kill and the box's exit settle every await.    *)
(* The exception is a kill sent while docker run is still starting the     *)
(* box (a slow pull): it is never sent again (run.ts:221, :346, :433).     *)
RunEnds == <>(pc = "done" \/ KillMissed)
=============================================================================
