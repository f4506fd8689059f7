----------------------------- MODULE AcpRuntime -----------------------------
(***************************************************************************)
(* One run of packages/runtime-acp/src/runtime.ts, from startRun to the    *)
(* end of endRun, as seen by the event loop: the caller's methods, the ACP *)
(* handlers, the exit handler and the steps of startRun, endRun and        *)
(* #startTurn between two awaits.  A step is what runs before the event    *)
(* loop can turn to something else; anything else that is ready may run    *)
(* between two steps.                                                      *)
(*                                                                         *)
(* The agent, the box and the ACP connection are the environment: the      *)
(* agent may stop at any moment, its process's wait() may reject, any call *)
(* on the box may fail.  What the agent writes is heard only until its     *)
(* exit is known, because wait() settles after the process's streams ended *)
(* (computer-docker); it asks for permission and streams updates only      *)
(* while a prompt is outstanding, as ACP has it.                           *)
(*                                                                         *)
(* The event stream (EventQueue) is seen from its producers' side: open,   *)
(* or closed by somebody.  Usage (UsageTail) is seen as the number of      *)
(* transcript lines written and reported.                                  *)
(***************************************************************************)
EXTENDS Naturals, Permissions

CONSTANTS Approvals,  \* permission requests the agent may make
          Offers,     \* the sets of options it may list with one
          Unasked, Waiting, Cancelled, \* an answer not asked for, not given, refused
          MaxTurns,   \* bound: prompts sent in the run
          MaxLines    \* bound: usage lines written to the transcript

ASSUME RuntimeAssumption ==
    /\ Offers \subseteq SUBSET Kinds
    /\ Unasked # Waiting /\ Unasked # Cancelled /\ Waiting # Cancelled
    /\ {Unasked, Waiting, Cancelled} \cap Kinds = {}
    /\ MaxTurns \in Nat \ {0} /\ MaxLines \in Nat

VARIABLES
    call,       \* how far startRun is
    resume,     \* an existing session is loaded, instead of a new one opened
    agent,      \* the agent's process: "none", "alive" or "gone"
    waited,     \* what process.wait() has told: "pending", "resolved", "rejected"
    tail,       \* the transcript tail's listener: "none", "on" or "off"
    replaying,  \* inbox.replaying
    misplaced,  \* history: a replayed update reached the stream, or a live one did not
    ended,      \* inbox.ended
    closedBy,   \* who closed the stream ("nobody" while it is open)
    pending,    \* inbox.pending: the requests the runtime still has to answer
    offered,    \* the options each request listed
    decided,    \* history: what resolveApproval was called with (Waiting: not yet)
    answer,     \* what the agent has of each request
    announced,  \* the decision each approval_resolved event gave (Waiting: none)
    turn,       \* run.turn is set: a prompt is outstanding
    begun,      \* prompts sent
    completions,\* turn_completed events on the stream
    written,    \* usage lines in the transcript
    reported,   \* usage events on the stream
    snapshot,   \* lines the last look at the transcript read
    atEnd,      \* history: lines written when endRun was called
    registered, \* the run is in #runs
    teardown,   \* how far endRun is
    failed      \* the steps of endRun that failed

agentVars == <<agent, waited>>
streamVars == <<closedBy, misplaced>>
deskVars == <<pending, offered, decided, answer, announced>>
turnVars == <<turn, begun, completions>>
usageVars == <<tail, written, reported, snapshot, atEnd>>
endVars == <<registered, teardown, failed>>

vars == <<call, resume, replaying, ended, agentVars, streamVars, deskVars, turnVars,
          usageVars, endVars>>

Init == /\ call = "pin" /\ resume \in BOOLEAN
        /\ agent = "none" /\ waited = "pending"
        /\ tail = "none"
        /\ replaying = FALSE /\ misplaced = FALSE
        /\ ended = FALSE /\ closedBy = "nobody"
        /\ pending = {}
        /\ offered = [a \in Approvals |-> {}]
        /\ answer = [a \in Approvals |-> Unasked]
        /\ decided = [a \in Approvals |-> Waiting]
        /\ announced = [a \in Approvals |-> Waiting]
        /\ turn = FALSE /\ begun = 0 /\ completions = 0
        /\ written = 0 /\ reported = 0 /\ snapshot = 0 /\ atEnd = 0
        /\ registered = FALSE /\ teardown = "none" /\ failed = {}

Open == closedBy = "nobody"

-----------------------------------------------------------------------------
(* Steps several handlers share.                                           *)

(* cancelPending: every waiting request is answered "cancelled".           *)
CancelPending ==
    /\ pending' = {}
    /\ answer' = [a \in Approvals |-> IF a \in pending THEN Cancelled ELSE answer[a]]
    /\ UNCHANGED <<offered, decided, announced>>

(* queue.close(), which only its first caller achieves.                    *)
CloseStream(who) == closedBy' = IF Open THEN who ELSE closedBy

(* #startTurn up to its first await.                                       *)
BeginTurn == /\ turn' = TRUE
             /\ begun' = begun + 1
             /\ UNCHANGED completions

(* The catch block of startRun, up to the kill it awaits.  A tail cannot   *)
(* be running here: nothing after tailUsage can throw.                     *)
StartFails(who) ==
    /\ call' = "killing"
    /\ ended' = TRUE
    /\ CancelPending
    /\ CloseStream(who)
    /\ UNCHANGED misplaced

-----------------------------------------------------------------------------
(* startRun.                                                               *)

(* pinModel, when a model is asked for: it returns or throws.  Its calls   *)
(* to the box, and the settings file it may leave torn, are in ModelPin;   *)
(* nothing of the run exists yet that they could meet.                     *)
PinModel ==
    /\ call = "pin"
    /\ call' \in {"attach", "refused"}
    /\ UNCHANGED <<resume, replaying, ended, agentVars, streamVars, deskVars, turnVars,
                   usageVars, endVars>>

(* computer.attach; a failure leaves no agent and no connection.           *)
Attach ==
    /\ call = "attach"
    /\ \/ call' = "initialize" /\ agent' = "alive" /\ replaying' = resume
       \/ call' = "refused" /\ UNCHANGED <<agent, replaying>>
    /\ UNCHANGED <<resume, ended, waited, streamVars, deskVars, turnVars, usageVars, endVars>>

(* The agent answers `initialize`.                                         *)
InitializeReply ==
    /\ call = "initialize" /\ waited = "pending"
    /\ call' = "session"
    /\ UNCHANGED <<resume, replaying, ended, agentVars, streamVars, deskVars, turnVars,
                   usageVars, endVars>>

(* Mutant: the replay flag is never cleared. *)
SessionReplyStillReplaying ==
    /\ call = "session" /\ waited = "pending"
    /\ call' = "tail"
    /\ UNCHANGED <<resume, replaying, ended, agentVars, streamVars, deskVars, turnVars,
                   usageVars, endVars>>

(* The agent answers `session/new` or `session/load`.                      *)
SessionReply ==
    /\ call = "session" /\ waited = "pending"
    /\ call' = "tail"
    /\ replaying' = FALSE
    /\ UNCHANGED <<resume, ended, agentVars, streamVars, deskVars, turnVars, usageVars, endVars>>

(* The agent, or the connection, fails one of the two.                     *)
HandshakeFails ==
    /\ call \in {"initialize", "session"} /\ waited = "pending"
    /\ StartFails("start")
    /\ UNCHANGED <<resume, replaying, agentVars, turnVars, usageVars, endVars>>

(* tailUsage resolves: the run is registered and its first prompt is sent. *)
TailReady ==
    /\ call = "tail"
    /\ call' = "started"
    /\ tail' = "on"
    /\ registered' = TRUE
    /\ BeginTurn
    /\ UNCHANGED <<resume, replaying, ended, agentVars, streamVars, deskVars,
                   written, reported, snapshot, atEnd, teardown, failed>>

TailFails ==
    /\ call = "tail"
    /\ StartFails("start")
    /\ UNCHANGED <<resume, replaying, agentVars, turnVars, usageVars, endVars>>

(* The kill of a failed start settles, well or badly, and startRun throws. *)
StartGivesUp ==
    /\ call = "killing"
    /\ call' = "failed"
    /\ UNCHANGED <<resume, replaying, ended, agentVars, streamVars, deskVars, turnVars,
                   usageVars, endVars>>

-----------------------------------------------------------------------------
(* The agent.                                                              *)

AgentExits ==
    /\ agent = "alive"
    /\ agent' = "gone"
    /\ UNCHANGED <<call, resume, replaying, ended, waited, streamVars, deskVars, turnVars,
                   usageVars, endVars>>

(* Mutant: the exit handler leaves the stream open. *)
ExitNoticedStaysOpen ==
    /\ agent = "gone" /\ waited = "pending"
    /\ waited' = "resolved"
    /\ IF call \in {"initialize", "session"}
       THEN StartFails("exit")
       ELSE /\ UNCHANGED <<call, misplaced, closedBy>>
            /\ IF ended THEN UNCHANGED <<ended, deskVars>>
                        ELSE ended' = TRUE /\ CancelPending
    /\ UNCHANGED <<agent, resume, replaying, turnVars, usageVars, endVars>>

(* Mutant: the handshake is awaited without whileAlive. *)
ExitNoticedNoRace ==
    /\ agent = "gone" /\ waited = "pending"
    /\ waited' = "resolved"
    /\ UNCHANGED <<call, misplaced>>
    /\ IF ended THEN UNCHANGED <<ended, closedBy, deskVars>>
                ELSE ended' = TRUE /\ CancelPending /\ CloseStream("exit")
    /\ UNCHANGED <<agent, resume, replaying, turnVars, usageVars, endVars>>

(* process.wait() resolves: the exit handler runs, and a startRun still in *)
(* its handshake loses the race of whileAlive.                             *)
ExitNoticed ==
    /\ agent = "gone" /\ waited = "pending"
    /\ waited' = "resolved"
    /\ IF call \in {"initialize", "session"}
       THEN StartFails("exit")
       ELSE /\ UNCHANGED <<call, misplaced>>
            /\ IF ended THEN UNCHANGED <<ended, closedBy, deskVars>>
               ELSE /\ ended' = TRUE
                    /\ CancelPending
                    /\ CloseStream("exit")
    /\ UNCHANGED <<agent, resume, replaying, turnVars, usageVars, endVars>>

(* process.wait() rejects: the exit handler ignores it, whileAlive does not.*)
WaitRejects ==
    /\ agent \in {"alive", "gone"} /\ waited = "pending"
    /\ waited' = "rejected"
    /\ IF call \in {"initialize", "session"}
       THEN StartFails("start")
       ELSE UNCHANGED <<call, ended, streamVars, deskVars>>
    /\ UNCHANGED <<agent, resume, replaying, turnVars, usageVars, endVars>>

Audible == agent # "none" /\ waited = "pending"

(* requestPermission.                                                      *)
AgentAsks(a, kinds) ==
    /\ Audible /\ turn
    /\ answer[a] = Unasked
    /\ offered' = [offered EXCEPT ![a] = kinds]
    /\ IF ended THEN /\ answer' = [answer EXCEPT ![a] = Cancelled]
                     /\ UNCHANGED pending
                ELSE /\ answer' = [answer EXCEPT ![a] = Waiting]
                     /\ pending' = pending \cup {a}
    /\ UNCHANGED <<call, resume, replaying, ended, agentVars, streamVars, decided, announced,
                   turnVars, usageVars, endVars>>

(* sessionUpdate: history while a session is loaded, the turn's own        *)
(* updates while a prompt is outstanding.                                  *)
SessionUpdate ==
    /\ Audible
    /\ \/ call = "session" /\ resume /\ misplaced' = (misplaced \/ ~replaying)
       \/ turn /\ misplaced' = (misplaced \/ replaying)
    /\ UNCHANGED <<call, resume, replaying, ended, agentVars, closedBy, deskVars, turnVars,
                   usageVars, endVars>>

(* Mutant: a settled prompt leaves its requests waiting. *)
PromptSettlesLeavesWaiting ==
    /\ turn
    /\ turn' = FALSE
    /\ completions' = IF Open THEN completions + 1 ELSE completions
    /\ UNCHANGED <<call, resume, replaying, ended, agentVars, streamVars, deskVars, begun,
                   usageVars, endVars>>

(* The prompt's promise settles: the agent answered, or the prompt failed. *)
PromptSettles ==
    /\ turn
    /\ turn' = FALSE
    /\ completions' = IF Open THEN completions + 1 ELSE completions
    /\ CancelPending
    /\ UNCHANGED <<call, resume, replaying, ended, agentVars, streamVars, begun, usageVars,
                   endVars>>

(* The CLI writes a usage line, often after the turn that spent it.        *)
AgentWrites ==
    /\ agent = "alive" /\ begun > 0
    /\ written < MaxLines
    /\ written' = written + 1
    /\ UNCHANGED <<call, resume, replaying, ended, agentVars, streamVars, deskVars, turnVars,
                   tail, reported, snapshot, atEnd, endVars>>

(* The tail delivers a line; on a closed stream the event is dropped.      *)
TailDelivers ==
    /\ tail = "on" /\ Open
    /\ reported < written
    /\ reported' = reported + 1
    /\ UNCHANGED <<call, resume, replaying, ended, agentVars, streamVars, deskVars, turnVars,
                   tail, written, snapshot, atEnd, endVars>>

-----------------------------------------------------------------------------
(* The caller.  #require lets a call through for a registered run that has *)
(* not ended; a call it refuses, one for a busy session and one for an     *)
(* approval nobody waits on throw and change nothing.                      *)
Require == registered /\ ~ended

(* Mutant: a prompt is sent although one is outstanding. *)
SendMessageWhileBusy ==
    /\ Require
    /\ begun < MaxTurns
    /\ BeginTurn
    /\ UNCHANGED <<call, resume, replaying, ended, agentVars, streamVars, deskVars, usageVars,
                   endVars>>

SendMessage ==
    /\ Require
    /\ ~turn
    /\ begun < MaxTurns
    /\ BeginTurn
    /\ UNCHANGED <<call, resume, replaying, ended, agentVars, streamVars, deskVars, usageVars,
                   endVars>>

(* Mutant: a decision the agent did not offer throws before it answers. *)
ResolveApprovalThrowsFirst(a, d) ==
    /\ Require
    /\ a \in pending
    /\ pending' = pending \ {a}
    /\ decided' = [decided EXCEPT ![a] = d]
    /\ \/ /\ SelectOption(d, offered[a]) = {}
          /\ UNCHANGED <<answer, announced>>
       \/ \E k \in SelectOption(d, offered[a]) :
             /\ answer' = [answer EXCEPT ![a] = k]
             /\ announced' = [announced EXCEPT ![a] = k]
    /\ UNCHANGED <<call, resume, replaying, ended, agentVars, streamVars, offered, turnVars,
                   usageVars, endVars>>

(* resolveApproval(run, a, d).                                             *)
ResolveApproval(a, d) ==
    /\ Require
    /\ a \in pending
    /\ pending' = pending \ {a}
    /\ decided' = [decided EXCEPT ![a] = d]
    /\ \/ /\ SelectOption(d, offered[a]) = {}
          /\ answer' = [answer EXCEPT ![a] = Cancelled]
          /\ UNCHANGED announced
       \/ \E k \in SelectOption(d, offered[a]) :
             /\ answer' = [answer EXCEPT ![a] = k]
             /\ announced' = IF Open THEN [announced EXCEPT ![a] = k] ELSE announced
    /\ UNCHANGED <<call, resume, replaying, ended, agentVars, streamVars, offered, turnVars,
                   usageVars, endVars>>

Interrupt ==
    /\ Require
    /\ CancelPending
    /\ UNCHANGED <<call, resume, replaying, ended, agentVars, streamVars, turnVars, usageVars,
                   endVars>>

(* endRun up to its first await: the run is forgotten, its requests are    *)
(* cancelled and the tail's listener is closed.                            *)
EndRun ==
    /\ registered /\ teardown = "none"
    /\ registered' = FALSE
    /\ ended' = TRUE
    /\ CancelPending
    /\ tail' = "off"
    /\ atEnd' = written
    /\ teardown' = "stop"
    /\ UNCHANGED <<call, resume, replaying, agentVars, streamVars, turnVars, written, reported,
                   snapshot, failed>>

(* Mutant: the stream is closed before the last look at the transcript. *)
TailStoppedClosesFirst ==
    /\ teardown = "stop"
    /\ teardown' = "read"
    /\ failed' \in {failed, failed \cup {"stop"}}
    /\ CloseStream("endRun")
    /\ UNCHANGED <<call, resume, replaying, ended, agentVars, misplaced, deskVars, turnVars,
                   usageVars, registered>>

(* Mutant: a tail that will not stop ends the teardown. *)
TailStoppedGivesUp ==
    /\ teardown = "stop"
    /\ \/ teardown' = "read" /\ UNCHANGED failed
       \/ teardown' = "done" /\ failed' = failed \cup {"stop"}
    /\ UNCHANGED <<call, resume, replaying, ended, agentVars, streamVars, deskVars, turnVars,
                   usageVars, registered>>

(* Killing the tail's process settles.                                     *)
TailStopped ==
    /\ teardown = "stop"
    /\ teardown' = "read"
    /\ failed' \in {failed, failed \cup {"stop"}}
    /\ UNCHANGED <<call, resume, replaying, ended, agentVars, streamVars, deskVars, turnVars,
                   usageVars, registered>>

(* reconcile: the transcript is read in the box ...                        *)
LastLook ==
    /\ teardown = "read"
    /\ \/ teardown' = "emit" /\ snapshot' = written /\ UNCHANGED failed
       \/ teardown' = "kill" /\ failed' = failed \cup {"reconcile"} /\ UNCHANGED snapshot
    /\ UNCHANGED <<call, resume, replaying, ended, agentVars, streamVars, deskVars, turnVars,
                   tail, written, reported, atEnd, registered>>

(* ... and what it held that was not reported yet is emitted.              *)
LastLines ==
    /\ teardown = "emit"
    /\ teardown' = "kill"
    /\ reported' = IF Open /\ snapshot > reported THEN snapshot ELSE reported
    /\ UNCHANGED <<call, resume, replaying, ended, agentVars, streamVars, deskVars, turnVars,
                   tail, written, snapshot, atEnd, registered, failed>>

(* Mutant: a teardown step that failed keeps the stream from being closed. *)
AgentKilledClosesIfClean ==
    /\ teardown = "kill"
    /\ teardown' = "done"
    /\ failed' \in {failed, failed \cup {"kill"}}
    /\ IF failed' = {} THEN CloseStream("endRun") ELSE UNCHANGED closedBy
    /\ UNCHANGED <<call, resume, replaying, ended, agentVars, misplaced, deskVars, turnVars,
                   usageVars, registered>>

(* The kill settles and the stream is closed.  A kill that succeeded has   *)
(* signalled the agent; it leaves when AgentExits lets it.                 *)
AgentKilled ==
    /\ teardown = "kill"
    /\ teardown' = "done"
    /\ failed' \in {failed, failed \cup {"kill"}}
    /\ CloseStream("endRun")
    /\ UNCHANGED <<call, resume, replaying, ended, agentVars, misplaced, deskVars, turnVars,
                   usageVars, registered>>

-----------------------------------------------------------------------------
StartSteps == \/ PinModel \/ Attach \/ InitializeReply \/ SessionReply
              \/ HandshakeFails \/ TailReady \/ TailFails \/ StartGivesUp

AgentSteps == \/ AgentExits \/ ExitNoticed \/ WaitRejects
              \/ \E a \in Approvals, kinds \in Offers : AgentAsks(a, kinds)
              \/ SessionUpdate \/ PromptSettles \/ AgentWrites \/ TailDelivers

CallerSteps == \/ SendMessage
               \/ \E a \in Approvals, d \in Kinds : ResolveApproval(a, d)
               \/ Interrupt \/ EndRun

TeardownSteps == TailStopped \/ LastLook \/ LastLines \/ AgentKilled

Next == StartSteps \/ AgentSteps \/ CallerSteps \/ TeardownSteps

Spec == Init /\ [][Next]_vars

(* Calls on the box settle, one way or the other, and so does wait() once  *)
(* the agent is gone.  Nothing obliges the agent to answer or the caller   *)
(* to call.                                                                *)
FairSpec == /\ Spec
            /\ WF_vars(PinModel) /\ WF_vars(Attach)
            /\ WF_vars(TailReady \/ TailFails)
            /\ WF_vars(StartGivesUp)
            /\ WF_vars(ExitNoticed \/ (agent = "gone" /\ WaitRejects))
            /\ WF_vars(TeardownSteps)

-----------------------------------------------------------------------------
TypeOK == /\ call \in {"pin", "attach", "initialize", "session", "tail", "started",
                       "killing", "failed", "refused"}
          /\ {resume, replaying, misplaced, ended, turn, registered} \subseteq BOOLEAN
          /\ agent \in {"none", "alive", "gone"}
          /\ waited \in {"pending", "resolved", "rejected"}
          /\ tail \in {"none", "on", "off"}
          /\ closedBy \in {"nobody", "start", "exit", "endRun"}
          /\ pending \subseteq Approvals
          /\ offered \in [Approvals -> SUBSET Kinds]
          /\ answer \in [Approvals -> Kinds \cup {Unasked, Waiting, Cancelled}]
          /\ decided \in [Approvals -> Kinds \cup {Waiting}]
          /\ announced \in [Approvals -> Kinds \cup {Waiting}]
          /\ {begun, completions} \subseteq 0..MaxTurns
          /\ {written, reported, snapshot, atEnd} \subseteq 0..MaxLines
          /\ teardown \in {"none", "stop", "read", "emit", "kill", "done"}
          /\ failed \subseteq {"stop", "reconcile", "kill"}

(* The runtime owes an answer exactly to the requests it still remembers:  *)
(* none is dropped unanswered, none answered twice.                        *)
WaitingIsPending ==
    \A a \in Approvals : answer[a] = Waiting <=> a \in pending

(* A request waits only while somebody can still decide it: its event is   *)
(* on an open stream, its turn goes on, and resolveApproval would take the *)
(* run (runtime.ts:64, "nobody will decide any more").                     *)
WaitingCanBeDecided ==
    pending # {} => Open /\ turn /\ Require

(* The stream is closed only for a run that has ended, so that nothing a   *)
(* live run does is pushed onto a closed stream.                           *)
ClosedMeansEnded == ~Open => ended

(* `session/load` replays stay off the stream and the run's own updates    *)
(* are never mistaken for them (runtime.ts:90).                            *)
HistoryStaysOut == ~misplaced

(* One prompt at a time, and one turn_completed for each that settled      *)
(* while the stream was open (runtime.ts:102, core/runtime.ts:24).         *)
OneTurnAtATime ==
    Open => begun = completions + (IF turn THEN 1 ELSE 0)

(* Whatever the transcript held when endRun was called is on the stream    *)
(* that endRun closes, unless the last look itself failed                  *)
(* (runtime.ts:330-335).                                                   *)
LastLookReportsAll ==
    closedBy = "endRun" /\ "reconcile" \notin failed => reported >= atEnd

(* However it went, an ended run is released: endRun runs every step even  *)
(* if one before it failed, and a start that failed leaves neither a       *)
(* registered run nor an open stream nor a tail behind (runtime.ts:116-121)*)
(* and nobody waiting.                                                     *)
Released == ~Open /\ tail # "on" /\ pending = {} /\ ~registered
EndedMeansReleased ==
    teardown = "done" \/ call \in {"killing", "failed"} => Released

(* Approvals go back and forth as the port promises.                       *)
Desk == INSTANCE ApprovalDesk
ImplementsDesk == Desk!Spec

(* An agent that is gone keeps nobody waiting: the requests are answered   *)
(* and the stream is closed, unless wait() itself fails (runtime.ts:204-214).*)
NobodyWaitsOnTheDead ==
    (agent = "gone") ~> ((pending = {} /\ ~Open) \/ waited = "rejected")

(* startRun settles once the agent is gone, whichever await it was on.     *)
StartSettles ==
    (agent = "gone") ~> (call \in {"started", "failed"})

(* endRun gets through its teardown and closes the stream.                 *)
EndRunCloses == (teardown # "none") ~> (teardown = "done" /\ ~Open)

-----------------------------------------------------------------------------
(* What the port and the comments say, and the code does not keep.         *)

(* "when the stream closes, the run's usage is complete"                   *)
(* (core/runtime.ts:38-39), even when endRun closes it and nothing fails.  *)
UsageCompleteAtClose ==
    [][closedBy' = "endRun" /\ Open /\ failed' = {} => reported' = written']_vars

(* "turn_completed ends every turn exactly once" (core/runtime.ts:24).     *)
EveryTurnCompletes == ~Open => completions = begun
=============================================================================
