--------------------------- MODULE AcpRuntimeProofs ---------------------------
(***************************************************************************)
(* AcpRuntime for every set of approvals, every choice of options the      *)
(* agent may offer, and any number of turns and usage lines: requests are  *)
(* answered, a live run has an open stream, turns come one at a time,      *)
(* history stays out, the last look reports everything, an ended run holds *)
(* nothing, and the run as a whole implements ApprovalDesk.  Then the      *)
(* translation of the agent's updates into events (EventTranslation), for  *)
(* any updates, and the settings file a model is pinned in (ModelPin), for *)
(* any settings and any number of pins.                                    *)
(***************************************************************************)
EXTENDS AcpRuntime, EventTranslation, ModelPin, SequenceTheorems, TLAPS

(* How startRun, the registry, the tail, the stream and endRun fit together.*)
Wiring ==
    /\ call # "started" => /\ ~registered /\ ~turn /\ begun = 0
                           /\ teardown = "none" /\ tail = "none"
    /\ call = "started" /\ teardown = "none" => registered
    /\ teardown # "none" => ended /\ ~registered /\ tail = "off"
    /\ call \in {"killing", "failed"} => ~Open
    /\ teardown = "done" => ~Open
    /\ closedBy = "endRun" => teardown = "done"

(* inbox.replaying is up exactly while a session is being loaded.          *)
Replay ==
    /\ call \in {"initialize", "session"} => replaying = resume
    /\ call \in {"tail", "started"} => ~replaying
    /\ HistoryStaysOut

(* What the last look has read, and then reported, on a stream that is     *)
(* still open or that endRun closed.                                       *)
LookBack ==
    /\ atEnd <= written
    /\ teardown = "emit" => snapshot >= atEnd
    /\ (/\ teardown \in {"kill", "done"}
        /\ "reconcile" \notin failed
        /\ closedBy \in {"nobody", "endRun"}) => reported >= atEnd

(* The inductive invariant.                                                *)
IInv == /\ TypeOK
        /\ WaitingIsPending
        /\ WaitingCanBeDecided
        /\ ClosedMeansEnded
        /\ OneTurnAtATime /\ completions <= begun
        /\ Wiring
        /\ Replay
        /\ LookBack

-----------------------------------------------------------------------------
(* A run starts with nothing.                                              *)
LEMMA InitIInv == Init => IInv
<1> SUFFICES ASSUME Init PROVE IInv
  OBVIOUS
<1>1. TypeOK
  <2>1. /\ pending \subseteq Approvals
        /\ offered \in [Approvals -> SUBSET Kinds]
        /\ answer \in [Approvals -> Kinds \cup {Unasked, Waiting, Cancelled}]
        /\ decided \in [Approvals -> Kinds \cup {Waiting}]
        /\ announced \in [Approvals -> Kinds \cup {Waiting}]
    BY Zenon DEF Init
  <2>2. 0 \in 0..MaxTurns /\ 0 \in 0..MaxLines
    BY RuntimeAssumption
  <2>3. {begun, completions} \subseteq 0..MaxTurns
    BY <2>2, Zenon DEF Init
  <2>4. {written, reported, snapshot, atEnd} \subseteq 0..MaxLines
    BY <2>2, Zenon DEF Init
  <2>5. QED
    BY <2>1, <2>3, <2>4 DEF Init, TypeOK
<1>2. WaitingIsPending /\ WaitingCanBeDecided /\ ClosedMeansEnded
  BY RuntimeAssumption DEF Init, WaitingIsPending, WaitingCanBeDecided, ClosedMeansEnded, Open
<1>3. OneTurnAtATime /\ completions <= begun
  BY DEF Init, OneTurnAtATime
<1>4. Wiring /\ Replay
  BY DEF Init, Wiring, Replay, HistoryStaysOut, Open
<1>5. LookBack
  <2>1. atEnd = 0 /\ written = 0 /\ teardown = "none"
    BY DEF Init
  <2>2. atEnd <= written
    BY <2>1
  <2>3. teardown # "emit" /\ teardown \notin {"kill", "done"}
    BY <2>1
  <2>4. QED
    BY <2>2, <2>3 DEF LookBack
<1>6. QED
  BY <1>1, <1>2, <1>3, <1>4, <1>5 DEF IInv

(* The requests keep their types.                                         *)
LEMMA DeskTyped ==
    ASSUME IInv, [Next]_vars
    PROVE  /\ pending' \subseteq Approvals
           /\ offered' \in [Approvals -> SUBSET Kinds]
           /\ answer' \in [Approvals -> Kinds \cup {Unasked, Waiting, Cancelled}]
           /\ decided' \in [Approvals -> Kinds \cup {Waiting}]
           /\ announced' \in [Approvals -> Kinds \cup {Waiting}]
<1> USE DEF agentVars, streamVars, deskVars, turnVars, usageVars, endVars, vars
<1>1. CASE StartSteps
  BY <1>1 DEF IInv, Open, TypeOK, SelectOption, Narrower, Kinds, StartSteps, PinModel,
     Attach, InitializeReply, SessionReply, HandshakeFails, TailReady, TailFails,
     StartGivesUp, StartFails, CancelPending, CloseStream, BeginTurn
<1>2. CASE AgentSteps
  <2>1. CASE AgentExits
    BY <2>1 DEF IInv, Open, TypeOK, SelectOption, Narrower, Kinds, AgentExits
  <2>2. CASE ExitNoticed
    BY <2>2 DEF IInv, Open, TypeOK, SelectOption, Narrower, Kinds, ExitNoticed,
       StartFails, CancelPending, CloseStream
  <2>3. CASE WaitRejects
    BY <2>3 DEF IInv, Open, TypeOK, SelectOption, Narrower, Kinds, WaitRejects,
       StartFails, CancelPending, CloseStream
  <2>4. CASE \E a \in Approvals, kinds \in Offers : AgentAsks(a, kinds)
    BY <2>4, RuntimeAssumption DEF IInv, Open, TypeOK, SelectOption, Narrower, Kinds, AgentAsks, Audible
  <2>5. CASE SessionUpdate
    BY <2>5 DEF IInv, Open, TypeOK, SelectOption, Narrower, Kinds, SessionUpdate, Audible
  <2>6. CASE PromptSettles
    BY <2>6 DEF IInv, Open, TypeOK, SelectOption, Narrower, Kinds, PromptSettles,
       CancelPending
  <2>7. CASE AgentWrites
    BY <2>7 DEF IInv, Open, TypeOK, SelectOption, Narrower, Kinds, AgentWrites
  <2>8. CASE TailDelivers
    BY <2>8 DEF IInv, Open, TypeOK, SelectOption, Narrower, Kinds, TailDelivers
  <2>9. QED
    BY <1>2, <2>1, <2>2, <2>3, <2>4, <2>5, <2>6, <2>7, <2>8 DEF AgentSteps
<1>3. CASE CallerSteps
  BY <1>3 DEF IInv, Open, TypeOK, SelectOption, Narrower, Kinds, CallerSteps, SendMessage,
     ResolveApproval, Interrupt, EndRun, Require, BeginTurn, CancelPending
<1>4. CASE TeardownSteps
  BY <1>4 DEF IInv, Open, TypeOK, SelectOption, Narrower, Kinds, TeardownSteps,
     TailStopped, LastLook, LastLines, AgentKilled, CloseStream
<1>5. CASE UNCHANGED vars
  BY <1>5 DEF IInv, Open, TypeOK, SelectOption, Narrower, Kinds
<1>6. QED
  BY <1>1, <1>2, <1>3, <1>4, <1>5 DEF Next

(* So do the flags of the inbox and of startRun ...                       *)
LEMMA FlagsTyped ==
    ASSUME IInv, [Next]_vars
    PROVE  /\ call' \in {"pin", "attach", "initialize", "session", "tail", "started",
                        "killing", "failed", "refused"}
           /\ resume' \in BOOLEAN /\ replaying' \in BOOLEAN /\ misplaced' \in BOOLEAN
           /\ ended' \in BOOLEAN /\ turn' \in BOOLEAN
           /\ registered' \in BOOLEAN
<1> USE DEF agentVars, streamVars, deskVars, turnVars, usageVars, endVars, vars
<1>1. CASE StartSteps
  BY <1>1 DEF IInv, Open, TypeOK, StartSteps, PinModel, Attach, InitializeReply,
     SessionReply, HandshakeFails, TailReady, TailFails, StartGivesUp, StartFails,
     CancelPending, CloseStream, BeginTurn
<1>2. CASE AgentSteps
  BY <1>2 DEF IInv, Open, TypeOK, AgentSteps, AgentExits, ExitNoticed, WaitRejects,
     AgentAsks, SessionUpdate, PromptSettles, AgentWrites, TailDelivers, Audible,
     StartFails, CancelPending, CloseStream
<1>3. CASE CallerSteps
  BY <1>3 DEF IInv, Open, TypeOK, CallerSteps, SendMessage, ResolveApproval, Interrupt,
     EndRun, Require, BeginTurn, CancelPending
<1>4. CASE TeardownSteps
  BY <1>4 DEF IInv, Open, TypeOK, TeardownSteps, TailStopped, LastLook, LastLines,
     AgentKilled, CloseStream
<1>5. CASE UNCHANGED vars
  BY <1>5 DEF IInv, Open, TypeOK
<1>6. QED
  BY <1>1, <1>2, <1>3, <1>4, <1>5 DEF Next

(* ... the states of the processes and of the teardown ...                *)
LEMMA EnumsTyped ==
    ASSUME IInv, [Next]_vars
    PROVE  /\ agent' \in {"none", "alive", "gone"}
           /\ waited' \in {"pending", "resolved", "rejected"}
           /\ tail' \in {"none", "on", "off"}
           /\ closedBy' \in {"nobody", "start", "exit", "endRun"}
           /\ teardown' \in {"none", "stop", "read", "emit", "kill", "done"}
           /\ failed' \subseteq {"stop", "reconcile", "kill"}
<1> USE DEF agentVars, streamVars, deskVars, turnVars, usageVars, endVars, vars
<1>1. CASE StartSteps
  <2>1. CASE PinModel
    BY <2>1 DEF IInv, Open, TypeOK, PinModel
  <2>2. CASE Attach
    BY <2>2 DEF IInv, Open, TypeOK, Attach
  <2>3. CASE InitializeReply
    BY <2>3 DEF IInv, Open, TypeOK, InitializeReply
  <2>4. CASE SessionReply
    BY <2>4 DEF IInv, Open, TypeOK, SessionReply
  <2>5. CASE HandshakeFails
    BY <2>5 DEF IInv, Open, TypeOK, HandshakeFails, StartFails, CancelPending, CloseStream
  <2>6. CASE TailReady
    BY <2>6 DEF IInv, Open, TypeOK, TailReady, BeginTurn
  <2>7. CASE TailFails
    BY <2>7 DEF IInv, Open, TypeOK, TailFails, StartFails, CancelPending, CloseStream
  <2>8. CASE StartGivesUp
    BY <2>8 DEF IInv, Open, TypeOK, StartGivesUp
  <2>9. QED
    BY <1>1, <2>1, <2>2, <2>3, <2>4, <2>5, <2>6, <2>7, <2>8 DEF StartSteps
<1>2. CASE AgentSteps
  <2>1. CASE AgentExits
    BY <2>1 DEF IInv, Open, TypeOK, AgentExits
  <2>2. CASE ExitNoticed
    BY <2>2 DEF IInv, Open, TypeOK, ExitNoticed, StartFails, CancelPending, CloseStream
  <2>3. CASE WaitRejects
    BY <2>3 DEF IInv, Open, TypeOK, WaitRejects, StartFails, CancelPending, CloseStream
  <2>4. CASE \E a \in Approvals, kinds \in Offers : AgentAsks(a, kinds)
    BY <2>4 DEF IInv, Open, TypeOK, AgentAsks, Audible
  <2>5. CASE SessionUpdate
    BY <2>5 DEF IInv, Open, TypeOK, SessionUpdate, Audible
  <2>6. CASE PromptSettles
    BY <2>6 DEF IInv, Open, TypeOK, PromptSettles, CancelPending
  <2>7. CASE AgentWrites
    BY <2>7 DEF IInv, Open, TypeOK, AgentWrites
  <2>8. CASE TailDelivers
    BY <2>8 DEF IInv, Open, TypeOK, TailDelivers
  <2>9. QED
    BY <1>2, <2>1, <2>2, <2>3, <2>4, <2>5, <2>6, <2>7, <2>8 DEF AgentSteps
<1>3. CASE CallerSteps
  <2>1. CASE SendMessage
    BY <2>1 DEF IInv, Open, TypeOK, SendMessage, Require, BeginTurn
  <2>2. CASE \E a \in Approvals, d \in Kinds : ResolveApproval(a, d)
    BY <2>2 DEF IInv, Open, TypeOK, ResolveApproval, Require
  <2>3. CASE Interrupt
    BY <2>3 DEF IInv, Open, TypeOK, Interrupt, Require, CancelPending
  <2>4. CASE EndRun
    BY <2>4 DEF IInv, Open, TypeOK, EndRun, CancelPending
  <2>5. QED
    BY <1>3, <2>1, <2>2, <2>3, <2>4 DEF CallerSteps
<1>4. CASE TeardownSteps
  BY <1>4 DEF IInv, Open, TypeOK, TeardownSteps, TailStopped, LastLook, LastLines,
     AgentKilled, CloseStream
<1>5. CASE UNCHANGED vars
  BY <1>5 DEF IInv, Open, TypeOK
<1>6. QED
  BY <1>1, <1>2, <1>3, <1>4, <1>5 DEF Next

(* ... and the counters stay within their bounds.                         *)
LEMMA CountersTyped ==
    ASSUME IInv, [Next]_vars
    PROVE  /\ begun' \in 0..MaxTurns /\ completions' \in 0..MaxTurns
           /\ written' \in 0..MaxLines /\ reported' \in 0..MaxLines
           /\ snapshot' \in 0..MaxLines /\ atEnd' \in 0..MaxLines
<1> USE DEF agentVars, streamVars, deskVars, turnVars, usageVars, endVars, vars
<1>1. CASE StartSteps
  BY <1>1, RuntimeAssumption DEF IInv, Open, TypeOK, OneTurnAtATime, Wiring, StartSteps, PinModel, Attach,
     InitializeReply, SessionReply, HandshakeFails, TailReady, TailFails, StartGivesUp,
     StartFails, CancelPending, CloseStream, BeginTurn
<1>2. CASE AgentSteps
  BY <1>2, RuntimeAssumption DEF IInv, Open, TypeOK, OneTurnAtATime, Wiring, AgentSteps, AgentExits,
     ExitNoticed, WaitRejects, AgentAsks, SessionUpdate, PromptSettles, AgentWrites,
     TailDelivers, Audible, StartFails, CancelPending, CloseStream
<1>3. CASE CallerSteps
  BY <1>3, RuntimeAssumption DEF IInv, Open, TypeOK, OneTurnAtATime, Wiring, CallerSteps, SendMessage,
     ResolveApproval, Interrupt, EndRun, Require, BeginTurn, CancelPending
<1>4. CASE TeardownSteps
  BY <1>4 DEF IInv, Open, TypeOK, OneTurnAtATime, Wiring, TeardownSteps, TailStopped,
     LastLook, LastLines, AgentKilled, CloseStream
<1>5. CASE UNCHANGED vars
  BY <1>5 DEF IInv, Open, TypeOK, OneTurnAtATime, Wiring
<1>6. QED
  BY <1>1, <1>2, <1>3, <1>4, <1>5 DEF Next

(* A waiting request is remembered, can be decided, and its stream is open.*)
LEMMA RequestsKept ==
    ASSUME IInv, [Next]_vars
    PROVE  WaitingIsPending' /\ WaitingCanBeDecided' /\ ClosedMeansEnded'
<1> USE DEF agentVars, streamVars, deskVars, turnVars, usageVars, endVars, vars
<1>1. CASE StartSteps
  BY <1>1 DEF IInv, Open, TypeOK, WaitingIsPending, WaitingCanBeDecided, ClosedMeansEnded,
     Wiring, Require, StartSteps, PinModel, Attach, InitializeReply, SessionReply,
     HandshakeFails, TailReady, TailFails, StartGivesUp, StartFails, CancelPending,
     CloseStream, BeginTurn
<1>2. CASE AgentSteps
  BY <1>2, RuntimeAssumption DEF IInv, Open, TypeOK, WaitingIsPending, WaitingCanBeDecided, ClosedMeansEnded,
     Wiring, Require, AgentSteps, AgentExits, ExitNoticed, WaitRejects, AgentAsks,
     SessionUpdate, PromptSettles, AgentWrites, TailDelivers, Audible, StartFails,
     CancelPending, CloseStream
<1>3. CASE CallerSteps
  <2>1. CASE SendMessage
    BY <2>1 DEF IInv, Open, TypeOK, WaitingIsPending, WaitingCanBeDecided,
       ClosedMeansEnded, Wiring, Require, SendMessage, BeginTurn
  <2>2. ASSUME NEW a \in Approvals, NEW d \in Kinds, ResolveApproval(a, d)
        PROVE  WaitingIsPending' /\ WaitingCanBeDecided' /\ ClosedMeansEnded'
    <3>1. /\ Require /\ a \in pending /\ pending' = pending \ {a}
          /\ UNCHANGED <<ended, closedBy, registered, turn>>
      BY <2>2 DEF ResolveApproval
    <3>2. SelectOption(d, offered[a]) \subseteq Kinds
      BY DEF SelectOption, Narrower, Kinds
    <3>3. PICK k \in Kinds \cup {Cancelled} : answer' = [answer EXCEPT ![a] = k]
      BY <2>2, <3>2 DEF ResolveApproval
    <3>4. k # Waiting
      BY RuntimeAssumption
    <3>5. WaitingIsPending'
      BY <3>1, <3>3, <3>4 DEF IInv, TypeOK, WaitingIsPending
    <3>6. QED
      BY <3>1, <3>5 DEF IInv, WaitingCanBeDecided, ClosedMeansEnded, Open, Require
  <2>3. CASE Interrupt
    BY <2>3, RuntimeAssumption DEF IInv, Open, TypeOK, WaitingIsPending, WaitingCanBeDecided,
       ClosedMeansEnded, Wiring, Require, Interrupt, CancelPending
  <2>4. CASE EndRun
    BY <2>4, RuntimeAssumption DEF IInv, Open, TypeOK, WaitingIsPending, WaitingCanBeDecided,
       ClosedMeansEnded, Wiring, Require, EndRun, CancelPending
  <2>5. QED
    BY <1>3, <2>1, <2>2, <2>3, <2>4 DEF CallerSteps
<1>4. CASE TeardownSteps
  BY <1>4 DEF IInv, Open, TypeOK, WaitingIsPending, WaitingCanBeDecided, ClosedMeansEnded,
     Wiring, Require, TeardownSteps, TailStopped, LastLook, LastLines, AgentKilled,
     CloseStream
<1>5. CASE UNCHANGED vars
  BY <1>5 DEF IInv, Open, TypeOK, WaitingIsPending, WaitingCanBeDecided, ClosedMeansEnded,
     Wiring, Require
<1>6. QED
  BY <1>1, <1>2, <1>3, <1>4, <1>5 DEF Next

(* Prompts and turn_completed events stay in step.                        *)
LEMMA TurnsKept ==
    ASSUME IInv, [Next]_vars
    PROVE  OneTurnAtATime' /\ (completions <= begun)'
<1> USE DEF agentVars, streamVars, deskVars, turnVars, usageVars, endVars, vars
<1>1. CASE StartSteps
  BY <1>1 DEF IInv, Open, TypeOK, OneTurnAtATime, Wiring, StartSteps, PinModel, Attach,
     InitializeReply, SessionReply, HandshakeFails, TailReady, TailFails, StartGivesUp,
     StartFails, CancelPending, CloseStream, BeginTurn
<1>2. CASE AgentSteps
  BY <1>2 DEF IInv, Open, TypeOK, OneTurnAtATime, Wiring, AgentSteps, AgentExits,
     ExitNoticed, WaitRejects, AgentAsks, SessionUpdate, PromptSettles, AgentWrites,
     TailDelivers, Audible, StartFails, CancelPending, CloseStream
<1>3. CASE CallerSteps
  BY <1>3 DEF IInv, Open, TypeOK, OneTurnAtATime, Wiring, CallerSteps, SendMessage,
     ResolveApproval, Interrupt, EndRun, Require, BeginTurn, CancelPending
<1>4. CASE TeardownSteps
  BY <1>4 DEF IInv, Open, TypeOK, OneTurnAtATime, Wiring, TeardownSteps, TailStopped,
     LastLook, LastLines, AgentKilled, CloseStream
<1>5. CASE UNCHANGED vars
  BY <1>5 DEF IInv, Open, TypeOK, OneTurnAtATime, Wiring
<1>6. QED
  BY <1>1, <1>2, <1>3, <1>4, <1>5 DEF Next

(* The parts of a run go on fitting together.                             *)
LEMMA WiringKept ==
    ASSUME IInv, [Next]_vars
    PROVE  Wiring'
<1> USE DEF agentVars, streamVars, deskVars, turnVars, usageVars, endVars, vars
<1>1. CASE StartSteps
  BY <1>1 DEF IInv, Open, Wiring, ClosedMeansEnded, StartSteps, PinModel, Attach,
     InitializeReply, SessionReply, HandshakeFails, TailReady, TailFails, StartGivesUp,
     StartFails, CancelPending, CloseStream, BeginTurn
<1>2. CASE AgentSteps
  BY <1>2 DEF IInv, Open, Wiring, ClosedMeansEnded, AgentSteps, AgentExits, ExitNoticed,
     WaitRejects, AgentAsks, SessionUpdate, PromptSettles, AgentWrites, TailDelivers,
     Audible, StartFails, CancelPending, CloseStream
<1>3. CASE CallerSteps
  BY <1>3 DEF IInv, Open, Wiring, ClosedMeansEnded, CallerSteps, SendMessage,
     ResolveApproval, Interrupt, EndRun, Require, BeginTurn, CancelPending
<1>4. CASE TeardownSteps
  BY <1>4 DEF IInv, Open, Wiring, ClosedMeansEnded, TeardownSteps, TailStopped, LastLook,
     LastLines, AgentKilled, CloseStream
<1>5. CASE UNCHANGED vars
  BY <1>5 DEF IInv, Open, Wiring, ClosedMeansEnded
<1>6. QED
  BY <1>1, <1>2, <1>3, <1>4, <1>5 DEF Next

(* The replay flag is down before the first prompt is sent.               *)
LEMMA ReplayKept ==
    ASSUME IInv, [Next]_vars
    PROVE  Replay'
<1> USE DEF agentVars, streamVars, deskVars, turnVars, usageVars, endVars, vars
<1>1. CASE StartSteps
  BY <1>1 DEF IInv, Open, Replay, HistoryStaysOut, Wiring, StartSteps, PinModel, Attach,
     InitializeReply, SessionReply, HandshakeFails, TailReady, TailFails, StartGivesUp,
     StartFails, CancelPending, CloseStream, BeginTurn
<1>2. CASE AgentSteps
  <2>1. CASE AgentExits
    BY <2>1 DEF IInv, Open, Replay, HistoryStaysOut, Wiring, AgentExits
  <2>2. CASE ExitNoticed
    BY <2>2 DEF IInv, Open, Replay, HistoryStaysOut, Wiring, ExitNoticed, StartFails,
       CancelPending, CloseStream
  <2>3. CASE WaitRejects
    BY <2>3 DEF IInv, Open, Replay, HistoryStaysOut, Wiring, WaitRejects, StartFails,
       CancelPending, CloseStream
  <2>4. CASE \E a \in Approvals, kinds \in Offers : AgentAsks(a, kinds)
    BY <2>4 DEF IInv, Open, Replay, HistoryStaysOut, Wiring, AgentAsks, Audible
  <2>5. CASE SessionUpdate
    BY <2>5 DEF IInv, Open, Replay, HistoryStaysOut, Wiring, SessionUpdate, Audible
  <2>6. CASE PromptSettles
    BY <2>6 DEF IInv, Open, Replay, HistoryStaysOut, Wiring, PromptSettles, CancelPending
  <2>7. CASE AgentWrites
    BY <2>7 DEF IInv, Open, Replay, HistoryStaysOut, Wiring, AgentWrites
  <2>8. CASE TailDelivers
    BY <2>8 DEF IInv, Open, Replay, HistoryStaysOut, Wiring, TailDelivers
  <2>9. QED
    BY <1>2, <2>1, <2>2, <2>3, <2>4, <2>5, <2>6, <2>7, <2>8 DEF AgentSteps
<1>3. CASE CallerSteps
  BY <1>3 DEF IInv, Open, Replay, HistoryStaysOut, Wiring, CallerSteps, SendMessage,
     ResolveApproval, Interrupt, EndRun, Require, BeginTurn, CancelPending
<1>4. CASE TeardownSteps
  BY <1>4 DEF IInv, Open, Replay, HistoryStaysOut, Wiring, TeardownSteps, TailStopped,
     LastLook, LastLines, AgentKilled, CloseStream
<1>5. CASE UNCHANGED vars
  BY <1>5 DEF IInv, Open, Replay, HistoryStaysOut, Wiring
<1>6. QED
  BY <1>1, <1>2, <1>3, <1>4, <1>5 DEF Next

(* The last look reads, and then reports, what endRun found.              *)
LEMMA LookBackKept ==
    ASSUME IInv, [Next]_vars
    PROVE  LookBack'
<1> USE DEF agentVars, streamVars, deskVars, turnVars, usageVars, endVars, vars
<1>1. CASE StartSteps
  BY <1>1 DEF IInv, Open, TypeOK, LookBack, Wiring, StartSteps, PinModel, Attach,
     InitializeReply, SessionReply, HandshakeFails, TailReady, TailFails, StartGivesUp,
     StartFails, CancelPending, CloseStream, BeginTurn
<1>2. CASE AgentSteps
  BY <1>2 DEF IInv, Open, TypeOK, LookBack, Wiring, AgentSteps, AgentExits, ExitNoticed,
     WaitRejects, AgentAsks, SessionUpdate, PromptSettles, AgentWrites, TailDelivers,
     Audible, StartFails, CancelPending, CloseStream
<1>3. CASE CallerSteps
  BY <1>3 DEF IInv, Open, TypeOK, LookBack, Wiring, CallerSteps, SendMessage,
     ResolveApproval, Interrupt, EndRun, Require, BeginTurn, CancelPending
<1>4. CASE TeardownSteps
  BY <1>4 DEF IInv, Open, TypeOK, LookBack, Wiring, TeardownSteps, TailStopped, LastLook,
     LastLines, AgentKilled, CloseStream
<1>5. CASE UNCHANGED vars
  BY <1>5 DEF IInv, Open, TypeOK, LookBack, Wiring
<1>6. QED
  BY <1>1, <1>2, <1>3, <1>4, <1>5 DEF Next

LEMMA NextIInv == IInv /\ [Next]_vars => IInv'
<1> SUFFICES ASSUME IInv, [Next]_vars PROVE IInv'
  OBVIOUS
<1>1. TypeOK'
  BY DeskTyped, FlagsTyped, EnumsTyped, CountersTyped DEF TypeOK
<1>2. QED
  BY <1>1, RequestsKept, TurnsKept, WiringKept, ReplayKept, LookBackKept DEF IInv

(* Every reachable state satisfies the inductive invariant.                *)
THEOREM RuntimeInvariant == Spec => []IInv
BY InitIInv, NextIInv, PTL DEF Spec

(* Type correctness, and the bounds of turns and lines.                   *)
THEOREM RuntimeTypes == Spec => []TypeOK
<1>1. IInv => TypeOK
  BY DEF IInv
<1>2. QED
  BY <1>1, RuntimeInvariant, PTL

(* The runtime remembers exactly the requests it owes an answer.          *)
THEOREM RequestsAreRemembered == Spec => []WaitingIsPending
<1>1. IInv => WaitingIsPending
  BY DEF IInv
<1>2. QED
  BY <1>1, RuntimeInvariant, PTL

(* A request waits only while its run, its turn and its stream go on.     *)
THEOREM RequestsCanBeDecided == Spec => []WaitingCanBeDecided
<1>1. IInv => WaitingCanBeDecided
  BY DEF IInv
<1>2. QED
  BY <1>1, RuntimeInvariant, PTL

(* No live run has a closed stream.                                       *)
THEOREM LiveRunsHaveAStream == Spec => []ClosedMeansEnded
<1>1. IInv => ClosedMeansEnded
  BY DEF IInv
<1>2. QED
  BY <1>1, RuntimeInvariant, PTL

(* Prompts do not overlap, and each one that settles on an open stream is *)
(* completed once.                                                        *)
THEOREM TurnsAreOrdered == Spec => []OneTurnAtATime
<1>1. IInv => OneTurnAtATime
  BY DEF IInv
<1>2. QED
  BY <1>1, RuntimeInvariant, PTL

(* A resumed session's history never reaches the stream.                  *)
THEOREM HistoryIsNotReplayed == Spec => []HistoryStaysOut
<1>1. IInv => HistoryStaysOut
  BY DEF IInv, Replay
<1>2. QED
  BY <1>1, RuntimeInvariant, PTL

(* What the transcript held when endRun was called is on the stream endRun*)
(* closes.                                                                *)
THEOREM LastLookIsComplete == Spec => []LastLookReportsAll
<1>1. IInv => LastLookReportsAll
  BY DEF IInv, LookBack, Wiring, LastLookReportsAll
<1>2. QED
  BY <1>1, RuntimeInvariant, PTL

(* An ended run, and a start that failed, hold nothing.                   *)
THEOREM EndedRunsAreReleased == Spec => []EndedMeansReleased
<1>1. IInv => EndedMeansReleased
  BY DEF IInv, EndedMeansReleased, Released, WaitingCanBeDecided, Wiring, Require, TypeOK
<1>2. QED
  BY <1>1, RuntimeInvariant, PTL

-----------------------------------------------------------------------------
(* cancelPending is the desk giving up.                                    *)
LEMMA CancelIsGiveUp ==
    ASSUME IInv, CancelPending
    PROVE  Desk!GiveUp
BY DEF IInv, WaitingIsPending, CancelPending, Desk!GiveUp, TypeOK

(* Every step of the run is a step of the desk, or leaves the desk alone.  *)
LEMMA NextImplementsDesk ==
    ASSUME IInv, [Next]_vars
    PROVE  [Desk!Next]_Desk!vars
<1>0. /\ Desk!Kinds = Kinds
      /\ \A d : Desk!NotWiderThan(d) = NotWiderThan(d)
  BY DEF Kinds, Desk!Kinds, NotWiderThan, Desk!NotWiderThan, Narrower, Desk!Narrower
<1>1. CASE UNCHANGED deskVars
  BY <1>1 DEF deskVars, Desk!vars
<1>2. CASE CancelPending
  BY <1>2, CancelIsGiveUp DEF Desk!Next
<1>3. ASSUME NEW a \in Approvals, NEW kinds \in Offers, AgentAsks(a, kinds)
      PROVE  Desk!Next
  <2>1. kinds \in SUBSET Kinds
    BY RuntimeAssumption
  <2>2. Desk!Ask(a, kinds)
    BY <1>3 DEF AgentAsks, Desk!Ask
  <2>3. \E b \in Approvals, ks \in SUBSET Kinds : Desk!Ask(b, ks)
    BY <2>1, <2>2, Zenon
  <2>4. QED
    BY <1>0, <2>3, Zenon DEF Desk!Next
<1>4. ASSUME NEW a \in Approvals, NEW d \in Kinds, ResolveApproval(a, d)
      PROVE  Desk!Next
  <2> DEFINE selected == SelectOption(d, offered[a])
  <2>1. /\ answer[a] = Waiting /\ Open /\ UNCHANGED offered
        /\ decided' = [decided EXCEPT ![a] = d]
    BY <1>4 DEF IInv, WaitingIsPending, WaitingCanBeDecided, ResolveApproval
  <2>2. /\ selected \subseteq offered[a] \cap NotWiderThan(d)
        /\ d \in offered[a] => selected = {d}
    BY DEF SelectOption, NotWiderThan
  <2>3. selected = {} => offered[a] \cap NotWiderThan(d) = {}
    BY DEF SelectOption, NotWiderThan
  <2>4. \/ /\ selected = {}
           /\ answer' = [answer EXCEPT ![a] = Cancelled]
           /\ UNCHANGED announced
        \/ \E k \in selected : /\ answer' = [answer EXCEPT ![a] = k]
                               /\ announced' = [announced EXCEPT ![a] = k]
    BY <1>4, <2>1 DEF ResolveApproval
  <2> HIDE DEF selected
  <2>5. Desk!Decide(a, d)
    BY <1>0, <2>1, <2>2, <2>3, <2>4 DEF Desk!Decide
  <2>6. \E b \in Approvals, e \in Kinds : Desk!Decide(b, e)
    BY <2>5, Zenon
  <2>7. QED
    BY <1>0, <2>6, Zenon DEF Desk!Next
<1>5. QED
  BY <1>1, <1>2, <1>3, <1>4
     DEF Next, StartSteps, AgentSteps, CallerSteps, TeardownSteps, PinModel, Attach,
         InitializeReply, SessionReply, HandshakeFails, TailReady, TailFails, StartGivesUp,
         StartFails, AgentExits, ExitNoticed, WaitRejects, SessionUpdate, PromptSettles,
         AgentWrites, TailDelivers, SendMessage, Interrupt, EndRun, TailStopped, LastLook,
         LastLines, AgentKilled, vars

(* The run implements the approval desk: every request gets at most one    *)
(* answer, which is the person's decision as far as the agent offered it,  *)
(* or "cancelled", and the stream tells exactly that decision.             *)
THEOREM RunImplementsDesk == Spec => ImplementsDesk
<1>1. Init => Desk!Init
  BY DEF Init, Desk!Init
<1>2. IInv /\ [Next]_vars => [Desk!Next]_Desk!vars
  BY NextImplementsDesk
<1>3. QED
  BY <1>1, <1>2, RuntimeInvariant, PTL DEF Spec, ImplementsDesk, Desk!Spec
-----------------------------------------------------------------------------
(* Event translation *)

EventType ==
    [kind : {"text_delta", "thinking", "screenshot", "tool_call", "tool_call_update"},
     n : Nat, call : CallIds \cup {Absent}, tool : ToolNames \cup {Absent, "unknown"},
     status : ToolStatuses \cup {Absent, "pending"}]

TranslationTypes ==
    /\ updates \in Seq(ToolUpdate \cup OtherUpdate)
    /\ events \in Seq(EventType)
    /\ \A i \in DOMAIN events : events[i].n \in 1..Len(updates)
    /\ DOMAIN index \subseteq CallIds
    /\ \A c \in DOMAIN index : /\ index[c].toolName \in ToolNames \cup {Absent, "unknown"}
                               /\ index[c].status \in ToolStatuses \cup {Absent, "pending"}

(* The updates of a call, those that announce it, and those since it was   *)
(* announced last, among the first m.                                      *)
Own(c, m) == {k \in 1..m : updates[k] \in ToolUpdate /\ updates[k].call = c}
Announced(c, m) == {k \in Own(c, m) : updates[k].type = "tool_call"}
Since(c, m) == {k \in Own(c, m) : \A a \in Announced(c, m) : a <= k}

IsLastGiven(ups, told, status) ==
    LET given == {k \in told : ups[k].status # Absent} IN
    IF given = {} THEN status = "pending"
    ELSE \E k \in given : status = ups[k].status /\ \A j \in given : j <= k

(* The index has the last status of every call that was announced.         *)
IndexInv ==
    /\ \A c : c \in DOMAIN index <=> Announced(c, Len(updates)) # {}
    /\ \A c \in DOMAIN index : IsLastGiven(updates, Since(c, Len(updates)), index[c].status)

TranslationInv == TranslationTypes /\ IndexInv /\ StatusesStandAlone

LEMMA ToldIsSince ==
  ASSUME NEW e
  PROVE  Told(e) = IF Announced(e.call, e.n) = {} THEN {e.n} ELSE Since(e.call, e.n)
  BY DEF Told, Own, Announced, Since

(* What was told of a call up to some update is not changed by later ones. *)
LEMMA PastIsPast ==
  ASSUME updates \in Seq(ToolUpdate \cup OtherUpdate), NEW u \in ToolUpdate \cup OtherUpdate,
         updates' = Append(updates, u), NEW c, NEW m \in 0..Len(updates)
  PROVE  /\ Len(updates') = Len(updates) + 1 /\ updates'[Len(updates) + 1] = u
         /\ \A k \in 1..Len(updates) : updates'[k] = updates[k]
         /\ Own(c, m)' = Own(c, m) /\ Announced(c, m)' = Announced(c, m)
         /\ Since(c, m)' = Since(c, m)
<1>1. /\ Len(updates') = Len(updates) + 1 /\ updates'[Len(updates) + 1] = u
      /\ \A k \in 1..Len(updates) : updates'[k] = updates[k]
  OBVIOUS
<1>2. Own(c, m)' = Own(c, m)
  BY <1>1 DEF Own
<1>3. \A k \in Own(c, m) : updates'[k] = updates[k]
  BY <1>1 DEF Own
<1>4. Announced(c, m)' = Announced(c, m)
  BY <1>2, <1>3 DEF Announced
<1>. QED  BY <1>1, <1>2, <1>4 DEF Since

LEMMA LastGivenIsKept ==
  ASSUME updates \in Seq(ToolUpdate \cup OtherUpdate), NEW u \in ToolUpdate \cup OtherUpdate,
         updates' = Append(updates, u), NEW told \in SUBSET (1..Len(updates)), NEW status
  PROVE  IsLastGiven(updates', told, status) <=> IsLastGiven(updates, told, status)
<1>1. \A k \in told : updates'[k] = updates[k]
  BY PastIsPast
<1>. QED  BY <1>1 DEF IsLastGiven

(* The update that comes in belongs to its own call and to no other.       *)
LEMMA NewestUpdate ==
  ASSUME updates \in Seq(ToolUpdate \cup OtherUpdate), NEW u \in ToolUpdate \cup OtherUpdate,
         updates' = Append(updates, u), NEW c, NEW n, n = Len(updates) + 1
  PROVE  /\ u \in ToolUpdate /\ u.call = c => Own(c, n)' = Own(c, n - 1) \cup {n}
         /\ ~(u \in ToolUpdate /\ u.call = c) => Own(c, n)' = Own(c, n - 1)
<1>1. /\ Len(updates') = n /\ updates'[n] = u
      /\ \A k \in 1..(n - 1) : updates'[k] = updates[k]
  OBVIOUS
<1>2. 1..n = 1..(n - 1) \cup {n}
  OBVIOUS
<1>. QED  BY <1>1, <1>2 DEF Own

LEMMA AnnouncingStartsOver ==
  ASSUME updates \in Seq(ToolUpdate \cup OtherUpdate), NEW u \in ToolUpdate,
         updates' = Append(updates, u), NEW n, n = Len(updates) + 1, u.type = "tool_call"
  PROVE  Since(u.call, n)' = {n} /\ Announced(u.call, n)' # {}
<1>. u \in ToolUpdate \cup OtherUpdate
  OBVIOUS
<1>1. Own(u.call, n)' = Own(u.call, n - 1) \cup {n} /\ updates'[n] = u /\ n \in Nat
  <2>1. Own(u.call, n)' = Own(u.call, n - 1) \cup {n}
    BY NewestUpdate
  <2>. QED  BY <2>1
<1>2. n \in Announced(u.call, n)'
  BY <1>1 DEF Announced
<1>3. \A k \in Own(u.call, n - 1) : k \in Nat /\ k < n
  BY <1>1 DEF Own
<1>4. \A a \in Announced(u.call, n)' : a <= n
  <2>1. \A a \in Own(u.call, n - 1) \cup {n} : a <= n
    BY <1>1, <1>3
  <2>. QED  BY <2>1, <1>1 DEF Announced
<1>5. \A k \in Own(u.call, n - 1) : ~(n <= k)
  BY <1>3, <1>1 DEF Own
<1>. QED  BY <1>1, <1>2, <1>4, <1>5 DEF Since

LEMMA UpdatesAddUp ==
  ASSUME updates \in Seq(ToolUpdate \cup OtherUpdate), NEW u \in ToolUpdate,
         updates' = Append(updates, u), NEW n, n = Len(updates) + 1, u.type # "tool_call"
  PROVE  /\ Since(u.call, n)' = Since(u.call, n - 1) \cup {n}
         /\ Announced(u.call, n)' = Announced(u.call, n - 1)
<1>1. /\ Own(u.call, n)' = Own(u.call, n - 1) \cup {n} /\ updates'[n] = u /\ n \in Nat
      /\ \A k \in Own(u.call, n - 1) : updates'[k] = updates[k]
  BY NewestUpdate DEF Own
<1>2. Announced(u.call, n)' = Announced(u.call, n - 1)
  BY <1>1 DEF Announced
<1>3. \A a \in Announced(u.call, n - 1) : a <= n
  BY <1>1 DEF Announced, Own
<1>. QED  BY <1>1, <1>2, <1>3 DEF Since

LEMMA OthersStay ==
  ASSUME updates \in Seq(ToolUpdate \cup OtherUpdate), NEW u \in ToolUpdate \cup OtherUpdate,
         updates' = Append(updates, u), NEW n, n = Len(updates) + 1, NEW c,
         ~(u \in ToolUpdate /\ u.call = c)
  PROVE  Since(c, n)' = Since(c, n - 1) /\ Announced(c, n)' = Announced(c, n - 1)
<1>1. Own(c, n)' = Own(c, n - 1) /\ \A k \in Own(c, n - 1) : updates'[k] = updates[k]
  BY NewestUpdate DEF Own
<1>. QED  BY <1>1 DEF Since, Announced

(* A status that is given is the last one; otherwise the last one stays.   *)
LEMMA GivenIsLast ==
  ASSUME updates \in Seq(ToolUpdate \cup OtherUpdate), NEW u \in ToolUpdate,
         updates' = Append(updates, u), NEW n, n = Len(updates) + 1,
         NEW told \in SUBSET (1..Len(updates)), NEW status, IsLastGiven(updates, told, status)
  PROVE  IsLastGiven(updates', told \cup {n}, Given(u.status, status))
<1>1. /\ updates'[n] = u /\ \A k \in told : updates'[k] = updates[k] /\ k \in Nat /\ k < n
      /\ n \in Nat
  <2>1. updates'[n] = u /\ n \in Nat
    OBVIOUS
  <2>2. \A k \in 1..Len(updates) : updates'[k] = updates[k] /\ k \in Nat /\ k < n
    OBVIOUS
  <2>. QED  BY <2>1, <2>2
<1>. DEFINE given == {k \in told : updates[k].status # Absent}
<1>2. given \subseteq told
  OBVIOUS
<1>3. CASE u.status = Absent
  <2>1. {k \in told \cup {n} : updates'[k].status # Absent} = given
    BY <1>1, <1>3
  <2>2. \A k \in given : updates'[k].status = updates[k].status
    BY <1>1
  <2>3. Given(u.status, status) = status
    BY <1>3 DEF Given
  <2>4. IsLastGiven(updates', told \cup {n}, status)
    BY <2>1, <2>2 DEF IsLastGiven
  <2>. QED  BY <2>3, <2>4
<1>4. CASE u.status # Absent
  <2>1. {k \in told \cup {n} : updates'[k].status # Absent} = given \cup {n}
    BY <1>1, <1>4
  <2>2. \A j \in given \cup {n} : j <= n
    <3>1. \A j \in told \cup {n} : j <= n
      BY <1>1
    <3>. QED  BY <3>1, <1>2
  <2>3. Given(u.status, status) = updates'[n].status
    BY <1>1, <1>4 DEF Given
  <2>. QED  BY <2>1, <2>2, <2>3 DEF IsLastGiven
<1>. QED  BY <1>3, <1>4

(* The events of an update: its images, and one that closes.               *)
LEMMA EventsGrow ==
  ASSUME TranslationTypes, NEW u \in ToolUpdate, NEW n \in Nat, NEW last \in EventType,
         last.n = n, u.call \in CallIds
  PROVE  LET more == events \o Screenshots(u, n) \o <<last>> IN
         /\ more \in Seq(EventType)
         /\ \A i \in DOMAIN more : \/ i \in DOMAIN events /\ more[i] = events[i]
                                   \/ more[i].kind = "screenshot" /\ more[i].n = n
                                   \/ more[i] = last
<1>. DEFINE shots == Screenshots(u, n)
<1>1. /\ shots \in Seq(EventType) /\ \A i \in DOMAIN shots : shots[i].kind = "screenshot"
                                                             /\ shots[i].n = n
  <2>1. u.images \in Nat
    BY DEF ToolUpdate
  <2>. DEFINE shot == Event("screenshot", n, u.call, Absent, Absent)
  <2>2. shot \in EventType /\ shot.kind = "screenshot" /\ shot.n = n
    BY DEF EventType, Event
  <2>3. shots = [i \in 1..u.images |-> shot]
    BY DEF Screenshots
  <2>. HIDE DEF shot, shots
  <2>. QED  BY <2>1, <2>2, <2>3
<1>. HIDE DEF shots
<1>2. events \in Seq(EventType) /\ <<last>> \in Seq(EventType)
  BY DEF TranslationTypes
<1>. QED  BY <1>1, <1>2 DEF shots

StatusStands(e) == e.kind = "tool_call_update" => IsLastGiven(updates, Told(e), e.status)

LEMMA StandingAlone ==
  ASSUME TranslationTypes
  PROVE  StatusesStandAlone <=> \A i \in DOMAIN events : StatusStands(events[i])
  BY DEF StatusesStandAlone, StatusStands, IsLastGiven

(* What an event says of its call is not changed by what comes later.      *)
LEMMA OldEventsStand ==
  ASSUME updates \in Seq(ToolUpdate \cup OtherUpdate), NEW u \in ToolUpdate \cup OtherUpdate,
         updates' = Append(updates, u), NEW e, e.n \in 1..Len(updates), StatusStands(e)
  PROVE  StatusStands(e)'
<1>1. e.n \in 0..Len(updates)
  OBVIOUS
<1>2. Announced(e.call, e.n)' = Announced(e.call, e.n) /\ Since(e.call, e.n)' = Since(e.call, e.n)
  BY <1>1, PastIsPast
<1>3. Told(e) = IF Announced(e.call, e.n) = {} THEN {e.n} ELSE Since(e.call, e.n)
  BY ToldIsSince
<1>4. Told(e)' = IF Announced(e.call, e.n)' = {} THEN {e.n} ELSE Since(e.call, e.n)'
  BY DEF Told, Own, Announced, Since
<1>5. Told(e)' = Told(e)
  BY <1>2, <1>3, <1>4
<1>6. Told(e) \in SUBSET (1..Len(updates))
  BY <1>3 DEF Since, Own
<1>7. \A told \in SUBSET (1..Len(updates)) :
          IsLastGiven(updates', told, e.status) <=> IsLastGiven(updates, told, e.status)
  BY LastGivenIsKept
<1>. DEFINE told == Told(e)
<1>8. IsLastGiven(updates, told, e.status) => IsLastGiven(updates', told, e.status)
  BY <1>5, <1>6, <1>7
<1>. QED  BY <1>5, <1>8 DEF StatusStands

LEMMA EventsStand ==
  ASSUME TranslationInv, NEW u \in ToolUpdate \cup OtherUpdate,
         updates' = Append(updates, u),
         \A i \in DOMAIN events' :
             \/ i \in DOMAIN events /\ events'[i] = events[i]
             \/ events'[i].kind # "tool_call_update"
             \/ \E e : events'[i] = e /\ StatusStands(e)'
  PROVE  StatusesStandAlone'
<1>1. SUFFICES ASSUME NEW i \in DOMAIN events', NEW e, e = events'[i]
               PROVE  StatusStands(e)'
  <2>1. StatusesStandAlone' <=> \A i \in DOMAIN events' : StatusStands(events[i])'
    BY DEF StatusesStandAlone, StatusStands, IsLastGiven, Told
  <2>2. \A j \in DOMAIN events' : StatusStands(events[j])'
    <3>. TAKE j \in DOMAIN events'
    <3>1. PICK e : e = events'[j]
      OBVIOUS
    <3>2. StatusStands(e)'
      BY <3>1, <1>1
    <3>. QED  BY <3>1, <3>2 DEF StatusStands, Told
  <2>. QED  BY <2>1, <2>2
<1>2. CASE i \in DOMAIN events /\ events'[i] = events[i]
  <2>1. StatusStands(e)
    BY <1>1, <1>2, StandingAlone DEF TranslationInv
  <2>2. e.n \in 1..Len(updates)
    BY <1>1, <1>2 DEF TranslationInv, TranslationTypes
  <2>. QED  BY <2>1, <2>2, OldEventsStand DEF TranslationInv, TranslationTypes
<1>3. CASE events'[i].kind # "tool_call_update"
  BY <1>1, <1>3 DEF StatusStands
<1>. QED  BY <1>1, <1>2, <1>3

(* An announced call's entry starts over, and its event stands alone.      *)
LEMMA ToolCallStep ==
  ASSUME TranslationInv, NEW u \in ToolUpdate, NEW n, n = Len(updates) + 1,
         updates' = Append(updates, u), u.type = "tool_call", ToolCall(u, n)
  PROVE  TranslationInv'
<1>. DEFINE tool == Given(u.tool, "unknown")
            status == Given(u.status, "pending")
            last == [kind |-> "tool_call", n |-> n, call |-> u.call, tool |-> tool,
                     status |-> Absent]
<1>1. /\ u \in ToolUpdate \cup OtherUpdate /\ u.call \in CallIds /\ n \in Nat \ {0}
      /\ tool \in ToolNames \cup {Absent, "unknown"}
      /\ status \in ToolStatuses \cup {Absent, "pending"}
      /\ updates \in Seq(ToolUpdate \cup OtherUpdate)
  BY DEF ToolUpdate, Given, TranslationInv, TranslationTypes
<1>2. /\ index' = MapSet(index, u.call, [toolName |-> tool, status |-> status])
      /\ events' = events \o Screenshots(u, n) \o <<last>>
  BY DEF ToolCall, Event
<1>3. last \in EventType /\ last.n = n /\ last.kind = "tool_call"
  BY <1>1 DEF EventType
<1>. HIDE DEF tool, status, last
<1>4. /\ events' \in Seq(EventType)
      /\ \A i \in DOMAIN events' : \/ i \in DOMAIN events /\ events'[i] = events[i]
                                   \/ events'[i].kind = "screenshot" /\ events'[i].n = n
                                   \/ events'[i] = last
  BY <1>1, <1>2, <1>3, EventsGrow DEF TranslationInv
<1>5. /\ DOMAIN index' = DOMAIN index \cup {u.call}
      /\ index'[u.call] = [toolName |-> tool, status |-> status]
      /\ \A c \in DOMAIN index \ {u.call} : index'[c] = index[c]
  BY <1>2 DEF MapSet
<1>6. TranslationTypes'
  <2>1. Len(updates') = n /\ updates' \in Seq(ToolUpdate \cup OtherUpdate)
    BY <1>1
  <2>2. \A i \in DOMAIN events : events[i].n \in 1..n
    BY <1>1 DEF TranslationInv, TranslationTypes
  <2>3. \A i \in DOMAIN events' : events'[i].n \in 1..n
    BY <2>2, <1>1, <1>3, <1>4
  <2>4. \A c \in DOMAIN index' : /\ index'[c].toolName \in ToolNames \cup {Absent, "unknown"}
                                 /\ index'[c].status \in ToolStatuses \cup {Absent, "pending"}
    BY <1>5, <1>1 DEF TranslationInv, TranslationTypes
  <2>5. DOMAIN index' \subseteq CallIds
    BY <1>5, <1>1 DEF TranslationTypes, TranslationInv
  <2>. QED  BY <2>1, <2>3, <2>4, <2>5, <1>4 DEF TranslationTypes
<1>7. StatusesStandAlone'
  <2>1. \A i \in DOMAIN events' : \/ i \in DOMAIN events /\ events'[i] = events[i]
                                  \/ events'[i].kind # "tool_call_update"
    BY <1>3, <1>4
  <2>. QED  BY <2>1, <1>1, EventsStand
<1>8. IndexInv'
  <2>1. Len(updates') = n /\ n - 1 = Len(updates) /\ updates'[n] = u
    BY <1>1
  <2>2. Since(u.call, n)' = {n} /\ Announced(u.call, n)' # {}
    BY <1>1, AnnouncingStartsOver
  <2>3. IsLastGiven(updates', {n}, status)
    BY <2>1 DEF IsLastGiven, Given, status
  <2>4. \A c : c # u.call =>
            Since(c, n)' = Since(c, n - 1) /\ Announced(c, n)' = Announced(c, n - 1)
    BY <1>1, OthersStay
  <2>5. \A c, s : IsLastGiven(updates, Since(c, n - 1), s)
                      => IsLastGiven(updates', Since(c, n - 1), s)
    <3>1. \A c : Since(c, n - 1) \in SUBSET (1..Len(updates))
      BY <2>1 DEF Since, Own
    <3>. QED  BY <3>1, <1>1, LastGivenIsKept
  <2>6. ASSUME NEW c PROVE c \in DOMAIN index' <=> Announced(c, n)' # {}
    BY <1>5, <2>1, <2>2, <2>4 DEF TranslationInv, IndexInv
  <2>7. ASSUME NEW c \in DOMAIN index'
        PROVE  IsLastGiven(updates', Since(c, n)', index'[c].status)
    <3>1. CASE c = u.call
      <4>1. Since(c, n)' = {n} /\ index'[c].status = status
        BY <3>1, <2>2, <1>5
      <4>. QED  BY <4>1, <2>3
    <3>2. CASE c # u.call
      <4>1. c \in DOMAIN index /\ index'[c] = index[c]
        BY <3>2, <1>5
      <4>2. IsLastGiven(updates, Since(c, n - 1), index[c].status)
        BY <4>1, <2>1 DEF TranslationInv, IndexInv
      <4>. QED  BY <4>1, <4>2, <3>2, <2>4, <2>5
    <3>. QED  BY <3>1, <3>2
  <2>. QED  BY <2>1, <2>6, <2>7 DEF IndexInv
<1>. QED  BY <1>6, <1>7, <1>8 DEF TranslationInv

(* An update changes the entry of a call that was announced; its event     *)
(* stands alone, whether or not it was.                                    *)
LEMMA ToolCallUpdateStep ==
  ASSUME TranslationInv, NEW u \in ToolUpdate, NEW n, n = Len(updates) + 1,
         updates' = Append(updates, u), u.type # "tool_call", ToolCallUpdate(u, n)
  PROVE  TranslationInv'
<1>. DEFINE known == u.call \in DOMAIN index
            tool == Given(u.tool, index[u.call].toolName)
            kept == Given(u.status, index[u.call].status)
            status == IF known THEN kept ELSE Given(u.status, "pending")
            last == [kind |-> "tool_call_update", n |-> n, call |-> u.call,
                     tool |-> Absent, status |-> status]
<1>1. /\ u \in ToolUpdate \cup OtherUpdate /\ u.call \in CallIds /\ n \in Nat \ {0}
      /\ updates \in Seq(ToolUpdate \cup OtherUpdate)
      /\ n - 1 = Len(updates) /\ Len(updates') = n /\ updates'[n] = u
  BY DEF ToolUpdate, TranslationInv, TranslationTypes
<1>2. /\ index' = IF known THEN [index EXCEPT ![u.call] = [toolName |-> tool, status |-> kept]]
                  ELSE index
      /\ events' = events \o Screenshots(u, n) \o <<last>>
  BY DEF ToolCallUpdate, Event
<1>3. /\ known => tool \in ToolNames \cup {Absent, "unknown"}
      /\ known => kept \in ToolStatuses \cup {Absent, "pending"}
      /\ status \in ToolStatuses \cup {Absent, "pending"}
  BY DEF ToolUpdate, Given, TranslationInv, TranslationTypes
<1>4. last \in EventType /\ last.n = n /\ last.call = u.call /\ last.status = status
  BY <1>1, <1>3 DEF EventType
<1>5. /\ DOMAIN index' = DOMAIN index
      /\ known => index'[u.call] = [toolName |-> tool, status |-> kept]
      /\ \A c \in DOMAIN index \ {u.call} : index'[c] = index[c]
  BY <1>2
<1>6. /\ Since(u.call, n)' = Since(u.call, n - 1) \cup {n}
      /\ Announced(u.call, n)' = Announced(u.call, n - 1)
  BY <1>1, UpdatesAddUp
<1>7. known => IsLastGiven(updates', Since(u.call, n)', kept)
  <2>1. SUFFICES ASSUME known PROVE IsLastGiven(updates', Since(u.call, n - 1) \cup {n}, kept)
    BY <1>6
  <2>2. IsLastGiven(updates, Since(u.call, n - 1), index[u.call].status)
    BY <2>1, <1>1 DEF TranslationInv, IndexInv
  <2>3. Since(u.call, n - 1) \in SUBSET (1..Len(updates))
    BY <1>1 DEF Since, Own
  <2>. QED  BY <2>2, <2>3, <1>1, GivenIsLast
<1>8. ~known => IsLastGiven(updates', {n}, status)
  BY <1>1 DEF IsLastGiven, Given
<1>9. known <=> Announced(u.call, n)' # {}
  BY <1>1, <1>6 DEF TranslationInv, IndexInv
<1>. HIDE DEF tool, kept, status, last, known
<1>10. ASSUME NEW e, e = last PROVE StatusStands(e)'
  <2>1. e.n = n /\ e.call = u.call /\ e.status = status
    BY <1>4, <1>10
  <2>2. Told(e)' = IF Announced(u.call, n)' = {} THEN {n} ELSE Since(u.call, n)'
    BY <2>1 DEF Told, Own, Announced, Since
  <2>3. CASE known
    <3>1. status = kept
      BY <2>3 DEF status
    <3>. QED  BY <2>1, <2>2, <2>3, <3>1, <1>7, <1>9 DEF StatusStands
  <2>4. CASE ~known
    BY <2>1, <2>2, <2>4, <1>8, <1>9 DEF StatusStands
  <2>. QED  BY <2>3, <2>4
<1>11. /\ events' \in Seq(EventType)
       /\ \A i \in DOMAIN events' : \/ i \in DOMAIN events /\ events'[i] = events[i]
                                    \/ events'[i].kind = "screenshot" /\ events'[i].n = n
                                    \/ events'[i] = last
  BY <1>1, <1>2, <1>4, EventsGrow DEF TranslationInv
<1>12. StatusesStandAlone'
  <2>1. \A i \in DOMAIN events' :
            \/ i \in DOMAIN events /\ events'[i] = events[i]
            \/ events'[i].kind # "tool_call_update"
            \/ \E e : events'[i] = e /\ StatusStands(e)'
    BY <1>10, <1>11
  <2>. QED  BY <2>1, <1>1, EventsStand
<1>13. TranslationTypes'
  <2>1. updates' \in Seq(ToolUpdate \cup OtherUpdate)
    BY <1>1
  <2>2. \A i \in DOMAIN events : events[i].n \in 1..n
    BY <1>1 DEF TranslationInv, TranslationTypes
  <2>3. \A i \in DOMAIN events' : events'[i].n \in 1..n
    BY <2>2, <1>1, <1>4, <1>11
  <2>4. \A c \in DOMAIN index' : /\ index'[c].toolName \in ToolNames \cup {Absent, "unknown"}
                                 /\ index'[c].status \in ToolStatuses \cup {Absent, "pending"}
    <3>1. ASSUME NEW c \in DOMAIN index, c # u.call PROVE index'[c] = index[c]
      BY <3>1, <1>5
    <3>2. u.call \in DOMAIN index => known
      BY DEF known
    <3>. QED  BY <3>1, <3>2, <1>5, <1>3 DEF TranslationInv, TranslationTypes
  <2>. QED  BY <2>1, <2>3, <2>4, <1>1, <1>5, <1>11 DEF TranslationTypes, TranslationInv
<1>14. IndexInv'
  <2>1. \A c : c # u.call =>
            Since(c, n)' = Since(c, n - 1) /\ Announced(c, n)' = Announced(c, n - 1)
    BY <1>1, OthersStay
  <2>2. ASSUME NEW c PROVE c \in DOMAIN index' <=> Announced(c, n)' # {}
    BY <1>1, <1>5, <1>6, <2>1 DEF TranslationInv, IndexInv
  <2>3. ASSUME NEW c \in DOMAIN index'
        PROVE  IsLastGiven(updates', Since(c, n)', index'[c].status)
    <3>1. CASE c = u.call
      <4>1. index'[c].status = kept /\ known
        BY <3>1, <1>5 DEF known
      <4>2. Since(c, n)' = Since(u.call, n)'
        BY <3>1
      <4>. QED  BY <4>1, <4>2, <1>7
    <3>2. CASE c # u.call
      <4>1. c \in DOMAIN index /\ index'[c] = index[c]
        BY <3>2, <1>5
      <4>2. IsLastGiven(updates, Since(c, n - 1), index[c].status)
        BY <4>1, <1>1 DEF TranslationInv, IndexInv
      <4>3. Since(c, n - 1) \in SUBSET (1..Len(updates))
        BY <1>1 DEF Since, Own
      <4>4. IsLastGiven(updates', Since(c, n - 1), index[c].status)
        BY <4>2, <4>3, <1>1, LastGivenIsKept
      <4>. QED  BY <4>1, <4>4, <3>2, <2>1
    <3>. QED  BY <3>1, <3>2
  <2>. QED  BY <1>1, <2>2, <2>3 DEF IndexInv
<1>. QED  BY <1>12, <1>13, <1>14 DEF TranslationInv

LEMMA Appended ==
  ASSUME NEW S, NEW s \in Seq(S), NEW e \in S, NEW t, t = Append(s, e)
  PROVE  t \in Seq(S) /\ \A i \in DOMAIN t : (i \in DOMAIN s /\ t[i] = s[i]) \/ t[i] = e
  OBVIOUS

(* Chunks of text become events that say nothing of a call.                *)
LEMMA ChunkStep ==
  ASSUME TranslationInv, NEW u \in OtherUpdate, NEW n, n = Len(updates) + 1,
         updates' = Append(updates, u), events' = events \o Chunk(u, n), UNCHANGED index
  PROVE  TranslationInv'
<1>1. /\ u \in ToolUpdate \cup OtherUpdate /\ n \in Nat \ {0} /\ n - 1 = Len(updates)
      /\ updates \in Seq(ToolUpdate \cup OtherUpdate) /\ events \in Seq(EventType)
      /\ Len(updates') = n /\ updates' \in Seq(ToolUpdate \cup OtherUpdate)
  BY DEF TranslationInv, TranslationTypes
<1>2. u \notin ToolUpdate
  BY DEF ToolUpdate, OtherUpdate
<1>3. PICK e \in EventType : /\ e.kind # "tool_call_update" /\ e.n = n
                             /\ events' = events \/ events' = Append(events, e)
  <2>. DEFINE of(kind) == [kind |-> kind, n |-> n, call |-> Absent, tool |-> Absent,
                           status |-> Absent]
  <2>1. \A kind \in {"text_delta", "thinking"} :
            of(kind) \in EventType /\ of(kind).kind # "tool_call_update" /\ of(kind).n = n
    BY <1>1 DEF EventType
  <2>2. events \o <<>> = events /\ \A e : events \o <<e>> = Append(events, e)
    BY <1>1
  <2>3. Chunk(u, n) = <<>> \/ \E kind \in {"text_delta", "thinking"} : Chunk(u, n) = <<of(kind)>>
    BY DEF Chunk, Event
  <2>. HIDE DEF of
  <2>. QED  BY <2>1, <2>2, <2>3
<1>4. /\ events' \in Seq(EventType)
      /\ \A i \in DOMAIN events' : (i \in DOMAIN events /\ events'[i] = events[i])
                                   \/ events'[i] = e
  <2>1. CASE events' = events
    BY <2>1, <1>1
  <2>2. CASE events' = Append(events, e)
    <3>1. events \in Seq(EventType) /\ e \in EventType
      BY <1>1
    <3>2. \A t : t = Append(events, e) => t \in Seq(EventType) /\ \A i \in DOMAIN t :
              (i \in DOMAIN events /\ t[i] = events[i]) \/ t[i] = e
      BY <3>1, Appended
    <3>. QED  BY <2>2, <3>2
  <2>. QED  BY <2>1, <2>2, <1>3
<1>5. TranslationTypes'
  <2>1. \A i \in DOMAIN events : events[i].n \in 1..n
    BY <1>1 DEF TranslationInv, TranslationTypes
  <2>2. \A i \in DOMAIN events' : events'[i].n \in 1..n
    <3>1. e.n \in 1..n
      BY <1>1, <1>3
    <3>. QED  BY <2>1, <3>1, <1>4
  <2>. QED  BY <2>2, <1>1, <1>4 DEF TranslationInv, TranslationTypes
<1>6. StatusesStandAlone'
  <2>1. \A i \in DOMAIN events' : \/ i \in DOMAIN events /\ events'[i] = events[i]
                                  \/ events'[i].kind # "tool_call_update"
    BY <1>3, <1>4
  <2>. QED  BY <2>1, <1>1, EventsStand
<1>7. IndexInv'
  <2>1. \A c : Since(c, n)' = Since(c, n - 1) /\ Announced(c, n)' = Announced(c, n - 1)
    BY <1>1, <1>2, OthersStay
  <2>2. ASSUME NEW c \in DOMAIN index
        PROVE  IsLastGiven(updates', Since(c, n)', index[c].status)
    <3>1. IsLastGiven(updates, Since(c, n - 1), index[c].status)
      BY <1>1 DEF TranslationInv, IndexInv
    <3>2. Since(c, n - 1) \in SUBSET (1..Len(updates))
      BY <1>1 DEF Since, Own
    <3>3. IsLastGiven(updates', Since(c, n - 1), index[c].status)
      BY <3>1, <3>2, <1>1, LastGivenIsKept
    <3>. QED  BY <3>3, <2>1
  <2>. QED  BY <1>1, <2>1, <2>2 DEF TranslationInv, IndexInv
<1>. QED  BY <1>5, <1>6, <1>7 DEF TranslationInv

(* However long the session, however many calls overlap and however little *)
(* an update says, each tool_call_update event carries the last status its *)
(* call was given since it was announced (events.ts:3-5, :98-105).         *)
THEOREM TranslationStandsAlone == TranslationSpec => []StatusesStandAlone
<1>1. TranslationInit => TranslationInv
  <2>. SUFFICES ASSUME TranslationInit PROVE TranslationInv
    OBVIOUS
  <2>1. updates = <<>> /\ index = <<>> /\ events = <<>>
    BY DEF TranslationInit
  <2>2. TranslationTypes
    BY <2>1 DEF TranslationTypes
  <2>3. IndexInv
    BY <2>1 DEF IndexInv, Announced, Own
  <2>. QED  BY <2>1, <2>2, <2>3 DEF TranslationInv, StatusesStandAlone
<1>2. TranslationInv /\ [ToRuntimeEvents]_translationVars => TranslationInv'
  <2>. SUFFICES ASSUME TranslationInv, [ToRuntimeEvents]_translationVars
                PROVE  TranslationInv'
    OBVIOUS
  <2>1. CASE ToRuntimeEvents
    <3>1. PICK u \in ToolUpdate \cup OtherUpdate :
             /\ updates' = Append(updates, u)
             /\ \/ u.type = "tool_call" /\ ToolCall(u, Len(updates) + 1)
                \/ u.type = "tool_call_update" /\ ToolCallUpdate(u, Len(updates) + 1)
                \/ /\ u \in OtherUpdate /\ events' = events \o Chunk(u, Len(updates) + 1)
                   /\ UNCHANGED index
      BY <2>1 DEF ToRuntimeEvents
    <3>2. u.type \in {"tool_call", "tool_call_update"} => u \in ToolUpdate
      BY DEF OtherUpdate
    <3>3. CASE u.type = "tool_call" /\ ToolCall(u, Len(updates) + 1)
      BY <3>1, <3>2, <3>3, ToolCallStep
    <3>4. CASE u.type = "tool_call_update" /\ ToolCallUpdate(u, Len(updates) + 1)
      BY <3>1, <3>2, <3>4, ToolCallUpdateStep
    <3>5. CASE /\ u \in OtherUpdate /\ events' = events \o Chunk(u, Len(updates) + 1)
               /\ UNCHANGED index
      BY <3>1, <3>5, ChunkStep
    <3>. QED  BY <3>1, <3>3, <3>4, <3>5
  <2>2. CASE UNCHANGED translationVars
    <3>1. updates' = updates /\ index' = index /\ events' = events
      BY <2>2 DEF translationVars
    <3>2. TranslationTypes'
      BY <3>1 DEF TranslationInv, TranslationTypes
    <3>3. IndexInv'
      BY <3>1 DEF TranslationInv, IndexInv, Announced, Since, Own
    <3>4. StatusesStandAlone'
      BY <3>1 DEF TranslationInv, StatusesStandAlone, Told
    <3>. QED  BY <3>2, <3>3, <3>4 DEF TranslationInv
  <2>. QED  BY <2>1, <2>2
<1>3. TranslationInv => StatusesStandAlone
  BY DEF TranslationInv
<1>. QED  BY <1>1, <1>2, <1>3, PTL DEF TranslationSpec

-----------------------------------------------------------------------------
(* The settings file that the model of a run is pinned in.                 *)

(* What a pin has read covers what was put into the file before it read,   *)
(* and as long as no write was cut off, a file that is not being written   *)
(* and holds no object is one that nobody put anything into.               *)
Kept ==
    /\ fileText = "object" => added \ crossed \subseteq settings
    /\ fileText # "object" /\ pinning # "filling" => added = {}
    /\ pinning \in {"making", "opening", "filling"} => added \ crossed \subseteq current

PinInv == PinTypes /\ (~torn => Kept)

LEMMA PinStep == PinInv /\ [PinNext]_pinState => PinInv'
<1> SUFFICES ASSUME PinInv, [PinNext]_pinState PROVE PinInv'
  OBVIOUS
<1> USE PinAssumption DEF PinInv, PinTypes, Kept, pinCall, pinFile, pinHistory
<1>1. CASE BeginPin
  BY <1>1 DEF BeginPin
<1>2. CASE ReadSettings
  BY <1>2 DEF ReadSettings
<1>3. CASE ReadBrokenSettings
  BY <1>3 DEF ReadBrokenSettings, EndPin
<1>4. CASE ReadNoSettings
  BY <1>4 DEF ReadNoSettings
<1>5. CASE MakeParent
  BY <1>5 DEF MakeParent, EndPin
<1>6. CASE OpenSettings
  BY <1>6 DEF OpenSettings
<1>7. CASE FillSettings
  BY <1>7 DEF FillSettings
<1>8. CASE PinReturns
  BY <1>8 DEF PinReturns, EndPin
<1>9. CASE TearSettings
  BY <1>9 DEF TearSettings, EndPin
<1>10. CASE BoxCallFails
  BY <1>10 DEF BoxCallFails, EndPin
<1>11. ASSUME NEW k \in Settings, AddSetting(k) PROVE PinInv'
  BY <1>11 DEF AddSetting
<1>12. CASE UNCHANGED pinState
  BY <1>12 DEF pinState
<1>. QED
  BY <1>1, <1>2, <1>3, <1>4, <1>5, <1>6, <1>7, <1>8, <1>9, <1>10, <1>11, <1>12 DEF PinNext

(* A setting somebody put into the file outlives every pin, failed ones    *)
(* and refused ones too, unless it was put between a pin's read and its    *)
(* write, or a write was cut off: settings.ts reads back and keeps what is *)
(* in the file.                                                            *)
THEOREM SettingsOutlivePins == PinSpec => []OnlyTearsDrop
<1>1. PinInit => PinInv
  <2>. SUFFICES ASSUME PinInit PROVE PinInv
    OBVIOUS
  <2>1. pins \in 0..MaxPins
    BY PinAssumption, SMT DEF PinInit
  <2>2. PinTypes
    <3>1. {current, settings} \subseteq SUBSET (Settings \cup {"model"})
      BY DEF PinInit
    <3>. QED  BY <2>1, <3>1 DEF PinInit, PinTypes
  <2>3. Kept
    BY DEF PinInit, Kept
  <2>. QED  BY <2>2, <2>3 DEF PinInv
<1>2. PinInv => OnlyTearsDrop
  BY DEF PinInv, Kept, OnlyTearsDrop
<1>. QED  BY <1>1, <1>2, PinStep, PTL DEF PinSpec
=============================================================================
