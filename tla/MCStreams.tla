----------------------------- MODULE MCStreams ------------------------------
(* The two streams of a run's events, the queue its readers iterate over   *)
(* and the usage read off the transcript, each explored by itself in one   *)
(* run of TLC: a behaviour picks one at the start and only that one moves, *)
(* as its own fairness has it; the variables of the other keep their       *)
(* initial values.  AcpRuntime has the two at work together.               *)
EXTENDS EventQueue, UsageTail

VARIABLE part

suiteVars == <<part, queueVars, vars>>

SuiteInit == part \in {"queue", "usage"} /\ QueueInit /\ Init

QueueMoves == part = "queue" /\ QueueNext /\ UNCHANGED <<part, vars>>
UsageMoves == part = "usage" /\ Next /\ UNCHANGED <<part, queueVars>>

SuiteNext == QueueMoves \/ UsageMoves

(* QueueFairness, for the behaviours that move the queue, and the usage's  *)
(* Fairness: nothing it asks for is enabled while the usage rests.         *)
SuiteFairness ==
    /\ \A r \in Readers : WF_queueVars(part = "queue" /\ CallNext(r))
    /\ Fairness

FairSuiteSpec == SuiteInit /\ [][SuiteNext]_suiteVars /\ SuiteFairness
=============================================================================
