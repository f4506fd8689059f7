---------------------------- MODULE ApprovalDesk ----------------------------
(***************************************************************************)
(* What the runtime promises the agent and the person about permission     *)
(* requests, without saying how (packages/core/src/runtime.ts, the port):  *)
(* every question gets at most one answer, the answer is either the        *)
(* person's decision as far as the agent offered it, or "cancelled", and   *)
(* the event stream names exactly the answers the person's decisions gave. *)
(* AcpRuntime implements it.                                               *)
(***************************************************************************)
EXTENDS Permissions

CONSTANTS Approvals,  \* the permission requests of one run
          Unasked, Waiting, Cancelled  \* what an unanswered or cancelled one is

VARIABLES offered,    \* the options the agent listed with each request
          decided,    \* what the person decided (Waiting: nothing)
          answer,     \* what the agent was answered
          announced   \* the decision an approval_resolved event gave

vars == <<offered, decided, answer, announced>>

Init == /\ offered = [a \in Approvals |-> {}]
        /\ answer = [a \in Approvals |-> Unasked]
        /\ decided = [a \in Approvals |-> Waiting]
        /\ announced = [a \in Approvals |-> Waiting]

(* The agent asks; when nobody will decide any more it is told so at once. *)
Ask(a, kinds) ==
    /\ answer[a] = Unasked
    /\ offered' = [offered EXCEPT ![a] = kinds]
    /\ answer' \in {[answer EXCEPT ![a] = w] : w \in {Waiting, Cancelled}}
    /\ UNCHANGED <<decided, announced>>

(* The person decides d: the agent hears d if it offered d, or less than d *)
(* if it offered that, or that the request is cancelled.                   *)
Decide(a, d) ==
    /\ answer[a] = Waiting
    /\ decided' = [decided EXCEPT ![a] = d]
    /\ \/ \E k \in offered[a] \cap NotWiderThan(d) :
             /\ d \in offered[a] => k = d
             /\ answer' = [answer EXCEPT ![a] = k]
             /\ announced' = [announced EXCEPT ![a] = k]
       \/ /\ offered[a] \cap NotWiderThan(d) = {}
          /\ answer' = [answer EXCEPT ![a] = Cancelled]
          /\ UNCHANGED announced
    /\ UNCHANGED offered

(* Nobody will decide any more: every question still waiting is cancelled. *)
GiveUp ==
    /\ answer' = [a \in Approvals |-> IF answer[a] = Waiting THEN Cancelled ELSE answer[a]]
    /\ UNCHANGED <<offered, decided, announced>>

Next == \/ \E a \in Approvals, kinds \in SUBSET Kinds : Ask(a, kinds)
        \/ \E a \in Approvals, d \in Kinds : Decide(a, d)
        \/ GiveUp

Spec == Init /\ [][Next]_vars
=============================================================================
