----------------------------- MODULE FifoStream -----------------------------
(***************************************************************************)
(* What a run's event stream promises its readers, without saying how it   *)
(* is buffered: what was accepted is handed out once, in order, and nobody *)
(* is told the stream is over before everything accepted was handed out.   *)
(* EventQueue (packages/runtime-acp/src/queue.ts) implements it.           *)
(***************************************************************************)
EXTENDS Naturals, Sequences

CONSTANTS Values,     \* what can be put on the stream
          Readers     \* who may iterate over it

VARIABLES accepted,   \* everything the stream took, oldest first
          handed,     \* what readers were given, oldest first
          open,       \* FALSE once the stream is closed
          told        \* the readers that were told the stream is over

vars == <<accepted, handed, open, told>>

Init == /\ accepted = <<>>
        /\ handed = <<>>
        /\ open = TRUE
        /\ told = {}

(* The stream takes a value; a reader already waiting may get it at once. *)
Accept(v) ==
    /\ open
    /\ accepted' = Append(accepted, v)
    /\ \/ handed' = handed
       \/ handed = accepted /\ handed' = Append(handed, v)
    /\ UNCHANGED <<open, told>>

(* A reader gets the oldest value nobody has been given. *)
Hand ==
    /\ Len(handed) < Len(accepted)
    /\ handed' = Append(handed, accepted[Len(handed) + 1])
    /\ UNCHANGED <<accepted, open, told>>

(* The stream closes; a reader already waiting may be told at once. *)
Close ==
    /\ open
    /\ open' = FALSE
    /\ \/ told' = told
       \/ handed = accepted /\ \E r \in Readers : told' = told \cup {r}
    /\ UNCHANGED <<accepted, handed>>

(* A reader learns that the stream is over. *)
Tell(r) ==
    /\ ~open
    /\ handed = accepted
    /\ told' = told \cup {r}
    /\ UNCHANGED <<accepted, handed, open>>

Next == \/ \E v \in Values : Accept(v)
        \/ Hand
        \/ Close
        \/ \E r \in Readers : Tell(r)

Spec == Init /\ [][Next]_vars
=============================================================================
