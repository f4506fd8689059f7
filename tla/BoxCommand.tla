----------------------------- MODULE BoxCommand -----------------------------
(***************************************************************************)
(* What running a command in a box promises its caller, whatever the means *)
(* (packages/core/src/computer.ts): "The exit code, once the process is    *)
(* gone", and at most one answer, which may be an error at any time.       *)
(***************************************************************************)
CONSTANT Codes

VARIABLES process,   \* "none", "alive" or "gone"
          status,    \* the code it went with, "none" before
          told,      \* the code its caller was told, "none" before
          settled    \* the caller has an answer or an error

vars == <<process, status, told, settled>>

Init == /\ process = "none"
        /\ status = "none"
        /\ told = "none"
        /\ settled = FALSE

Start == /\ process = "none"
         /\ process' = "alive"
         /\ UNCHANGED <<status, told, settled>>

(* Starting failed as far as the caller can see; the process may run. *)
StartUnseen == /\ process = "none"
               /\ ~settled
               /\ process' = "alive"
               /\ settled' = TRUE
               /\ UNCHANGED <<status, told>>

End(c) == /\ process = "alive"
          /\ process' = "gone"
          /\ status' = c
          /\ UNCHANGED <<told, settled>>

Tell == /\ process = "gone"
        /\ ~settled
        /\ settled' = TRUE
        /\ told' = status
        /\ UNCHANGED <<process, status>>

Fail == /\ ~settled
        /\ settled' = TRUE
        /\ UNCHANGED <<process, status, told>>

Next == Start \/ StartUnseen \/ (\E c \in Codes : End(c)) \/ Tell \/ Fail

Spec == Init /\ [][Next]_vars
=============================================================================
