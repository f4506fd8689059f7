----------------------------- MODULE Permissions -----------------------------
(***************************************************************************)
(* The four answers a person can give and how one of them becomes an       *)
(* option the agent offered: packages/runtime-acp/src/permissions.ts.      *)
(***************************************************************************)
Kinds == {"allow_once", "allow_always", "reject_once", "reject_always"}

(* An "always" answer has a one-shot sibling; a one-shot answer has none.  *)
Narrower(d) == CASE d = "allow_always"  -> {"allow_once"}
                 [] d = "reject_always" -> {"reject_once"}
                 [] OTHER               -> {}

(* Mutant: a one-shot "allow" the agent did not offer is widened. *)
SelectOptionWidens(d, offered) ==
    IF d \in offered THEN {d}
    ELSE (Narrower(d) \cup (IF d = "allow_once" THEN {"allow_always"} ELSE {})) \cap offered

(* What is left of decision d when the agent offered `offered`: the same   *)
(* kind, or the narrower one, or nothing.  At most one member.             *)
SelectOption(d, offered) ==
    IF d \in offered THEN {d} ELSE Narrower(d) \cap offered

(* The reach of an answer: what it may be applied as.                      *)
NotWiderThan(d) == {d} \cup Narrower(d)
=============================================================================
