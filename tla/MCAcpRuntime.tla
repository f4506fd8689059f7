---------------------------- MODULE MCAcpRuntime ----------------------------
(* Instances of AcpRuntime for TLC.                                        *)
EXTENDS AcpRuntime

(* What agents list with a request: the one-shot options, or only an       *)
(* "always" one, so that a decision is narrowed or cannot be met at all.   *)
MCOffers == {{"allow_once", "reject_once"}, {"allow_always"}}
=============================================================================
