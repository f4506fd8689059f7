----------------------------- MODULE MCSpikeRun -----------------------------
(* An instance of SpikeRun for TLC: a listed model, one with no list price *)
(* and a synthetic line.  Two tokens of the listed model stay under the    *)
(* cap, one of the unlisted model does not.                                *)
EXTENDS SpikeRun, TLC

CONSTANTS m1, m2, m3

MCModelOf   == m1 :> "haiku" @@ m2 :> "unlisted" @@ m3 :> "synthetic"
MCListPrice == "haiku" :> 1 @@ "opus" :> 2
=============================================================================
