------------------------------ MODULE UsageTail ------------------------------
(***************************************************************************)
(* How a run's token usage is read off the transcript the CLI writes in    *)
(* the box: packages/runtime-acp/src/usage.ts and transcript.ts.           *)
(*                                                                         *)
(* The transcript only grows.  tailUsage first reads all of it (the seed), *)
(* then follows it from its first line (`tail -n +1 -F`); at the end of    *)
(* the run the tail is stopped and the whole file is read once more        *)
(* (reconcile).  All three feed the same memory `seen` through accept().   *)
(* The CLI is a process of its own: it appends between any two steps,      *)
(* including while a read is under way.  A line counts as written once its *)
(* newline is: a torn line does not parse and is dropped like any other    *)
(* line without usage (Other).                                             *)
(***************************************************************************)
EXTENDS Naturals, Sequences

CONSTANTS Messages,   \* message ids
          Counts,     \* token counts a message's line can carry, numbers
          Unseen,     \* "seen has no entry"
          Other,      \* a line that carries no usage
          MaxLines    \* bound: lines in the transcript

ASSUME TailAssumption == /\ Counts \subseteq Nat
                         /\ Unseen \notin Counts
                         /\ MaxLines \in Nat

UsageLine == [id : Messages, tokens : Counts]

ASSUME OtherAssumption == Other \notin UsageLine

VARIABLES transcript, \* the file's lines
          seen,       \* the dedupe memory: the counts last accepted per message
          phase,      \* where tailUsage, and later the run's teardown, are
          cursor,     \* lines of the current whole-file read already processed
          upTo,       \* lines the current whole-file read returned
          seeded,     \* lines the seed found: they belong to earlier runs
          tailed,     \* lines the tail has delivered
          reported,   \* the lines emitted as usage events
          repeated    \* the lines emitted more than once

vars == <<transcript, seen, phase, cursor, upTo, seeded, tailed, reported, repeated>>

Phases == {"seed read", "seeding", "live", "stopped", "reconciling",
           "complete", "failed", "lost"}

Lines == 1..Len(transcript)

IsUsage(i) == transcript[i] # Other

(* The lines of line i's message that come before it. *)
Earlier(i) == {j \in 1..(i - 1) : IsUsage(j) /\ transcript[j].id = transcript[i].id}

(* Line i says something new: it is its message's first, or the message's  *)
(* counts changed with it ("rewrites a message's line as the message       *)
(* grows", usage.ts:40).                                                   *)
News(i) == /\ IsUsage(i)
           /\ \A j \in Earlier(i) :
                 (\A k \in Earlier(i) : k <= j) =>
                     transcript[j].tokens # transcript[i].tokens

(* Counts of one message never shrink. *)
CliMayWrite(line) ==
    line # Other => \A j \in Lines :
        IsUsage(j) /\ transcript[j].id = line.id => transcript[j].tokens <= line.tokens

Init == /\ transcript = <<>>
        /\ seen = [m \in Messages |-> Unseen]
        /\ phase = "seed read"
        /\ cursor = 0 /\ upTo = 0 /\ seeded = 0 /\ tailed = 0
        /\ reported = {} /\ repeated = {}

-----------------------------------------------------------------------------
(* The CLI appends a line.  What it appends before the seed is read stands *)
(* for the transcript earlier runs left; a missing file reads as empty.    *)
CliWrites(line) ==
    /\ Len(transcript) < MaxLines
    /\ CliMayWrite(line)
    /\ transcript' = Append(transcript, line)
    /\ UNCHANGED <<seen, phase, cursor, upTo, seeded, tailed, reported, repeated>>

(* Mutant: one usage per message, whatever its counts become. *)
AcceptsOnce(i) == IsUsage(i) /\ seen[transcript[i].id] = Unseen

(* accept() hands line i back: it carries usage that differs from what is  *)
(* remembered of its message.                                              *)
Accepts(i) == IsUsage(i) /\ seen[transcript[i].id] # transcript[i].tokens

(* Mutant: what is accepted is not remembered. *)
RememberNothing(i) == seen' = seen

(* accept() remembers what line i says.                                    *)
Remember(i) ==
    seen' = IF Accepts(i) THEN [seen EXCEPT ![transcript[i].id] = transcript[i].tokens]
                          ELSE seen

(* The tail's and the reconcile's use of accept(): what is news is emitted.*)
AcceptAndEmit(i) ==
    /\ Remember(i)
    /\ reported' = IF Accepts(i) THEN reported \cup {i} ELSE reported
    /\ repeated' = IF Accepts(i) /\ i \in reported THEN repeated \cup {i} ELSE repeated

(* tailUsage: the first read of the whole file resolves.                   *)
SeedRead ==
    /\ phase = "seed read"
    /\ phase' = "seeding"
    /\ upTo' = Len(transcript) /\ seeded' = Len(transcript) /\ cursor' = 0
    /\ UNCHANGED <<transcript, seen, tailed, reported, repeated>>

(* A line of the seed is recorded, not emitted.                            *)
SeedLine ==
    /\ phase = "seeding"
    /\ cursor < upTo
    /\ Remember(cursor + 1)
    /\ cursor' = cursor + 1
    /\ UNCHANGED <<transcript, phase, upTo, seeded, tailed, reported, repeated>>

(* Mutant: the tail starts at the end of the file (`tail -n 0 -F`). *)
AttachAtTheEnd ==
    /\ phase = "seeding"
    /\ cursor = upTo
    /\ phase' = "live"
    /\ tailed' = Len(transcript)
    /\ UNCHANGED <<transcript, seen, cursor, upTo, seeded, reported, repeated>>

(* The tail is attached and will deliver the file from its first line.     *)
Attach ==
    /\ phase = "seeding"
    /\ cursor = upTo
    /\ phase' = "live"
    /\ UNCHANGED <<transcript, seen, cursor, upTo, seeded, tailed, reported, repeated>>

(* The first read, or attaching the tail, fails: tailUsage throws.         *)
TailUsageFails ==
    /\ phase = "seed read" \/ (phase = "seeding" /\ cursor = upTo)
    /\ phase' = "failed"
    /\ UNCHANGED <<transcript, seen, cursor, upTo, seeded, tailed, reported, repeated>>

(* The tail delivers its next line.                                        *)
TailLine ==
    /\ phase = "live"
    /\ tailed < Len(transcript)
    /\ tailed' = tailed + 1
    /\ AcceptAndEmit(tailed + 1)
    /\ UNCHANGED <<transcript, phase, cursor, upTo, seeded>>

(* stop(): the reader is closed; lines the tail still held are never seen. *)
Stop ==
    /\ phase = "live"
    /\ phase' = "stopped"
    /\ UNCHANGED <<transcript, seen, cursor, upTo, seeded, tailed, reported, repeated>>

(* reconcile(): the read of the whole file resolves ...                    *)
ReconcileRead ==
    /\ phase = "stopped"
    /\ phase' = "reconciling"
    /\ upTo' = Len(transcript) /\ cursor' = 0
    /\ UNCHANGED <<transcript, seen, seeded, tailed, reported, repeated>>

(* ... or fails, and the run ends without its last look.                   *)
ReconcileFails ==
    /\ phase = "stopped"
    /\ phase' = "lost"
    /\ UNCHANGED <<transcript, seen, cursor, upTo, seeded, tailed, reported, repeated>>

ReconcileLine ==
    /\ phase = "reconciling"
    /\ cursor < upTo
    /\ cursor' = cursor + 1
    /\ AcceptAndEmit(cursor + 1)
    /\ UNCHANGED <<transcript, phase, upTo, seeded, tailed>>

ReconcileDone ==
    /\ phase = "reconciling"
    /\ cursor = upTo
    /\ phase' = "complete"
    /\ UNCHANGED <<transcript, seen, cursor, upTo, seeded, tailed, reported, repeated>>

Following == TailLine \/ ReconcileLine \/ ReconcileDone

Next == \/ \E line \in UsageLine \cup {Other} : CliWrites(line)
        \/ SeedRead \/ SeedLine \/ Attach \/ TailUsageFails
        \/ Stop \/ ReconcileRead \/ ReconcileFails
        \/ Following

Spec == Init /\ [][Next]_vars

(* `tail -F` delivers what is written, and a loop over lines runs to its   *)
(* end; whether and when the run is stopped is up to the caller.           *)
Fairness == WF_vars(TailLine) /\ WF_vars(ReconcileLine) /\ WF_vars(ReconcileDone)

-----------------------------------------------------------------------------
TypeOK == /\ transcript \in Seq(UsageLine \cup {Other})
          /\ seen \in [Messages -> Counts \cup {Unseen}]
          /\ phase \in Phases
          /\ {cursor, upTo, seeded, tailed} \subseteq 0..Len(transcript)
          /\ reported \subseteq Lines
          /\ repeated \subseteq reported

(* When the last look is done, every line of this run that said something  *)
(* new has been reported, whatever the tail delivered, lost or delivered   *)
(* again before (usage.ts:17-22).                                          *)
CompleteAtTheEnd ==
    phase = "complete" => \A i \in (seeded + 1)..upTo : News(i) => i \in reported

(* A line that repeats what the line before it of the same message said    *)
(* is never reported: the CLI's identical rewrites cost nothing            *)
(* (usage.ts:41, "An identical line is dropped").                          *)
RewritesAreSilent ==
    \A i \in reported : News(i)

(* "a line delivered by the tail is never emitted a second time at the     *)
(* end" (usage.ts:77-78).                                                  *)
NoLineTwice == repeated = {}

(* Line i's message was written with other counts as well: it grew.        *)
Grown(i) == \E j \in Lines : /\ IsUsage(j)
                             /\ transcript[j].id = transcript[i].id
                             /\ transcript[j].tokens # transcript[i].tokens

(* The only lines that are emitted twice, or emitted although an earlier   *)
(* run wrote them, are lines of messages that grew: the tail, the seed and *)
(* the last look replay one another's lines, and what they share of a      *)
(* message is its latest counts only (usage.ts:48, 77-78, 86).             *)
OnlyGrowthRepeats ==
    \A i \in repeated \cup {j \in reported : j <= seeded} : Grown(i)

(* Usage is live: what this run writes is reported while the run goes on,  *)
(* unless the caller stops the tail (usage.ts:5-6).                        *)
UsageIsLive ==
    \A i \in 1..MaxLines :
        (phase = "live" /\ i \in Lines /\ i > seeded /\ News(i))
            ~> (i \in reported \/ phase # "live")
=============================================================================
