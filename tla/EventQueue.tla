----------------------------- MODULE EventQueue -----------------------------
(***************************************************************************)
(* The async queue between a run's producers (ACP handlers, transcript     *)
(* tail, turn and teardown code) and the reader of its events:             *)
(* packages/runtime-acp/src/queue.ts.  push, close and next run to         *)
(* completion on the event loop, so each is one step; they interleave in   *)
(* any order.  One queue object exists per run, and every call of          *)
(* events(run) iterates over that same object, so more than one reader is  *)
(* possible although the class is written for one.                         *)
(***************************************************************************)
EXTENDS Naturals, Sequences

CONSTANTS Values,     \* the events
          Readers,    \* the loops that iterate over the queue
          None,       \* "#waiting is undefined"
          MaxPushes   \* bound: how many pushes an open queue takes

ASSUME QueueAssumption == /\ None \notin Readers
                          /\ MaxPushes \in Nat

VARIABLES buffer,     \* #buffer
          waiting,    \* #waiting: the reader whose promise is parked, or None
          closed,     \* #closed
          accepted,   \* history: values pushed while the queue was open
          received,   \* history: values that next() promises resolved with
          reader      \* what each reader is doing: "running" between two
                      \* calls of next(), "parked" on one, "done" after the
                      \* iteration ended

queueVars == <<buffer, waiting, closed, accepted, received, reader>>

QueueInit == /\ buffer = <<>>
             /\ waiting = None
             /\ closed = FALSE
             /\ accepted = <<>>
             /\ received = <<>>
             /\ reader = [r \in Readers |-> "running"]

-----------------------------------------------------------------------------
(* push(value) on a closed queue returns at once. *)
PushDropped == closed /\ UNCHANGED queueVars

(* push(value) with a parked reader resolves its promise with the value. *)
PushHandOver(v) ==
    /\ ~closed
    /\ waiting # None
    /\ Len(accepted) < MaxPushes
    /\ waiting' = None
    /\ reader' = [reader EXCEPT ![waiting] = "running"]
    /\ accepted' = Append(accepted, v)
    /\ received' = Append(received, v)
    /\ UNCHANGED <<buffer, closed>>

(* push(value) with nobody waiting buffers the value. *)
PushBuffer(v) ==
    /\ ~closed
    /\ waiting = None
    /\ Len(accepted) < MaxPushes
    /\ buffer' = Append(buffer, v)
    /\ accepted' = Append(accepted, v)
    /\ UNCHANGED <<waiting, closed, received, reader>>

(* Mutant: a parked reader is not told that the queue closed. *)
CloseSilently ==
    /\ ~closed
    /\ closed' = TRUE
    /\ UNCHANGED <<buffer, waiting, accepted, received, reader>>

(* close(): idempotent; a parked reader is told the iteration is over. *)
Close ==
    /\ ~closed
    /\ closed' = TRUE
    /\ waiting' = None
    /\ reader' = IF waiting = None THEN reader
                 ELSE [reader EXCEPT ![waiting] = "done"]
    /\ UNCHANGED <<buffer, accepted, received>>

(* Mutant: the newest value is taken first. *)
NextShiftNewest(r) ==
    /\ reader[r] = "running"
    /\ buffer # <<>>
    /\ buffer' = SubSeq(buffer, 1, Len(buffer) - 1)
    /\ received' = Append(received, buffer[Len(buffer)])
    /\ UNCHANGED <<waiting, closed, accepted, reader>>

(* next() with something buffered resolves with the oldest value. *)
NextShift(r) ==
    /\ reader[r] = "running"
    /\ buffer # <<>>
    /\ buffer' = Tail(buffer)
    /\ received' = Append(received, Head(buffer))
    /\ UNCHANGED <<waiting, closed, accepted, reader>>

(* next() on a drained, closed queue resolves with done. *)
NextDone(r) ==
    /\ reader[r] = "running"
    /\ buffer = <<>>
    /\ closed
    /\ reader' = [reader EXCEPT ![r] = "done"]
    /\ UNCHANGED <<buffer, waiting, closed, accepted, received>>

(* next() on an empty, open queue parks the reader.  #waiting holds one    *)
(* resolver: a second parked reader replaces the first.                    *)
NextPark(r) ==
    /\ reader[r] = "running"
    /\ buffer = <<>>
    /\ ~closed
    /\ waiting' = r
    /\ reader' = [reader EXCEPT ![r] = "parked"]
    /\ UNCHANGED <<buffer, closed, accepted, received>>

CallNext(r) == NextShift(r) \/ NextDone(r) \/ NextPark(r)

QueueNext == \/ PushDropped
             \/ \E v \in Values : PushHandOver(v) \/ PushBuffer(v)
             \/ Close
             \/ \E r \in Readers : CallNext(r)

QueueSpec == QueueInit /\ [][QueueNext]_queueVars

(* A `for await` loop keeps calling next(): the only fairness assumed is   *)
(* the reader's.  Whether anyone pushes or closes is up to the environment.*)
QueueFairness == \A r \in Readers : WF_queueVars(CallNext(r))

-----------------------------------------------------------------------------
QueueTypeOK == /\ buffer \in Seq(Values)
               /\ waiting \in Readers \cup {None}
               /\ closed \in BOOLEAN
               /\ accepted \in Seq(Values)
               /\ received \in Seq(Values)
               /\ reader \in [Readers -> {"running", "parked", "done"}]

(* What readers received, followed by what is still buffered, is exactly   *)
(* what was pushed while the queue was open, in order: push's hand-over    *)
(* can neither overtake the buffer nor lose or repeat a value, however     *)
(* many readers there are and however late they attach (queue.ts:1-6).     *)
InOrderExactlyOnce == accepted = received \o buffer

(* A parked reader is never parked beside a value it could have, nor on a  *)
(* queue that is closed: the wake-ups of push and close lose nobody.       *)
NoMissedWakeup == waiting # None => buffer = <<>> /\ ~closed

(* No reader is told the stream is over while values it could still have   *)
(* had are unread: close ends the iteration only "once what is already     *)
(* buffered has been read" (queue.ts:24).                                  *)
DoneMeansDrained ==
    \A r \in Readers : reader[r] = "done" => closed /\ received = accepted

(* With one reader, as the class is documented, a parked reader is always  *)
(* the one #waiting will wake (queue.ts:2, "one-consumer").                *)
NoStrandedReader ==
    (\A r, s \in Readers : r = s) =>
        \A r \in Readers : reader[r] = "parked" => waiting = r

(* The stream the rest of the system reasons about. *)
Stream == INSTANCE FifoStream WITH
              handed <- received,
              open <- ~closed,
              told <- {r \in Readers : reader[r] = "done"}

(* The queue implements the stream's promise.                              *)
ImplementsStream == Stream!Spec

(* A reader of a closed queue reaches the end of its iteration (queue.ts:  *)
(* 24-33, 40).                                                             *)
ReaderFinishes == \A r \in Readers : closed ~> (reader[r] = "done")

(* Every accepted value reaches a reader that keeps reading, before or     *)
(* after the queue is closed (queue.ts:13-22, 35-46).                      *)
EverythingRead == \A n \in 1..MaxPushes :
                      (Len(accepted) >= n) ~> (Len(received) >= n)
=============================================================================
