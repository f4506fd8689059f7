-------------------------- MODULE EventQueueProofs --------------------------
(***************************************************************************)
(* EventQueue for every set of values, every set of readers and every      *)
(* number of pushes: types, delivery in order exactly once, the end of the *)
(* stream, and the refinement of FifoStream.                               *)
(***************************************************************************)
EXTENDS EventQueue, SequenceTheorems, TLAPS

-----------------------------------------------------------------------------
(* Two facts about moving one value between the two halves of a queue.     *)

(* Handing the head over leaves the whole as it was.                       *)
LEMMA ShiftHead ==
    ASSUME NEW S, NEW s \in Seq(S), NEW t \in Seq(S), t # <<>>
    PROVE  s \o t = Append(s, Head(t)) \o Tail(t)
<1>1. Head(t) \in S /\ Tail(t) \in Seq(S)
  BY HeadTailProperties
<1>2. <<Head(t)>> \in Seq(S)
  BY <1>1
<1>3. t = <<Head(t)>> \o Tail(t)
  OBVIOUS
<1>4. Append(s, Head(t)) = s \o <<Head(t)>>
  BY <1>1, AppendIsConcat
<1>5. (s \o <<Head(t)>>) \o Tail(t) = s \o (<<Head(t)>> \o Tail(t))
  BY <1>1, <1>2, ConcatAssociative
<1>6. QED
  BY <1>3, <1>4, <1>5

(* The value right after the first half is the head of the second.         *)
LEMMA HeadOfSecond ==
    ASSUME NEW S, NEW s \in Seq(S), NEW t \in Seq(S), t # <<>>
    PROVE  /\ Len(s) < Len(s \o t)
           /\ (s \o t)[Len(s) + 1] = Head(t)
<1>1. Len(t) \in Nat \ {0} /\ Len(s) \in Nat
  BY EmptySeq
<1>2. Len(s \o t) = Len(s) + Len(t)
  BY ConcatProperties
<1>3. (s \o t)[Len(s) + 1] = t[1]
  BY <1>1, ConcatProperties
<1>4. QED
  BY <1>1, <1>2, <1>3

-----------------------------------------------------------------------------
(* The inductive invariant: on top of the properties, #waiting always      *)
(* names a reader that is parked.                                          *)
QueueInv == /\ QueueTypeOK
            /\ InOrderExactlyOnce
            /\ NoMissedWakeup
            /\ DoneMeansDrained
            /\ waiting # None => reader[waiting] = "parked"

LEMMA InitIInv == QueueInit => QueueInv
<1> SUFFICES ASSUME QueueInit PROVE QueueInv
  OBVIOUS
<1>1. <<>> \o <<>> = <<>>
  OBVIOUS
<1>2. QueueTypeOK
  <2>1. <<>> \in Seq(Values)
    OBVIOUS
  <2>2. reader \in [Readers -> {"running", "parked", "done"}]
    BY DEF QueueInit
  <2>3. QED
    BY <2>1, <2>2, Zenon DEF QueueInit, QueueTypeOK
<1>3. InOrderExactlyOnce
  BY <1>1 DEF QueueInit, InOrderExactlyOnce
<1>4. NoMissedWakeup /\ DoneMeansDrained /\ waiting = None
  BY DEF QueueInit, NoMissedWakeup, DoneMeansDrained
<1>5. QED
  BY <1>2, <1>3, <1>4 DEF QueueInv

LEMMA NextIInv == QueueInv /\ [QueueNext]_queueVars => QueueInv'
<1> SUFFICES ASSUME QueueInv, [QueueNext]_queueVars PROVE QueueInv'
  OBVIOUS
<1> USE QueueAssumption
<1>1. ASSUME NEW v \in Values, PushHandOver(v) PROVE QueueInv'
  <2>1. QueueTypeOK'
    BY <1>1, AppendProperties DEF QueueInv, QueueTypeOK, PushHandOver
  <2>2. buffer = <<>> /\ buffer' = <<>>
    BY <1>1 DEF QueueInv, NoMissedWakeup, PushHandOver
  <2>3. accepted = received
    BY <2>2, ConcatEmptySeq DEF QueueInv, QueueTypeOK, InOrderExactlyOnce
  <2>4. received' = received' \o <<>>
    BY <2>1, ConcatEmptySeq DEF QueueTypeOK
  <2>5. InOrderExactlyOnce'
    BY <1>1, <2>2, <2>3, <2>4 DEF InOrderExactlyOnce, PushHandOver
  <2>6. NoMissedWakeup' /\ DoneMeansDrained'
    BY <1>1 DEF QueueInv, QueueTypeOK, NoMissedWakeup, DoneMeansDrained, PushHandOver
  <2>7. QED
    BY <1>1, <2>1, <2>5, <2>6 DEF QueueInv, PushHandOver
<1>2. ASSUME NEW v \in Values, PushBuffer(v) PROVE QueueInv'
  <2>1. QueueTypeOK'
    BY <1>2, AppendProperties DEF QueueInv, QueueTypeOK, PushBuffer
  <2>2. InOrderExactlyOnce'
    <3>1. /\ received \in Seq(Values)
          /\ buffer \in Seq(Values)
          /\ accepted \in Seq(Values)
          /\ <<v>> \in Seq(Values)
      BY DEF QueueInv, QueueTypeOK
    <3>2. accepted' = accepted \o <<v>> /\ buffer' = buffer \o <<v>>
      BY <1>2, <3>1, AppendIsConcat DEF PushBuffer
    <3>3. (received \o buffer) \o <<v>> = received \o (buffer \o <<v>>)
      BY <3>1, ConcatAssociative
    <3>4. QED
      BY <1>2, <3>2, <3>3 DEF QueueInv, InOrderExactlyOnce, PushBuffer
  <2>3. QED
    BY <1>2, <2>1, <2>2
       DEF QueueInv, NoMissedWakeup, DoneMeansDrained, PushBuffer
<1>3. CASE Close
  <2>1. QueueTypeOK'
    BY <1>3 DEF QueueInv, QueueTypeOK, Close
  <2>2. waiting # None => accepted = received
    BY ConcatEmptySeq DEF QueueInv, QueueTypeOK, InOrderExactlyOnce, NoMissedWakeup
  <2>3. DoneMeansDrained'
    BY <1>3, <2>2 DEF QueueInv, QueueTypeOK, DoneMeansDrained, Close
  <2>4. QED
    BY <1>3, <2>1, <2>3
       DEF QueueInv, InOrderExactlyOnce, NoMissedWakeup, Close
<1>4. ASSUME NEW r \in Readers, NextShift(r) PROVE QueueInv'
  <2>1. Head(buffer) \in Values /\ Tail(buffer) \in Seq(Values)
    BY <1>4, HeadTailProperties DEF QueueInv, QueueTypeOK, NextShift
  <2>2. QueueTypeOK'
    BY <1>4, <2>1, AppendProperties DEF QueueInv, QueueTypeOK, NextShift
  <2>3. InOrderExactlyOnce'
    BY <1>4, ShiftHead DEF QueueInv, QueueTypeOK, InOrderExactlyOnce, NextShift
  <2>4. waiting = None
    BY <1>4 DEF QueueInv, NoMissedWakeup, NextShift
  <2>5. received # accepted
    BY <1>4, ConcatEqualIffEmpty DEF QueueInv, QueueTypeOK, InOrderExactlyOnce, NextShift
  <2>6. DoneMeansDrained'
    BY <1>4, <2>5 DEF QueueInv, DoneMeansDrained, NextShift
  <2>7. QED
    BY <1>4, <2>2, <2>3, <2>4, <2>6 DEF QueueInv, NoMissedWakeup, NextShift
<1>5. ASSUME NEW r \in Readers, NextDone(r) PROVE QueueInv'
  <2>1. QueueTypeOK'
    BY <1>5 DEF QueueInv, QueueTypeOK, NextDone
  <2>2. accepted = received /\ waiting = None
    BY <1>5, ConcatEmptySeq
       DEF QueueInv, QueueTypeOK, InOrderExactlyOnce, NoMissedWakeup, NextDone
  <2>3. DoneMeansDrained'
    BY <1>5, <2>2 DEF QueueInv, QueueTypeOK, DoneMeansDrained, NextDone
  <2>4. QED
    BY <1>5, <2>1, <2>2, <2>3
       DEF QueueInv, InOrderExactlyOnce, NoMissedWakeup, NextDone
<1>6. ASSUME NEW r \in Readers, NextPark(r) PROVE QueueInv'
  <2>1. QueueTypeOK'
    BY <1>6 DEF QueueInv, QueueTypeOK, NextPark
  <2>2. DoneMeansDrained'
    BY <1>6 DEF QueueInv, QueueTypeOK, DoneMeansDrained, NextPark
  <2>3. QED
    BY <1>6, <2>1, <2>2
       DEF QueueInv, QueueTypeOK, InOrderExactlyOnce, NoMissedWakeup, NextPark
<1>7. CASE UNCHANGED queueVars
  BY <1>7 DEF QueueInv, QueueTypeOK, InOrderExactlyOnce, NoMissedWakeup, DoneMeansDrained, queueVars
<1>8. QED
  BY <1>1, <1>2, <1>3, <1>4, <1>5, <1>6, <1>7
     DEF QueueNext, CallNext, PushDropped

(* Every reachable state satisfies the inductive invariant.                *)
THEOREM QueueInvariant == QueueSpec => []QueueInv
BY InitIInv, NextIInv, PTL DEF QueueSpec

(* The queue's state stays well-formed (the fields of queue.ts:9-11).      *)
THEOREM QueueTypes == QueueSpec => []QueueTypeOK
<1>1. QueueInv => QueueTypeOK
  BY DEF QueueInv
<1>2. QED
  BY <1>1, QueueInvariant, PTL

(* Events are delivered in the order pushed, none lost, none repeated.     *)
THEOREM QueueInOrder == QueueSpec => []InOrderExactlyOnce
<1>1. QueueInv => InOrderExactlyOnce
  BY DEF QueueInv
<1>2. QED
  BY <1>1, QueueInvariant, PTL

(* No reader waits beside a value or on a closed queue.                    *)
THEOREM QueueWakes == QueueSpec => []NoMissedWakeup
<1>1. QueueInv => NoMissedWakeup
  BY DEF QueueInv
<1>2. QED
  BY <1>1, QueueInvariant, PTL

(* Nobody is told the stream ended while a value is still unread.          *)
THEOREM QueueDone == QueueSpec => []DoneMeansDrained
<1>1. QueueInv => DoneMeansDrained
  BY DEF QueueInv
<1>2. QED
  BY <1>1, QueueInvariant, PTL

-----------------------------------------------------------------------------
(* With a single reader no parked reader is ever replaced in #waiting.     *)
THEOREM QueueStrandsNobody == QueueSpec => []NoStrandedReader
<1>1. QueueInit => NoStrandedReader
  BY DEF QueueInit, NoStrandedReader
<1>2. QueueInv /\ NoStrandedReader /\ [QueueNext]_queueVars => NoStrandedReader'
  <2> SUFFICES ASSUME QueueInv, NoStrandedReader, [QueueNext]_queueVars,
                      \A r, s \in Readers : r = s,
                      NEW q \in Readers, (reader[q] = "parked")'
               PROVE  (waiting = q)'
    BY DEF NoStrandedReader
  <2>1. ASSUME NEW v \in Values, PushHandOver(v) PROVE waiting' = q
    BY <2>1, QueueAssumption DEF QueueInv, QueueTypeOK, PushHandOver
  <2>2. ASSUME NEW v \in Values, PushBuffer(v) PROVE waiting' = q
    BY <2>2 DEF NoStrandedReader, PushBuffer
  <2>3. CASE Close
    <3>1. CASE waiting = None
      BY <2>3, <3>1, QueueAssumption DEF NoStrandedReader, Close
    <3>2. CASE waiting # None
      BY <2>3, <3>2 DEF QueueInv, QueueTypeOK, Close
    <3>3. QED
      BY <3>1, <3>2
  <2>4. ASSUME NEW r \in Readers, CallNext(r) PROVE waiting' = q
    BY <2>4 DEF QueueInv, QueueTypeOK, NoStrandedReader, CallNext, NextShift, NextDone, NextPark
  <2>5. CASE UNCHANGED queueVars
    BY <2>5 DEF NoStrandedReader, queueVars
  <2>6. QED
    BY <2>1, <2>2, <2>3, <2>4, <2>5 DEF QueueNext, PushDropped, queueVars
<1>3. QED
  BY <1>1, <1>2, QueueInvariant, PTL DEF QueueSpec

-----------------------------------------------------------------------------
(* Every step of the queue is a step of the stream it promises, or leaves  *)
(* that stream as it was.                                                  *)
LEMMA StreamStep == QueueInv /\ [QueueNext]_queueVars => [Stream!Next]_(Stream!vars)
<1> SUFFICES ASSUME QueueInv, [QueueNext]_queueVars, ~UNCHANGED Stream!vars
             PROVE  Stream!Next
  OBVIOUS
<1> DEFINE told == {r \in Readers : reader[r] = "done"}
<1> USE QueueAssumption
<1>1. ASSUME NEW v \in Values, PushHandOver(v) PROVE Stream!Next
  <2>1. received = accepted
    BY <1>1, ConcatEmptySeq
       DEF QueueInv, QueueTypeOK, InOrderExactlyOnce, NoMissedWakeup, PushHandOver
  <2>2. told' = told
    BY <1>1 DEF QueueInv, QueueTypeOK, PushHandOver
  <2>3. Stream!Accept(v)
    BY <1>1, <2>1, <2>2 DEF Stream!Accept, PushHandOver
  <2>4. QED
    BY <2>3 DEF Stream!Next
<1>2. ASSUME NEW v \in Values, PushBuffer(v) PROVE Stream!Next
  <2>1. Stream!Accept(v)
    BY <1>2 DEF Stream!Accept, PushBuffer
  <2>2. QED
    BY <2>1 DEF Stream!Next
<1>3. CASE Close
  <2>1. CASE waiting = None
    BY <1>3, <2>1 DEF Stream!Next, Stream!Close, Close
  <2>2. CASE waiting # None
    <3>1. received = accepted
      BY <2>2, ConcatEmptySeq DEF QueueInv, QueueTypeOK, InOrderExactlyOnce, NoMissedWakeup
    <3>2. waiting \in Readers
      BY <2>2 DEF QueueInv, QueueTypeOK
    <3>3. told' = told \cup {waiting}
      BY <1>3, <2>2, <3>2 DEF QueueInv, QueueTypeOK, Close
    <3>4. QED
      BY <1>3, <3>1, <3>2, <3>3 DEF Stream!Next, Stream!Close, Close
  <2>3. QED
    BY <2>1, <2>2
<1>4. ASSUME NEW r \in Readers, NextShift(r) PROVE Stream!Next
  <2>1. Len(received) < Len(accepted) /\ accepted[Len(received) + 1] = Head(buffer)
    BY <1>4, HeadOfSecond DEF QueueInv, QueueTypeOK, InOrderExactlyOnce, NextShift
  <2>2. QED
    BY <1>4, <2>1 DEF Stream!Next, Stream!Hand, NextShift
<1>5. ASSUME NEW r \in Readers, NextDone(r) PROVE Stream!Next
  <2>1. received = accepted
    BY <1>5, ConcatEmptySeq DEF QueueInv, QueueTypeOK, InOrderExactlyOnce, NextDone
  <2>2. told' = told \cup {r}
    BY <1>5 DEF QueueInv, QueueTypeOK, NextDone
  <2>3. Stream!Tell(r)
    BY <1>5, <2>1, <2>2 DEF Stream!Tell, NextDone
  <2>4. QED
    BY <2>3 DEF Stream!Next
<1>6. ASSUME NEW r \in Readers, NextPark(r) PROVE FALSE
  <2>1. told' = told
    BY <1>6 DEF QueueInv, QueueTypeOK, NextPark
  <2>2. QED
    BY <1>6, <2>1 DEF Stream!vars, NextPark
<1>7. ~UNCHANGED queueVars
  BY DEF queueVars, Stream!vars
<1>8. QED
  BY <1>1, <1>2, <1>3, <1>4, <1>5, <1>6, <1>7 DEF QueueNext, CallNext, PushDropped

(* queue.ts implements the ordered, exactly-once stream.                   *)
THEOREM QueueImplementsStream == QueueSpec => ImplementsStream
<1>1. QueueInit => Stream!Init
  BY DEF QueueInit, Stream!Init
<1>2. QED
  BY <1>1, StreamStep, QueueInvariant, PTL DEF QueueSpec, ImplementsStream, Stream!Spec
=============================================================================
