-------------------------- MODULE DockerExecProofs --------------------------
(* Proofs about DockerExec, for any number of polls and kills.             *)
EXTENDS DockerExec, TLAPS

(* Where the call is, against its streams, its timers and the process.     *)
CallerInv ==
    /\ call \in {"creating", "starting"} =>
           streams = "none" /\ proc = "none" /\ killer = "off" /\ grace = "off"
    /\ call \in {"attached", "waiting"} => Attached
    /\ call = "polling" /\ ~Attached => streams = "ended"
    /\ call = "done" => killer # "armed" /\ grace # "armed"
    /\ call # "done" => result = "none" /\ told = "none"
    /\ streams = "cut" => killer = "fired"
    /\ grace # "off" => killer = "fired"
    /\ proc # "over" => code = "none"
    /\ proc = "over" => code \in Codes
    /\ told # "none" => proc = "over" /\ told = code

(* What the exit code of WRITE_SCRIPT says of its target.                  *)
FileInv ==
    cmd.op = "writeFile" =>
        /\ code = "zero" => file = "new" \/ streams = "broken"
        /\ code = "missing" => cmd.path = "missing"
        /\ cmd.path # "file" => file = "old"
        /\ result = "ok" => told = "zero"
        /\ result = "file-not-found" => told = "missing"

IInv == TypeOK /\ CallerInv /\ FileInv /\ WholeOutput

LEMMA InitEstablishes == Init => IInv
<1>1. Init => boxUp \in BOOLEAN /\ killed \in BOOLEAN
  BY Zenon DEF Init
<1>2. Init => TypeOK
  BY <1>1, ExecAssumption DEF Init, TypeOK, Codes, Results
<1>3. Init => CallerInv /\ FileInv /\ WholeOutput
  BY DEF Init, CallerInv, FileInv, WholeOutput
<1> QED
  BY <1>2, <1>3 DEF IInv

(* Every value stays in its set. *)
LEMMA TypeStep == TypeOK /\ [Next]_vars => TypeOK'
<1> SUFFICES ASSUME TypeOK, [Next]_vars PROVE TypeOK'
  OBVIOUS
<1> USE ExecAssumption DEF TypeOK, Codes, Results, caller, timers, inBox
<1>1. CASE Request
  BY <1>1 DEF Request, CreateExec, StartExec, RequestFails, StartFailsLate,
              Finish
<1>2. CASE Collect
  BY <1>2 DEF Collect, Collected, TimedOut, CollectRejected, Finish
<1>3. CASE Poll
  <2>1. ASSUME NEW r \in Results, PollSeesExit(r) PROVE TypeOK'
    <3>1. code \in Codes \cup {"none"} /\ told' = code
      BY <2>1 DEF PollSeesExit
    <3> QED
      BY <2>1, <3>1 DEF PollSeesExit, Finish
  <2>2. CASE PollAgain
    BY <2>2 DEF PollAgain
  <2>3. CASE PollsExhausted
    BY <2>3 DEF PollsExhausted, Finish
  <2> QED
    BY <1>3, <2>1, <2>2, <2>3 DEF Poll
<1>4. CASE KillerFires \/ GraceFires
  BY <1>4 DEF KillerFires, GraceFires
<1>5. CASE Wait \/ WaitCloses \/ Kill
  BY <1>5 DEF Wait, WaitCloses, Kill
<1>6. CASE SignalEnds
  BY <1>6 DEF SignalEnds
<1>7. CASE SignalMisses \/ SignalFails
  BY <1>7 DEF SignalMisses, SignalFails
<1>8. CASE Box
  <2>1. CASE WritePid \/ HandOver \/ OpenTarget \/ CopyInput
    BY <2>1 DEF WritePid, HandOver, OpenTarget, CopyInput
  <2>2. ASSUME NEW c \in Codes, Exit(c) PROVE TypeOK'
    BY <2>2 DEF Exit
  <2>3. CASE LetGo \/ BoxStops
    BY <2>3 DEF LetGo, BoxStops
  <2> QED
    BY <1>8, <2>1, <2>2, <2>3 DEF Box
<1>9. CASE StreamEnds \/ StreamBreaks
  BY <1>9 DEF StreamEnds, StreamBreaks
<1>10. CASE UNCHANGED vars
  BY <1>10 DEF vars
<1> QED
  BY <1>1, <1>2, <1>3, <1>4, <1>5, <1>6, <1>7, <1>8, <1>9, <1>10 DEF Next

(* The call, its streams, its timers and the process stay in step, and a   *)
(* success has the whole output.                                           *)
LEMMA CallerStep ==
    TypeOK /\ CallerInv /\ WholeOutput /\ [Next]_vars =>
        CallerInv' /\ WholeOutput'
<1> SUFFICES ASSUME TypeOK, CallerInv, WholeOutput, [Next]_vars
             PROVE CallerInv' /\ WholeOutput'
  OBVIOUS
<1> USE DEF CallerInv, WholeOutput, Attached, Codes, caller, timers, inBox
<1>1. CASE CreateExec \/ StartExec
  BY <1>1 DEF CreateExec, StartExec
<1>2. CASE RequestFails \/ StartFailsLate
  BY <1>2 DEF RequestFails, StartFailsLate, Finish
<1>3. CASE Collect
  BY <1>3 DEF Collect, Collected, TimedOut, CollectRejected, Finish
<1>4. ASSUME NEW r \in Results, PollSeesExit(r)
      PROVE CallerInv' /\ WholeOutput'
  BY <1>4 DEF PollSeesExit, Finish
<1>5. CASE PollAgain \/ PollsExhausted
  BY <1>5 DEF PollAgain, PollsExhausted, Finish
<1>6. CASE KillerFires \/ GraceFires
  BY <1>6 DEF KillerFires, GraceFires
<1>7. CASE Wait \/ WaitCloses \/ Kill
  BY <1>7 DEF Wait, WaitCloses, Kill
<1>8. CASE SignalEnds
  BY <1>8 DEF SignalEnds, Running
<1>9. CASE SignalMisses \/ SignalFails
  BY <1>9 DEF SignalMisses, SignalFails
<1>10. CASE WritePid \/ HandOver \/ OpenTarget \/ CopyInput
  BY <1>10 DEF WritePid, HandOver, OpenTarget, CopyInput
<1>11. ASSUME NEW c \in Codes, Exit(c) PROVE CallerInv' /\ WholeOutput'
  BY <1>11 DEF Exit
<1>12. CASE LetGo \/ BoxStops
  BY <1>12 DEF LetGo, BoxStops, Running
<1>13. CASE StreamEnds \/ StreamBreaks
  BY <1>13 DEF StreamEnds, StreamBreaks
<1>14. CASE UNCHANGED vars
  BY <1>14 DEF vars
<1> QED
  BY <1>1, <1>2, <1>3, <1>4, <1>5, <1>6, <1>7, <1>8, <1>9, <1>10, <1>11,
     <1>12, <1>13, <1>14 DEF Next, Request, Poll, Box

(* The exit code of the write script keeps its meaning. *)
LEMMA FileStep == TypeOK /\ CallerInv /\ FileInv /\ [Next]_vars => FileInv'
<1> SUFFICES ASSUME TypeOK, CallerInv, FileInv, [Next]_vars,
                    (cmd.op = "writeFile")'
             PROVE FileInv'
  BY DEF FileInv
<1> USE DEF CallerInv, FileInv, caller, timers, inBox
<1>1. CASE CreateExec \/ StartExec
  BY <1>1 DEF CreateExec, StartExec
<1>2. CASE RequestFails \/ StartFailsLate
  BY <1>2 DEF RequestFails, StartFailsLate, Finish
<1>3. CASE Collect
  BY <1>3 DEF Collect, Collected, TimedOut, CollectRejected, Finish
<1>4. ASSUME NEW r \in Results, PollSeesExit(r) PROVE FileInv'
  <2>1. told' = code /\ UNCHANGED <<cmd, streams, code, file>>
    BY <1>4 DEF PollSeesExit
  <2>2. result' \in Verdicts(code) /\ code \in Codes
    BY <1>4 DEF PollSeesExit, Finish
  <2>3. /\ result' = "ok" => code = "zero"
        /\ result' = "file-not-found" => code = "missing"
    BY <2>1, <2>2 DEF Verdicts, FileOps, Codes
  <2> QED
    BY <2>1, <2>3
<1>5. CASE PollAgain \/ PollsExhausted
  BY <1>5 DEF PollAgain, PollsExhausted, Finish
<1>6. CASE KillerFires \/ GraceFires
  BY <1>6 DEF KillerFires, GraceFires
<1>7. CASE Wait \/ WaitCloses \/ Kill
  BY <1>7 DEF Wait, WaitCloses, Kill
<1>8. CASE SignalEnds
  BY <1>8 DEF SignalEnds, Attached
<1>9. CASE SignalMisses \/ SignalFails
  BY <1>9 DEF SignalMisses, SignalFails
<1>10. CASE WritePid \/ HandOver \/ OpenTarget \/ CopyInput
  BY <1>10 DEF WritePid, HandOver, OpenTarget, CopyInput
<1>11. ASSUME NEW c \in Codes, Exit(c) PROVE FileInv'
  BY <1>11 DEF Exit, Exits, WriteExits, FileOps
<1>12. CASE LetGo \/ BoxStops
  BY <1>12 DEF LetGo, BoxStops
<1>13. CASE StreamEnds \/ StreamBreaks
  BY <1>13 DEF StreamEnds, StreamBreaks
<1>14. CASE UNCHANGED vars
  BY <1>14 DEF vars
<1> QED
  BY <1>1, <1>2, <1>3, <1>4, <1>5, <1>6, <1>7, <1>8, <1>9, <1>10, <1>11,
     <1>12, <1>13, <1>14 DEF Next, Request, Poll, Box

(* The inductive invariant: types, the call in step with its streams,      *)
(* timers and process, and what an exit code says of the file.             *)
THEOREM ExecInvariant == Spec => []IInv
<1>1. IInv /\ [Next]_vars => IInv'
  BY TypeStep, CallerStep, FileStep DEF IInv
<1> QED
  BY InitEstablishes, <1>1, PTL DEF Spec

(* Every variable of a command keeps its type. *)
THEOREM ExecTypes == Spec => []TypeOK
  BY ExecInvariant, PTL DEF IInv

(* A success of a method comes with all of the command's output, and from  *)
(* a command that is over.                                                 *)
THEOREM SuccessIsWhole == Spec => []WholeOutput
  BY ExecInvariant, PTL DEF IInv

(* writeFile's answer says what the file holds. *)
THEOREM WritesAreWhole == Spec => []WrittenMeansWritten
<1>1. IInv => WrittenMeansWritten
  <2> SUFFICES ASSUME IInv, cmd.op = "writeFile"
               PROVE /\ result = "ok" => file = "new"
                     /\ result = "file-not-found" => file = "old"
    BY DEF WrittenMeansWritten
  <2>1. ASSUME result = "ok" PROVE file = "new"
    BY <2>1 DEF IInv, CallerInv, FileInv, WholeOutput, Attached
  <2>2. ASSUME result = "file-not-found" PROVE file = "old"
    BY <2>2 DEF IInv, CallerInv, FileInv
  <2> QED
    BY <2>1, <2>2
<1> QED
  BY ExecInvariant, <1>1, PTL

(* A call that has answered sends no more signals. *)
THEOREM AnswersAreLast == Spec => NoSignalAfterAnswer
<1>1. IInv /\ [Next]_vars =>
          [call = "done" /\ ~Attached => signals' <= signals]_vars
  <2> SUFFICES ASSUME IInv, Next, call = "done", ~Attached
               PROVE signals' <= signals
    OBVIOUS
  <2>1. signals \in Nat /\ killer # "armed"
    BY DEF IInv, TypeOK, CallerInv
  <2>2. \/ UNCHANGED signals
        \/ signals' = signals - 1
    BY <2>1 DEF Next, Request, CreateExec, StartExec, RequestFails,
           StartFailsLate, Collect, Collected, TimedOut, CollectRejected,
           Poll, PollSeesExit, PollAgain, PollsExhausted, KillerFires,
           GraceFires, Wait, WaitCloses, Kill, SignalEnds, SignalMisses,
           SignalFails, Box, WritePid, HandOver, OpenTarget, CopyInput, Exit,
           LetGo, BoxStops, StreamEnds, StreamBreaks
  <2> QED
    BY <2>1, <2>2
<1> QED
  BY ExecInvariant, <1>1, PTL DEF Spec, NoSignalAfterAnswer

(* Every step of a command is one of the promised ones, or none of the     *)
(* promise's business.                                                     *)
THEOREM ExecKeepsPromise == Spec => ImplementsPromise
<1>1. Init => Promise!Init
  BY DEF Init, Promise!Init
<1>2. IInv /\ [Next]_vars => [Promise!Next]_(Promise!vars)
  <2> SUFFICES ASSUME IInv, [Next]_vars
               PROVE Promise!Next \/ UNCHANGED <<proc, code, told, call>>
                     \/ UNCHANGED Promise!vars
    BY DEF Promise!vars
  <2> USE DEF Promise!vars, caller, timers, inBox
  <2>1. CASE CreateExec
    BY <2>1 DEF CreateExec
  <2>2. CASE StartExec
    <3>1. call = "starting" /\ proc = "none"
      BY <2>2 DEF StartExec, IInv, CallerInv
    <3>2. Promise!Start
      BY <2>2, <3>1 DEF StartExec, Promise!Start
    <3> QED
      BY <3>2 DEF Promise!Next
  <2>3. CASE RequestFails
    BY <2>3 DEF RequestFails, Finish, Promise!Next, Promise!Fail
  <2>4. CASE StartFailsLate
    <3>1. call = "starting" /\ proc = "none"
      BY <2>4 DEF StartFailsLate, IInv, CallerInv
    <3>2. Promise!StartUnseen
      BY <2>4, <3>1 DEF StartFailsLate, Finish, Promise!StartUnseen
    <3> QED
      BY <3>2 DEF Promise!Next
  <2>5. CASE Collect
    BY <2>5 DEF Collect, Collected, TimedOut, CollectRejected, Finish,
                Promise!Next, Promise!Fail
  <2>6. ASSUME NEW r \in Results, PollSeesExit(r) PROVE Promise!Next
    BY <2>6 DEF PollSeesExit, Finish, Promise!Next, Promise!Tell
  <2>7. CASE PollAgain \/ PollsExhausted
    BY <2>7 DEF PollAgain, PollsExhausted, Finish, Promise!Next, Promise!Fail
  <2>8. CASE KillerFires \/ GraceFires
    BY <2>8 DEF KillerFires, GraceFires
  <2>9. CASE Wait \/ WaitCloses \/ Kill
    BY <2>9 DEF Wait, WaitCloses, Kill
  <2>10. CASE SignalEnds
    <3>1. PICK c \in Codes : code' = c
      BY <2>10 DEF SignalEnds, Codes
    <3>2. Promise!End(c)
      BY <2>10, <3>1 DEF SignalEnds, Running, Promise!End
    <3> QED
      BY <3>2 DEF Promise!Next
  <2>11. CASE SignalMisses \/ SignalFails
    BY <2>11 DEF SignalMisses, SignalFails
  <2>12. CASE WritePid \/ HandOver \/ OpenTarget \/ CopyInput
    BY <2>12 DEF WritePid, HandOver, OpenTarget, CopyInput
  <2>13. ASSUME NEW c \in Codes, Exit(c) PROVE Promise!Next
    <3>1. Promise!End(c)
      BY <2>13 DEF Exit, Promise!End
    <3> QED
      BY <3>1 DEF Promise!Next
  <2>14. CASE LetGo
    BY <2>14 DEF LetGo
  <2>15. CASE BoxStops
    <3>1. ASSUME Running PROVE Promise!End("other")
      BY <2>15, <3>1 DEF BoxStops, Running, Promise!End
    <3>2. "other" \in Codes
      BY DEF Codes
    <3>3. ASSUME ~Running PROVE UNCHANGED <<proc, code, told, call>>
      BY <2>15, <3>3 DEF BoxStops
    <3> QED
      BY <3>1, <3>2, <3>3 DEF Promise!Next
  <2>16. CASE StreamEnds \/ StreamBreaks
    BY <2>16 DEF StreamEnds, StreamBreaks
  <2>17. CASE UNCHANGED vars
    BY <2>17 DEF vars
  <2> QED
    BY <2>1, <2>2, <2>3, <2>4, <2>5, <2>6, <2>7, <2>8, <2>9, <2>10, <2>11,
       <2>12, <2>13, <2>14, <2>15, <2>16, <2>17
       DEF Next, Request, Poll, Box
<1> QED
  BY ExecInvariant, <1>1, <1>2, PTL DEF Spec, ImplementsPromise, Promise!Spec

(* What a call answers is true of the command and of the file. *)
THEOREM AnswersAreTrueAlways == Spec => []AnswersAreTrue
<1>1. WholeOutput /\ WrittenMeansWritten => AnswersAreTrue
      BY DEF AnswersAreTrue
<1>2. QED BY <1>1, SuccessIsWhole, WritesAreWhole, PTL
=============================================================================
