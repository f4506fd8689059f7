----------------------------- MODULE DockerExec -----------------------------
(***************************************************************************)
(* One command in a bot's box, driven through `docker exec`:               *)
(* packages/computer-docker/src/computer.ts over the exec requests and the *)
(* stream splitting of docker-client.ts.  The command is one of the five   *)
(* methods of Computer; a method's caller makes one such call here, and    *)
(* with attach goes on to use the process it returned.                     *)
(*                                                                         *)
(* What is assumed of the daemon and the box:                              *)
(*  - the connection of an exec is closed by the daemon no earlier than    *)
(*    nobody in the box holds the command's output any more, or the        *)
(*    command is over (processes it left behind may be cut off); it may    *)
(*    break with an error at any time;                                     *)
(*  - inspecting an exec shows the exit code some time after the exit;     *)
(*  - a box that stops takes its processes with it;                        *)
(*  - a command that lost its connection sees its input end early.         *)
(***************************************************************************)
EXTENDS Naturals

CONSTANTS MaxPolls,   \* EXIT_POLL_ATTEMPTS
          MaxKills    \* bound: how often the caller of attach calls kill()

ASSUME ExecAssumption == MaxPolls \in Nat /\ MaxKills \in Nat

VARIABLES cmd,       \* which method, whether opts.timeoutMs was given, and
                     \* what a file operation's path leads to
          call,      \* where the method is; "attached" is a returned
                     \* attach, "waiting" the `closed.then` of its wait()
          result,    \* what the call ended with
          told,      \* what waitForExit returned
          polls,     \* its attempts
          killer,    \* the two timers of #execute; killer = "fired" is
          grace,     \* `timedOut`
          kills,     \* calls of kill() so far
          signals,   \* signalPid calls under way
          streams,   \* the client's ends of stdout and stderr; "cut" by grace
          proc,      \* the process in the box: PID_WRAPPER's "shell", then
                     \* the "command" it hands over to
          pid,       \* the pid file
          code,      \* the exit code: "zero", "missing" (66) or "other"
          pipes,     \* whether a process in the box holds the output
          file,      \* what writeFile's target holds
          boxUp,
          killed     \* history: a signal of signalPid ended the process

caller == <<cmd, call, result, told, polls>>
timers == <<killer, grace>>
inBox  == <<proc, pid, code, pipes, file, boxUp, killed>>
vars   == <<caller, timers, kills, signals, streams, inBox>>

Codes == {"zero", "missing", "other"}

FileOps == {"readFile", "writeFile", "listFiles"}

(* For writeFile, a "missing" path is one whose directory is missing.      *)
Commands == [op : {"runCommand"}, timed : BOOLEAN, path : {"none"}]
            \cup [op : {"attach"}, timed : {FALSE}, path : {"none"}]
            \cup [op : FileOps, timed : {FALSE},
                  path : {"missing", "file", "directory"}]

Attached == cmd.op = "attach"

Init == /\ cmd \in Commands
        /\ call = "creating"
        /\ result = "none"
        /\ told = "none"
        /\ polls = 0
        /\ killer = "off"
        /\ grace = "off"
        /\ kills = 0
        /\ signals = 0
        /\ streams = "none"
        /\ proc = "none"
        /\ pid = "none"
        /\ code = "none"
        /\ pipes = "none"
        /\ file = "old"
        /\ boxUp = TRUE
        /\ killed = FALSE

-----------------------------------------------------------------------------
(* The caller's side: the event loop of the app.                           *)

(* Mutant: the timers outlive the call. *)
FinishKeepingTimers(r) == /\ call' = "done"
                          /\ result' = r
                          /\ UNCHANGED timers

(* The call ends; `finally` clears whichever timer is still running.       *)
Finish(r) == /\ call' = "done"
             /\ result' = r
             /\ killer' = IF killer = "armed" THEN "off" ELSE killer
             /\ grace' = IF grace = "armed" THEN "off" ELSE grace

(* createExec answered. *)
CreateExec == /\ call = "creating"
              /\ boxUp
              /\ call' = "starting"
              /\ UNCHANGED <<cmd, result, told, polls, timers, kills, signals,
                             streams, inBox>>

(* startExec answered: the wrapper runs, stdin is written and ended, and   *)
(* #execute starts its timer and collects; attach returns the process.     *)
StartExec == /\ call = "starting"
             /\ boxUp
             /\ call' = IF Attached THEN "attached" ELSE "collecting"
             /\ killer' = IF cmd.timed THEN "armed" ELSE "off"
             /\ streams' = "open"
             /\ proc' = "shell"
             /\ pipes' = "held"
             /\ UNCHANGED <<cmd, result, told, polls, grace, kills, signals,
                            pid, code, file, boxUp, killed>>

(* A request of the call threw: createExec, startExec or inspectExec.      *)
RequestFails == /\ call \in {"creating", "starting", "polling"}
                /\ Finish("daemon")
                /\ UNCHANGED <<cmd, told, polls, kills, signals, streams,
                               inBox>>

(* startExec threw although the daemon had started the command.            *)
StartFailsLate == /\ call = "starting"
                  /\ boxUp
                  /\ Finish("daemon")
                  /\ proc' = "shell"
                  /\ pipes' = "held"
                  /\ UNCHANGED <<cmd, told, polls, kills, signals, streams,
                                 pid, code, file, boxUp, killed>>

(* Mutant: nothing cuts the streams of a command that holds on to them. *)
KillerFiresNoGrace == /\ killer = "armed"
                      /\ killer' = "fired"
                      /\ signals' = signals + 1
                      /\ UNCHANGED <<caller, grace, kills, streams, inBox>>

(* timeoutMs is over: a KILL is sent, and the grace period starts.         *)
KillerFires == /\ killer = "armed"
               /\ killer' = "fired"
               /\ grace' = "armed"
               /\ signals' = signals + 1
               /\ UNCHANGED <<caller, kills, streams, inBox>>

(* KILL_GRACE_MS later: streams that are still open are destroyed.         *)
GraceFires == /\ grace = "armed"
              /\ grace' = "fired"
              /\ streams' = IF streams = "open" THEN "cut" ELSE streams
              /\ UNCHANGED <<caller, killer, kills, signals, inBox>>

(* Mutant: what was collected is taken for the output. *)
CollectedAnyway == /\ call = "collecting"
                   /\ streams \in {"ended", "cut"}
                   /\ call' = "polling"
                   /\ UNCHANGED <<cmd, result, told, polls, timers, kills,
                                  signals, streams, inBox>>

(* Both collect()s resolved in time. *)
Collected == /\ call = "collecting"
             /\ streams \in {"ended", "cut"}
             /\ killer # "fired"
             /\ call' = "polling"
             /\ UNCHANGED <<cmd, result, told, polls, timers, kills, signals,
                            streams, inBox>>

(* Both collect()s resolved, but not in time. *)
TimedOut == /\ call = "collecting"
            /\ streams \in {"ended", "cut"}
            /\ killer = "fired"
            /\ Finish("timeout")
            /\ UNCHANGED <<cmd, told, polls, kills, signals, streams, inBox>>

(* A collect() rejected with the connection's own error.                   *)
CollectRejected == /\ call = "collecting"
                   /\ streams = "broken"
                   /\ Finish("transport")
                   /\ UNCHANGED <<cmd, told, polls, kills, signals, streams,
                                  inBox>>

(* What the methods make of an exit code.  parseListing throws on entries  *)
(* it cannot read.                                                         *)
Verdicts(c) == IF cmd.op \notin FileOps THEN {"ok"}
               ELSE IF c = "missing" THEN {"file-not-found"}
               ELSE IF c = "other" THEN {"runtime"}
               ELSE IF cmd.op = "listFiles" THEN {"ok", "runtime"}
               ELSE {"ok"}

(* Mutant: an exec that has not reported yet has exited with zero. *)
PollSeesAnything(r) == /\ call = "polling"
                       /\ polls < MaxPolls
                       /\ r \in Verdicts("zero")
                       /\ told' = "zero"
                       /\ Finish(r)
                       /\ UNCHANGED <<cmd, polls, kills, signals, streams,
                                      inBox>>

(* waitForExit: an inspection shows the exit code, which settles the call. *)
PollSeesExit(r) == /\ call = "polling"
                   /\ polls < MaxPolls
                   /\ proc = "over"
                   /\ r \in Verdicts(code)
                   /\ told' = code
                   /\ Finish(r)
                   /\ UNCHANGED <<cmd, polls, kills, signals, streams, inBox>>

(* waitForExit: the exit code is not there yet; another delay.             *)
PollAgain == /\ call = "polling"
             /\ polls < MaxPolls
             /\ polls' = polls + 1
             /\ UNCHANGED <<cmd, call, result, told, timers, kills, signals,
                            streams, inBox>>

(* waitForExit gives up after its last attempt. *)
PollsExhausted == /\ call = "polling"
                  /\ polls = MaxPolls
                  /\ Finish("runtime")
                  /\ UNCHANGED <<cmd, told, polls, kills, signals, streams,
                                 inBox>>

(* wait(); #exit makes later calls share the first one's promise.          *)
Wait == /\ call = "attached"
        /\ call' = "waiting"
        /\ UNCHANGED <<cmd, result, told, polls, timers, kills, signals,
                       streams, inBox>>

(* `closed` resolved, also by an error: wait() starts to poll.             *)
WaitCloses == /\ call = "waiting"
              /\ streams \in {"ended", "broken"}
              /\ call' = "polling"
              /\ UNCHANGED <<cmd, result, told, polls, timers, kills, signals,
                             streams, inBox>>

(* kill(): whoever holds the process may call it at any time, also twice.  *)
Kill == /\ Attached
        /\ streams # "none"
        /\ kills < MaxKills
        /\ kills' = kills + 1
        /\ signals' = signals + 1
        /\ UNCHANGED <<caller, timers, streams, inBox>>

-----------------------------------------------------------------------------
(* signalPid in the box: an exec of its own that reads the pid file.       *)

Running == proc \in {"shell", "command"}

(* `kill -s` reaches the process.  KILL ends it; the signal of kill() may  *)
(* be one it handles.  What the process started may keep the output.       *)
SignalEnds == /\ signals > 0
              /\ boxUp
              /\ pid = "written"
              /\ Running
              /\ signals' = signals - 1
              /\ proc' = "over"
              /\ code' \in IF Attached THEN Codes ELSE {"other"}
              /\ pipes' \in {pipes, "free"}
              /\ killed' = TRUE
              /\ UNCHANGED <<caller, timers, kills, streams, pid, file, boxUp>>

(* The signal does nothing: the exec failed, there is no pid in the file,  *)
(* the process is gone, or it handles the signal.                          *)
SignalMisses == /\ signals > 0
                /\ ~boxUp \/ pid = "none" \/ ~Running \/ Attached
                /\ signals' = signals - 1
                /\ UNCHANGED <<caller, timers, kills, streams, inBox>>

(* A request of signalPid threw: the timer's call swallows it, kill()      *)
(* rejects.                                                                *)
SignalFails == /\ signals > 0
               /\ signals' = signals - 1
               /\ UNCHANGED <<caller, timers, kills, streams, inBox>>

-----------------------------------------------------------------------------
(* The command in the box.                                                 *)

(* PID_WRAPPER: `echo $$ > "$1"`, which goes unnoticed when it fails.      *)
WritePid == /\ proc = "shell"
            /\ pid = "none"
            /\ pid' = "written"
            /\ UNCHANGED <<caller, timers, kills, signals, streams, proc, code,
                           pipes, file, boxUp, killed>>

(* PID_WRAPPER: `exec "$@"`. *)
HandOver == /\ proc = "shell"
            /\ proc' = "command"
            /\ UNCHANGED <<caller, timers, kills, signals, streams, pid, code,
                           pipes, file, boxUp, killed>>

(* WRITE_SCRIPT: the redirection empties the target. *)
OpenTarget == /\ proc = "command"
              /\ cmd.op = "writeFile"
              /\ cmd.path = "file"
              /\ file = "old"
              /\ file' = "torn"
              /\ UNCHANGED <<caller, timers, kills, signals, streams, proc,
                             pid, code, pipes, boxUp, killed>>

(* WRITE_SCRIPT: cat has copied all of stdin. *)
CopyInput == /\ proc = "command"
             /\ file = "torn"
             /\ file' = "new"
             /\ UNCHANGED <<caller, timers, kills, signals, streams, proc, pid,
                            code, pipes, boxUp, killed>>

(* The exit codes of the scripts; a command of the caller's has its own.   *)
ReadExits(c) == \/ cmd.path = "missing" /\ c = "missing"
                \/ cmd.path = "file" /\ c \in {"zero", "other"}
                \/ cmd.path = "directory" /\ c = "other"

ListExits(c) == \/ cmd.path # "directory" /\ c = "missing"
                \/ cmd.path = "directory" /\ c \in {"zero", "missing", "other"}

WriteExits(c) == \/ cmd.path = "missing" /\ c = "missing"
                 \/ cmd.path # "missing" /\ c = "other"
                 \/ file = "new" /\ c = "zero"
                 \/ file = "torn" /\ streams = "broken" /\ c = "zero"

Exits(c) == \/ cmd.op \notin FileOps
            \/ cmd.op = "readFile" /\ ReadExits(c)
            \/ cmd.op = "listFiles" /\ ListExits(c)
            \/ cmd.op = "writeFile" /\ WriteExits(c)

(* The command exits; what it leaves running may keep its output open.     *)
Exit(c) == /\ proc = "command"
           /\ Exits(c)
           /\ proc' = "over"
           /\ code' = c
           /\ pipes' \in IF cmd.op \in FileOps THEN {"free"}
                         ELSE {pipes, "free"}
           /\ UNCHANGED <<caller, timers, kills, signals, streams, pid, file,
                          boxUp, killed>>

(* The command, or what it left running, closes its output.                *)
LetGo == /\ proc \in {"command", "over"}
         /\ cmd.op \notin FileOps
         /\ pipes = "held"
         /\ pipes' = "free"
         /\ UNCHANGED <<caller, timers, kills, signals, streams, proc, pid,
                        code, file, boxUp, killed>>

(* The box stops, or is removed. *)
BoxStops == /\ boxUp
            /\ boxUp' = FALSE
            /\ proc' = IF Running THEN "over" ELSE proc
            /\ code' = IF Running THEN "other" ELSE code
            /\ pipes' = IF pipes = "held" THEN "free" ELSE pipes
            /\ UNCHANGED <<caller, timers, kills, signals, streams, pid, file,
                           killed>>

(* The daemon closes the connection; demultiplex ends both streams.        *)
StreamEnds == /\ streams = "open"
              /\ pipes = "free" \/ proc = "over"
              /\ streams' = "ended"
              /\ UNCHANGED <<caller, timers, kills, signals, inBox>>

(* The connection breaks; demultiplex destroys both streams with its error.*)
StreamBreaks == /\ streams = "open"
                /\ streams' = "broken"
                /\ UNCHANGED <<caller, timers, kills, signals, inBox>>

Results == {"ok", "file-not-found", "runtime", "timeout", "daemon",
            "transport"}

Request == CreateExec \/ StartExec \/ RequestFails \/ StartFailsLate

Collect == Collected \/ TimedOut \/ CollectRejected

Poll == (\E r \in Results : PollSeesExit(r)) \/ PollAgain \/ PollsExhausted

Box == \/ WritePid \/ HandOver \/ OpenTarget \/ CopyInput
       \/ \E c \in Codes : Exit(c)
       \/ LetGo \/ BoxStops

Next == \/ Request \/ Collect \/ Poll
        \/ KillerFires \/ GraceFires
        \/ Wait \/ WaitCloses \/ Kill
        \/ SignalEnds \/ SignalMisses \/ SignalFails
        \/ Box \/ StreamEnds \/ StreamBreaks

Spec == Init /\ [][Next]_vars

(* Requests to the daemon are answered (none need fail while the exit code *)
(* is polled), the event loop runs what is ready and timers fire; the      *)
(* daemon closes a connection nobody writes to any more.  The command      *)
(* itself is obliged to nothing.                                           *)
FairSpec == /\ Spec
            /\ WF_vars(call \in {"creating", "starting"} /\ Request)
            /\ WF_vars(Collect)
            /\ WF_vars(Poll)
            /\ WF_vars(WaitCloses)
            /\ WF_vars(KillerFires)
            /\ WF_vars(GraceFires)
            /\ WF_vars(StreamEnds)

-----------------------------------------------------------------------------
TypeOK == /\ cmd \in Commands
          /\ call \in {"creating", "starting", "collecting", "attached",
                       "waiting", "polling", "done"}
          /\ result \in Results \cup {"none"}
          /\ told \in Codes \cup {"none"}
          /\ polls \in 0..MaxPolls
          /\ killer \in {"off", "armed", "fired"}
          /\ grace \in {"off", "armed", "fired"}
          /\ kills \in 0..MaxKills
          /\ signals \in Nat
          /\ streams \in {"none", "open", "ended", "broken", "cut"}
          /\ proc \in {"none", "shell", "command", "over"}
          /\ pid \in {"none", "written"}
          /\ code \in Codes \cup {"none"}
          /\ pipes \in {"none", "held", "free"}
          /\ file \in {"old", "torn", "new"}
          /\ boxUp \in BOOLEAN
          /\ killed \in BOOLEAN

(* A result that is handed out as a success has all of the command's       *)
(* output: it never comes from streams that the grace timer cut or the     *)
(* connection lost, nor from a command that is still running, wherever the *)
(* timers fire between collecting and polling (computer.ts:299-335).       *)
WholeOutput == result = "ok" /\ ~Attached =>
                   streams = "ended" /\ proc = "over" /\ told = code

(* writeFile returns only if the whole content is in the file, although    *)
(* the script empties the target first and the box may stop, or the        *)
(* connection break, halfway; and it says there is no such directory only  *)
(* if nothing was touched (computer.ts:41, 280-289).                       *)
WrittenMeansWritten ==
    cmd.op = "writeFile" => /\ result = "ok" => file = "new"
                            /\ result = "file-not-found" => file = "old"

(* What a call answers is true: what was read is whole, what was written   *)
(* is there (computer.ts:250-297).                                         *)
AnswersAreTrue == WholeOutput /\ WrittenMeansWritten

(* A call that has answered sends no more signals.  Its pid file outlives  *)
(* the process, so a late one could reach whoever has the number by then   *)
(* (computer.ts:312-321, 331-334).                                         *)
NoSignalAfterAnswer ==
    [][call = "done" /\ ~Attached => signals' <= signals]_vars

(* The exit code a caller is told is the command's own, told once, after   *)
(* the command is gone (core/src/computer.ts:69-72).                       *)
Promise == INSTANCE BoxCommand WITH
               process <- IF proc = "none" THEN "none"
                          ELSE IF proc = "over" THEN "gone" ELSE "alive",
               status <- code,
               told <- told,
               settled <- (call = "done")

ImplementsPromise == Promise!Spec

(* A runCommand with a timeout comes back, whatever the command does with  *)
(* its output and whether or not the signal reaches it: "A process that    *)
(* does not let go of its streams must not hold the caller" (computer.ts:  *)
(* 316).                                                                   *)
TimedCallsAnswer == (call = "collecting" /\ cmd.timed) ~> (call = "done")

(* Every other call, and wait(), comes back once the command's output is   *)
(* over for whatever reason, even if the command goes on for ever          *)
(* (computer.ts:61-63, 106-113, 229-232).                                  *)
AnswersFollowOutput ==
    (call \in {"collecting", "waiting"} /\ (pipes = "free" \/ streams # "open"))
        ~> (call = "done")

(* What RunCommandOptions says of timeoutMs: "Kills the process and throws *)
(* ComputerError("timeout") when exceeded" (core/src/computer.ts:52).  The *)
(* only signal a runCommand sends is its killer's, and it counts here only *)
(* if it found the process running and ended it.                           *)
TimeoutIsReported == cmd.timed /\ killed => result # "ok"
=============================================================================
