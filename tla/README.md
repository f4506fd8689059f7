# drobek-bot in TLA+

drobek-bot runs AI agents ("bots"), each in a box of its own: a Docker
container with a home volume. The app starts an agent in the box, speaks ACP
with it over the box's pipes, shows its events to people, carries their
decisions back, and accounts for the tokens it spends. This directory holds
TLA+ models of the parts of that where order, concurrency and failure matter,
the TLC configurations that check them, and TLAPS proofs about them.

All paths below are relative to the repository.

## The system

| component | state | operations | interacts with |
|---|---|---|---|
| runs (`packages/runtime-acp/src/runtime.ts`) | `#runs`; per run the inbox (`pending`, `replaying`, `ended`, queue), the turn, the tail, the process | `startRun`, `sendMessage`, `resolveApproval`, `interrupt`, `events`, `endRun`; handlers `sessionUpdate`, `requestPermission`; exit handler | the agent over ACP, the box through `Computer`, the queue, the tail |
| event queue (`queue.ts`) | `#buffer`, `#waiting`, `#closed` | `push`, `close`, `next` | pushed to by the handlers, the tail, the turn, the exit handler; closed by `endRun`, the exit handler or a failed start |
| usage tail (`usage.ts`, `transcript.ts`) | `seen`, `stopped` | seed, tail line, `stop`, `reconcile` | the transcript file the CLI appends to |
| permissions (`permissions.ts`) | none | `selectOption`, `toApprovalRequest` | used by `resolveApproval` |
| event translation (`events.ts`, `mcp.ts`), model pin (`settings.ts`) | the tool call index; the settings file in the box | `toRuntimeEvents`, `pinModel` | used by runs |
| ports (`packages/core/src/runtime.ts`, `computer.ts`) | none | the promises the rest is written against | everything |
| Docker provider (`packages/computer-docker/src/provider.ts`, `names.ts`, `docker-client.ts`) | none of its own: containers and volumes at the daemon, found by labels | `provision`, `reconnect`, `stop`, `destroy` | the Docker daemon |
| Docker computer (`computer.ts`, `demultiplex` of `docker-client.ts`) | per command a pid file in the box, two timers, streams, and the bytes of a frame that is not whole yet | `runCommand`, `attach`, `kill`, `wait`, `readFile`, `writeFile`, `listFiles` | `docker exec` |
| secrets (`packages/core/src/secrets`, `packages/db/src/secrets.ts`) | sealed rows; the master key of the process | `sealSecret`, `openSecret`, `putSecret`, `getSecretEnvelope`, `deleteSecret`, `buildBoxEnv`, redact | database, provider |
| database (`packages/db`) | 15 tables with foreign keys; triggers for append-only events and audit | migrations, `secrets` | app |
| bot format, policy (`packages/bot-format`, `packages/contracts`) | a folder on disk | `loadBot`, validate, `decideApproval`, tool patterns | app, CLI |
| worker, API, page (`apps/worker`, `apps/api`, `apps/web`) | a key with a TTL in Redis; the page's view | `beat`, `stop`; three probes with timeouts; `fetchHealth` | Redis, Postgres |
| run states (`packages/core/src/run-state.ts`) | none | `canTransition` | nothing yet |
| spike runner (`box/spike`) | a cost ledger, `abortedBy`, tool call and permission logs | `runSession`, `abort`, the last look, `sessionUpdate`, `requestPermission` | agent, transcript, a box by name |

The hard behaviours are these.

* *One event loop, many callbacks.* Everything in a run happens between two
  awaits, but the agent's messages, its exit, the tail's lines and the caller's
  methods interleave at every await of `startRun`, a turn and `endRun`.
* *Two ways to stop.* `endRun`, the exit handler and a failed start all end a
  run; whichever comes first must answer every waiting request and close the
  stream, and the others must find nothing left to do.
* *A file somebody else writes.* Usage comes from a transcript that is read
  three times by overlapping means while the CLI appends to it.
* *A daemon without transactions.* Every provider call is several requests;
  the app may die between any two, calls overlap, and names are shared with the
  rest of the host.
* *Best effort.* Signals go through a pid file, timers race exit codes, probes
  race timeouts, beats are sent and not awaited.
* *Read now, used later.* A secret is sealed before it is stored and read before
  it is opened, a bot folder is read file by file, an update is booked before
  its images are written; each time something else may happen between.
* *Rules that meet.* A delete runs along cascades, restricting keys and
  triggers that were written one at a time.

What makes each component correct is stated with its module below.

## Modules

| module | models | checked by | proved in |
|---|---|---|---|
| `FifoStream` | what a run's event stream promises | refined by `EventQueue` | |
| `EventQueue` | `queue.ts` | `MCStreams` | `EventQueueProofs` |
| `UsageTail` | `usage.ts`, `transcript.ts` | `MCStreams` | `UsageTailProofs` |
| `Permissions` | `permissions.ts` | within the two below | within `AcpRuntimeProofs` |
| `ApprovalDesk` | what the port promises about permission requests | refined by `AcpRuntime` | |
| `AcpRuntime` | `runtime.ts`, with `settings.ts` as one step and the end of `usage.ts` as steps | `MCAcpRuntime` | `AcpRuntimeProofs` |
| `ModelPin` | `settings.ts` over the box's `readFile`, `runCommand` and `writeFile` | `MCParts` | `AcpRuntimeProofs` |
| `DockerProvider` | `provider.ts` over the requests of `docker-client.ts` | `MCDockerProvider` | `DockerProviderProofs` |
| `BoxCommand` | what the port promises about a command in a box | refined by `DockerExec` | |
| `DockerExec` | `computer-docker/src/computer.ts` over the exec requests of `docker-client.ts` | `MCDockerExec` | `DockerExecProofs` |
| `SpikeRun` | `runSession` of `box/spike/src/run.ts`, with `pricing.ts` and `docker.ts` | `MCSpikeRun` | `SpikeRunProofs` |
| `Health` | `apps/worker/src/heartbeat.ts`, `apps/api/src/health.ts`, `probes.ts`, `apps/web/src/health.ts` | `MCHealth` | `HealthProofs` |
| `Database` | the foreign keys of `packages/db/src/schema` and the triggers of `drizzle/0001` | `MCParts` | `DataProofs` |
| `SecretStore` | `core/src/secrets/envelope.ts`, `db/src/secrets.ts` | `MCParts` | `DataProofs` |
| `Redaction` | `core/src/secrets/redact.ts` | `MCParts` | `DataProofs` |
| `BotFolder` | `loadBot` of `bot-format/src/load.ts` | `MCParts`, `MCBotFolder` | `DataProofs` |
| `EventTranslation` | `runtime-acp/src/events.ts` | `MCParts` | `AcpRuntimeProofs` |
| `SpikeLog` | the two handlers of `box/spike/src/run.ts`, with `events.ts` and `policy.ts` | `MCParts` | `SpikeRunProofs` |
| `StreamFrames` | `demultiplex` of `computer-docker/src/docker-client.ts` | `MCParts` | `DataProofs` |
| `Maps` | a JavaScript `Map` as a function: `set` and `delete` | within `BotFolder`, `EventTranslation`, `SpikeLog` | within their proofs |

`MCParts` explores eight modules that share no state in one run: a behaviour
picks a part at the start, that part alone moves, and the variables of the
others keep a fixed value. Its states are the states of the eight machines, side
by side. `MCStreams` does the same with the queue and the usage tail, each with
its own fairness: that of the queue is asked of the behaviours that move the
queue, and nothing the usage's asks for is enabled while it rests.

A definition whose comment begins with "Mutant:" is not part of a model: it is
the definition after it with a plausible bug, and shows that the properties
notice the bug.

### EventQueue

`buffer`, `waiting` and `closed` are the class's three fields. `push`, `close`
and `next` are synchronous, so each path through one of them is an action.
`accepted` and `received` are histories, and `reader` is what each `for await`
loop is doing. There is one queue object per run and `events(run)` hands out
that object each time, so the number of readers is a constant.

### UsageTail

`transcript` is the file: lines that carry usage (a message and its counts) and
lines that do not. A message's counts never shrink. Parsing is abstracted to
that distinction; a torn line does not parse and counts as not yet written.
`seen` is the map of `accept()`, `phase` says where `tailUsage` and the run's
teardown are, and the CLI appends between any two steps. What it appends before
the seed is read stands for what earlier runs of the session left.

### AcpRuntime

The state of one run. `call` is where `startRun` is, `teardown` where `endRun`
is; an action is what runs between two awaits. `agent` is the process, and
`waited` what its `wait()` has told; the environment lets the agent exit at any
moment, lets `wait()` reject, and lets any call on the box fail. `pending`,
`replaying`, `ended`, `turn` and `registered` are the fields of `RunInbox`,
`Run` and `#runs`. `offered`, `decided`, `answer` and `announced` are the agent's
and the person's view of each permission request (`decided` is a history). The stream is seen from its
producers' side, open or closed by somebody (`EventQueue` has the rest), and
usage as a count of lines (`UsageTail` has the rest).

What the agent writes is heard only until its exit is known: `wait()` of the
Docker computer settles after the process's streams have closed. It asks for
permission and streams updates only while a prompt is outstanding, as ACP has it:
an assumption about the agent, which the request handler has no guard for.

### ModelPin

One box, whose pins follow one another: `startRun` pins before it attaches, so
in `AcpRuntime`, where nothing of the run exists yet, a pin is one step that
returns or throws, and what its calls do to the file is here. `pinning` is where
the pin is, `current` what it read. Of the file the model keeps whether its text
is an object, blank, something else, or missing, and the object's keys. A write
empties the file and then fills it; `TearSettings` is a write that ends in
between, because its connection broke or the app died. Others add settings
between any two calls of a pin. `added`, `crossed` and `torn` are histories.
`OnlyTearsDrop`: whatever pins came, failed or were refused, a setting somebody
put into the file is in it, unless it crossed a pin (it was added between a pin's
read and its write, which then writes over it) or a write was cut off.

### DockerProvider

One bot. `box` is the container under the bot's container name, identified by
the call that made it, since a call makes at most one; `home` is the volume
under its volume name: with our labels, made without labels by the daemon, or
taken by an outsider. `at` is the request a call
makes next, `found` the container it acts on by id. `Outage` ends a call at any
request, which is also what a crash of the app amounts to: nothing is
persisted outside the daemon. The daemon's rules that matter (one container per
name, mounted volumes are not removed, creating an existing volume returns it,
creating a container creates its missing volume without labels) are stated in
the module's header. Outsiders may take the two names while they are free.
`crossed` is a history: the destroys that were under way at the same time as
another destroy. `ForeignHomeLeftAlone` is about all the others: a step of such a
destroy, or of any other call, leaves a taken volume where it is, however many
destroys came before, cut short or not, and whatever else overlaps it.

### DockerExec

One command of one of the five methods; `cmd` says which, and what a file
operation's path leads to. `call` is where the method is between two awaits,
`killer` and `grace` are the two timers of `#execute` (`killer = "fired"` is
`timedOut`), `signals` the `signalPid` calls under way, which race everything
else. In the box, `proc` runs the wrapper's shell and then the command, `pid` is
the pid file, `pipes` whether any process holds the output, `file` what
`writeFile`'s target holds. `streams` is the client's end of stdout and stderr,
which end together. The exit codes of the three file scripts follow from `path`
and `file`; other commands exit as they like, close their output early, or leave
processes behind that keep it open. The connection may break and the box may
stop at any time. `killed` is a history: a signal ended the process, which was
running until then. A result of the port's other errors (`not-found`,
`unavailable`, `runtime` from the daemon) is `"daemon"`, the connection's own
error `"transport"`.

### SpikeRun

One session of the spike runner. `pc` is where `runSession` stands; beside it
run the tail, the overall timer, the kill an abort schedules three seconds
ahead, and the box. `ledger` maps a message to its count so far (the four token
counters are one), priced by the message's model: by the list, or at the most
expensive tier. `abort` keeps the first reason and schedules one kill; the kill
is by name and reaches only a box that is up. The tail starts from the first
line; the last look reads the file as a whole and hands on what is missing. Any
request may be rejected, and the read of the history or of the last look may
fail without ending the run.

### Health

Time passes in `Tick`; clocks count down. Beats are not awaited, so several may
be on the way (`pending`), land late, land after the worker stopped or crashed,
or fail. The three probes of a request start together; each may answer, reject
or hang, and what answers after the timeout is nobody's. The probe of the worker
is two steps, since Redis may answer from a key that expires before the answer
is used. `view` is what the page shows; the page may be closed at any time and
the answer may be lost. `missed`, `steady` and `sinceLanded` are histories.

### Database

`rows` maps a row (its table and a number) to the row each of its foreign-key
columns refers to, and the marked column of the tables whose uniqueness matters.
A delete takes the closure of the cascades, is refused by any restricting key
that leads into it and by any trigger it would fire, and nulls what `set null`
says. How PostgreSQL does this is modelled from the schema and marked external.

### SecretStore

The cipher is ideal: sealed bytes open under the key and the additional data
they were sealed with and no other, modified bytes never. `inHand` is sealed and
not yet written, `fetched` read and not yet opened; in between, others write,
the master key is rotated, a bot goes with its secrets, or rows are moved to
another scope or damaged. Damage to an envelope's layout (a column of the wrong
length) is left out: `getSecretEnvelope` refuses such a row when it reads it, so
there is nothing to open. Two master keys may share a key id, which is a short
hash. `OpensWhatWasPut`: what a reader gets is a value put for that very scope or
an error, whatever happens to the rows; and as long as no row was moved or
damaged it is the value put last, unless the master key changed since.

### Redaction

Symbols remember where they stood, so that the rest of a half-replaced value can
be told from an equal symbol elsewhere. Patterns are applied longest first, each
over the whole text, as `split` and `join` do. `NothingLeaks`: no form
is left anywhere; of a value that stands in the text no part is left, though it
contains another value; and what no form covers is kept. Of two values that
overlap without one containing the other a part of one may stay; the property
leaves that case out, and the code does not cover it. A marker is one symbol of
no secret's alphabet (`PatternsAssumption`), so a secret whose value occurs in
the text of a marker, say a part of `[REDACTED:name]`, is outside the model.

### BotFolder

A text is the set of its faults. `loadBot` reads file after file while somebody
edits; a broken fence hides what follows it and broken YAML hides the schema's
issues. A path in `blocked` is there and cannot be read or listed (permissions, a
directory where a file is expected, a file where a directory is): every such
error but ENOENT is rethrown, and so is what the YAML parser throws on an alias
without an anchor. `loadBot` then ends in `"threw"`, and what it had found is
lost. `VerdictIsSound` is about the other two ends: a bot is loaded only from
texts without a fault, the very texts that were scanned, both required files
among them; a refusal names what is missing, every secret, and a visible issue of
each faulty file. That the texts are of one version of the folder is not
promised, by the model or by the code.

### EventTranslation

The index remembers a call's tool name and status; later updates carry only
what changed. `StatusesStandAlone`: an update event carries the last status the
agent gave its call since it announced it, whatever the updates of other calls
say in between. Texts, previews, locations and the tools' inputs are left out.

### SpikeLog

The handler of an update books it in one step and then writes its images one by
one while later updates are handled, so records may overtake one another.
`LogIsComplete`: each update is printed once, after its images, or still waits for
them, or failed over one, and updates without images keep their order;
`FinalStatusIsTheLast`: the status in the permission log is the last one sent for
its call after the request. Of a tool's input only what the policy looks at is
kept, and of an image only that its write ends or fails.

### StreamFrames

Bytes are numbered as the daemon writes them and come in chunks cut anywhere.
`FramesComeOutWhole`: what has come out of each stream is the payload written to
it so far, in order, but for less than one frame that is kept back.

## Runs

All passing runs are exhaustive on their instance.

| run | question | result |
|---|---|---|
| `streams` | Does one reader get everything pushed before close, once, in order, and does its loop end? Is the queue the abstract stream? Is every new line of usage reported, live and at the end, and only what belongs to a message that grew ever emitted twice, or emitted for an earlier run? | holds |
| `runtime` | Are requests always answerable, turns one at a time, replays off the stream, ended runs released, the last look complete? Does the run implement the approval desk? Is an exit noticed, does `startRun` settle, does `endRun` close the stream? | holds |
| `runtime_usage` | Is usage complete when `endRun` closes the stream (`core/src/runtime.ts:38`)? | **violated**: lines between the last look and the kill |
| `runtime_turns` | Does every turn get its `turn_completed` (`core/src/runtime.ts:24`)? | **violated** for a turn in flight when the stream closes |
| `provider` | One call at a time, each cut short anywhere: is the bot never wedged, and does a call that returns keep its promise? | holds |
| `provider_shared` | Overlapping calls on a shared host: is what is foreign left alone (a volume: by destroys that overlap no other destroy), and are refusals harmless? | holds |
| `exec` | Is the answer of a command true, last, and in time, however timers, signals, polls, a breaking connection and a stopping box interleave? Is it the promised one? | holds |
| `exec_timeout` | Does a command that is killed for its timeout end in `timeout` (`core/src/computer.ts:52`)? | **violated**: a command that closed its output runs on and is killed while its exit code is polled |
| `spike` | Is a run over its cap stopped whoever notices, is it charged for what it used, and does it end? | holds; the end has one exception, below |
| `health` | Are two missed beats forgiven, does `ok` mean a recent beat, does the page always leave "checking"? | holds |
| `parts` | Can a bot always be deleted and are the logs immutable? Is a bot loaded only from faultless texts and refused with every reason, when `loadBot` comes to a verdict? Do the settings of others outlive pins that fail, are refused, or are cut off before or after their write? Do the secret store, the redactor, the translation, the spike's logs and the frame parser keep what the sections above say? | holds |
| `folder_throws` | Is every issue found returned (`load.ts:89`)? | **violated**: a path that cannot be read, or an alias without an anchor, throws them away |

More places where the code and a sentence about it differ, or where it could do
better, follow from the models without a run of their own:

* `usage.ts:77-78` has it that a line the tail delivered is not emitted again. A
  message that grew since is: the last look starts from the first line, and the
  line with the smaller count differs from what is remembered.
  `OnlyGrowthRepeats` bounds it to such messages.
* The kill of an abort is sent once, three seconds later (`box/spike/src/run.ts:221`).
  If `docker run` is still pulling the image there is no box to kill, and the run
  goes on until its agent ends it. `RunEnds` excepts exactly this (`KillMissed`).
* The last look of the spike takes the first of several lines of a message the
  tail never delivered and skips the later ones (`run.ts:471`), so such a message
  is charged at its first count. `Accounted` says that it is charged.
* A message of the spike's resumed session counts as new if its transcript could
  not be read (`run.ts:381-390`); `HistoryIsFree` is about runs that could.
* The exit handler closes the stream of a run nobody ended
  (`runtime.ts:204-220`), while `core/src/runtime.ts:37` says that `endRun`
  closing it "is the only end there is". `ExitNoticed` does it.
* A run whose agent has exited is refused by `events` (`runtime.ts:350-356`), so
  a reader that had not attached yet cannot read what is buffered, the error
  that says why included. `Require` is that check.
* `collect` rejects with the socket's own error, while
  `core/src/computer.ts:127` calls `ComputerError` "the only error a
  `ComputerProvider` or `Computer` throws". `CollectRejected` is that path.
* A listing of something that is not a directory, or that may not be entered,
  exits with 66 and becomes `file-not-found`, which `core/src/computer.ts:110`
  explains as "the path does not exist inside the box". `ListExits` has it.
* A timeout does not imply that the process is dead: its signal may come before
  the pid file or fail (`SignalMisses`, `SignalFails`), and the call throws
  `timeout` all the same after the grace period.
* A pin cut off after its write emptied the settings file leaves it empty; the
  next pin reads an empty file as no settings (`settings.ts:32`) and returns with
  everything else gone, while `settings.ts:11-13` says that "pinning a model never
  quietly drops a setting someone put there". It may also leave a text that is no
  JSON; every later run that asks for a model is then refused until somebody
  repairs the file (`settings.ts:36-38`). `TearSettings` followed by
  `ReadSettings` or `ReadBrokenSettings` does it, and `OnlyTearsDrop` bounds it to
  writes that were cut off.
* A destroy may remove the home between `ensureVolume` and `createContainer` of
  an overlapping provision; the daemon then makes it again, without the labels
  that `names.ts:33` says every volume carries, and every later provision or
  destroy of the bot refuses it. `OurBoxHasOurHome` and `NothingIsWedged` are
  about calls that come one at a time; TLC finds both violated on the instance of
  the run `provider` with `Overlap = TRUE`.
* Two overlapping destroys may both have checked the volume's labels before one
  removes it; if somebody else takes the name then, the other removes theirs
  (`provider.ts:170`), although `names.ts:9` has every operation check the labels
  "before it touches anything". `ForeignHomeLeftAlone` leaves out exactly the
  destroys that overlap another one.
* `findManaged` lists by label, then by name, and refuses what the second listing
  shows without a look at its labels (`provider.ts:61`). A box that an
  overlapping provision makes in between is refused as not managed, which
  `provider.ts:47` keeps for containers the app did not create.
* A permission request that reaches the app after `interrupt` stays waiting
  until its turn settles (`runtime.ts:312-318`). `Interrupt` answers what is
  pending then.
* A message an earlier run of the session wrote with two different counts is
  emitted when the tail of the next run replays the file, although
  `usage.ts:86` says what is already there is "recorded, not emitted".
  `OnlyGrowthRepeats` bounds it to such messages.

### Bounds

* Queue: four pushes of two values with one reader. A value lost, repeated or
  overtaken shows with two distinguishable values; the buffer gets longer than
  one with the second push. The proofs have no bound on pushes or on readers:
  order, completeness and the refinement hold for several loops too, although
  all but one of them may be left parked (`NoStrandedReader` is about one).
* Usage: two messages and four lines with two counts. A message must be
  rewritten once, and a second message be mixed in, for every kind of line to
  meet every phase. The proofs have no bound.
* Runtime: two requests (they may wait at once, and one may arrive while the
  other is decided), two turns (the second starts after the first settled), a
  usage line that may come before or after any given point; two sets of offered
  options, under which a decision is applied as made, narrowed, or finds no
  option it may be narrowed to.
* Spike: two prompts, one earlier line or none, two new ones, and three messages
  (of a listed model, an unlisted one, and synthetic): the cap can be passed by
  the tail, by the last look, by one dear line or by two cheap ones.
* Health: a tick is a third of the beat's interval; the beat comes every third
  tick and its key lasts nine, the ratio of the 10 s and 30 s of
  `contracts/src/worker.ts`; the probe timeout of 2 s is rounded up to one tick;
  two beats on the way. The proofs have no bound on the clocks.
* Parts: two threads and two secrets, no routines, attempts and usage records
  (they only cascade, as tables that are there do), one row of the other
  tables; three master keys, two of which share an id, two
  seals and one fault; texts of five symbols over two letters with three
  patterns, of which two begin alike and one overlaps both; three updates with two calls; three frames of up to two
  payload bytes with headers of two, cut at every byte. The numbers are the
  smallest at which each kind of step can meet each other kind.
* Folder: one skill, one edit, five kinds of fault (one the parser throws on, one
  each parser reports, and the one each later check has), and each of the four
  kinds of path that may be blocked. The proofs have no bound.
* Pin: three pins (one to tear the file, one to find it torn, one more) and two
  settings. The proof has no bound.
* Exec: two polls stand for the 600 (one that does not see the exit, one that
  does, and their exhaustion), two calls of `kill()`.
* Provider: four calls in a row, so that a provision, what cuts it short and
  two more calls meet; three that overlap, so that two destroys and what puts a
  volume between them meet. Calls are symmetric. The proofs have no bound.

`CHECK_DEADLOCK FALSE` appears where a run of the program really comes to its
end: a run that ended, a transcript of the bounded length, calls that returned.

### Fairness

* `EventQueue`: a `for await` loop calls `next` again (`WF` of each reader).
  Nobody is obliged to push or close.
* `UsageTail`: `tail -F` delivers what is written, and a loop over lines
  proceeds. Nobody is obliged to write, stop or reconcile.
* `AcpRuntime`: calls on the box settle one way or the other, and `wait()`
  settles once the agent is gone. The agent is not obliged to answer, exit or
  write; the caller is not obliged to call anything.
* `DockerProvider` has no liveness property and no fairness.
* `DockerExec`: requests are answered or fail, timers fire, the event loop runs
  what is ready, and the daemon closes a connection once nobody holds the
  command's output. The command is obliged to nothing: it may run for ever and
  keep its output open for ever. `AcpRuntime` asks for more, that `wait()`
  settles once the agent is gone; over Docker that is so when the daemon closes
  the streams of a command that is over even if processes it left behind hold
  them.

* `SpikeRun`: what the host does by itself it does, a request to a box that is
  gone is rejected (`failWhenBoxGone`), and timers run out. The agent need not
  answer, the box need not come up or exit.
* `Health`: time passes, due timers run, a settled report is sent, and a fetch
  comes to something. No dependency has to answer and no beat to land.
* The parts have safety properties only.

## Proofs

Everything in the eight `*Proofs` modules is checked by `tlapm` for every value
of the constants that satisfies the named assumptions (`QueueAssumption`,
`TailAssumption`, `OtherAssumption`, `RuntimeAssumption`, `ProviderAssumption`,
`ExecAssumption`, `PricesAssumption`, `ClockAssumption`, `DatabaseAssumption`,
`KeysAssumption`, `PatternsAssumption`, `FolderAssumption`, `PinAssumption`, `InputsAssumption`,
`HeaderAssumption`).
Most are about shape: the special values differ from the ordinary ones, bounds
are numbers. `PricesAssumption` says that the fallback price is the highest and
`ClockAssumption` that the time to live is three intervals or more, as
`contracts/src/worker.ts` and `pricing.ts` have them.

* **EventQueue.** `QueueInv` is the conjunction of the safety properties with one
  addition: `#waiting` names a parked reader. From it follow types,
  `InOrderExactlyOnce`, `NoMissedWakeup`, `DoneMeansDrained`,
  `NoStrandedReader`, and that every step of the queue is a step of
  `FifoStream` or a stutter (which includes that a closed queue accepts nothing).
* **UsageTail.** `CompleteAtTheEnd` needs to know what `seen` stands for: for
  each message, the counts of the last of its lines that was processed, where
  "processed" is a prefix of the file that grows with the seed, then with the
  tail, then with the last look. A line that is new either differs from what is
  remembered when it is reached, or has been reported already. `ReplayInv`
  is the second invariant: what the seed recorded and what was reported stays
  remembered, with counts the message was written with, so a replayed line can
  be accepted only if its message grew (`OnlyGrowthRepeats`).
* **AcpRuntime.** `IInv` adds to the properties how the flags hang together:
  where `startRun` and `endRun` are, against `registered`, `ended`, `tail`, `turn`
  and the state of the agent. `RunImplementsDesk` maps every action to `Ask`,
  `Decide`, `GiveUp` or a stutter of `ApprovalDesk`.
* **DockerProvider.** For overlapping calls with outsiders, types with
  `ActsOnBox` (a call about to act by id has an id) give `ForeignBoxLeftAlone`,
  and `LookingInv` (a call that is still looking has changed nothing) gives
  `RefusalsTouchNothing`. `PathInv` (a call makes the requests of its own
  operation) with `HomesStay` gives `OnlyDestroyUnlabels`. For
  `ForeignHomeLeftAlone`, `CrossedInv` says that two destroys under way are both
  in `crossed`, and `CheckedHomes` that the volume a destroy outside `crossed` is
  about to remove is there and nobody else's: only the removal of a home takes one
  away (`OnlyRemovalTakesHomes`), which another destroy would have to do
  meanwhile. For calls one at a time without outsiders, `SequentialInv` says what
  each request may rely on; from it follow `NothingIsWedged`, `OurBoxHasOurHome`
  and `ReturnMeansDone`.
* **DockerExec.** `IInv` is types, `CallerInv` (a call that polls without being
  attached has streams that ended by themselves; cut streams mean the killer
  fired; a call that is done has no timer; what was told is the process's code)
  and `FileInv` (what the exit code of the write script says of its target). It
  gives `WholeOutput`, `WrittenMeansWritten`, `NoSignalAfterAnswer` and the step
  refinement to `BoxCommand` (`ExecKeepsPromise`).

* **SpikeRun.** `CapInv` (an exceeded ledger means an abort, and an abort means a
  kill that is asleep, sent, or no longer needed) gives `OverCapIsStopping`.
  `FileInv` says that a message's counts only grow along the transcript,
  `LedgerInv` what the ledger owes to the lines the tail handed over and to the
  last look, and that nothing in it is history; together they give
  `HistoryIsFree` and `Accounted`. That a count read later is no smaller needs
  the first line of a message among the missing ones, hence a least-element
  lemma.
* **Health.** `AgeInv` is the argument: `KeyAge` ties what is left of the key to
  the ticks since a beat landed, `AnswerAge` what Redis saw to the time the
  probes have run, and `UpMeansKey` a probe that is up to what Redis saw. From it
  `OkMeansRecent`; `BlipsAreForgiven` counts the beats on the way against the
  ticks since the last one landed.
* **Database.** `RowsOK` (references lead to the table their key names) is the
  invariant. A bot's cascades never leave the tables it owns, no restricting key
  leads into those, and no key that is nulled starts at a log:
  `BotsCanBeDeleted`. Cascades climb ranks (bot, what a bot has, runs, what a run
  has), so three steps close them (`DoomedIsClosed`); an event that survives
  therefore refers to nothing that goes: `LogsAreImmutable`.
* **SecretStore**, in the same module. `StoreInv` says that the bytes of every
  stored or fetched envelope were put, together, at the scope they name; and that
  without faults the row at a scope is the envelope of what was put there last,
  under the key it was put with. Damage keeps the first (`DamageKeeps`), and
  `OpeningIsTrue` reads `OpensWhatWasPut` off it. `KeysAssumption` is that a
  foreign key id is none of ours.
* **BotFolder**, in the same module. `FolderInv` says that each text that was read
  has all its visible issues among the reported ones (`ReadReported`), that what
  was read and does not go into the bot has an issue, and that the step
  `loadBot` is at tells which files were read or found missing; once it has
  thrown, nothing is said (`ThrownInv`). A faulty text always shows one of its
  issues, whatever hides the others (`NothingHides`); `VerdictIsSound` follows,
  however the disk changed meanwhile.
* **StreamFrames**, in the same module. `FramesInv` keeps a set of cut points in
  the wire, the ends of the frames written; what was taken off ends at one of
  them, and what is pending is the bytes from there to what has come in. The
  parser's loop is an iterated turn. That such an iteration exists as a function
  of the turn's number (`Iterated`) is shown by a least counterexample, which
  needs no induction with an operator, and so is that every turn leaves off at a
  cut point (`Reached`).
* **Redaction**, in the same module. One pass is such an iteration too. `Scanned`
  is what the scan keeps: it noted each place it kept (`Noted`), in order and
  without gaps (`SideBySide`), it passed over no first occurrence
  (`PassedOver`), and a stretch that no occurrence touches comes out in one piece
  (`StretchesStay`). Over the passes, `RedactInv` says that what stands in the
  output stood in the text, once and unparted; that a value no other value
  straddles is whole while its form is still to be applied, or gone
  (`AloneGoesWhole`); that what no form covers is there (`UncoveredIsThere`) and no
  form already applied is (`ReplacedAreGone`). Longest first is what makes it
  inductive: a shorter form applied first could take a part out of a value that is
  still whole, while of the longest ones whoever touches the value is the value.
* **ModelPin**, in `AcpRuntimeProofs`. `Kept` is the argument, for as long as no
  write was cut off: what was put into the file and crossed no pin is in the object,
  and in what the pin under way has read; and a file that holds no object and is not
  being written is one that nobody put anything into.
* **EventTranslation**, in `AcpRuntimeProofs`. `IndexInv` says that the index has
  exactly the calls announced so far, each with the last status given to it since
  its last announcement, or `pending`; an event takes its status from there, and
  later updates do not change which one was last then.
* **SpikeLog**, in `SpikeRunProofs`. `AllWhole` says of each update, by what became
  of its handler (over, open, failed), which of its records are printed and in
  what order, `InOrder` that those without images are printed as they arrived:
  `LogIsComplete`. `AllEnded` says of each logged request that its status is the
  last one sent for its call since, if it is the first request of that call and
  the call was announced by then, and `CallsKnown` that the tool call log knows
  exactly the announced calls: `FinalStatusIsTheLast`.

`PatternsAssumption` is that a form is not empty (`formsOf` drops those that are)
and holds no marker, `HeaderAssumption` that a header has a byte or more;
`PinAssumption` that nobody else's setting is called `model`, and
`FolderAssumption` and `InputsAssumption` only say that what a run chooses as
inputs is among what the module has.

Some theorems state properties no run lists any more, because another one
implies them or says more, or because they follow from one filter: the types of
each module, `InOrderExactlyOnce`, `NoMissedWakeup`, `DoneMeansDrained` and
`NoStrandedReader` of the queue,
`RewritesAreSilent` of the tail, `ClosedMeansEnded` of a run,
`OnlyDestroyUnlabels` and `OurBoxHasOurHome` of the provider (a box on another
home would be one that `NothingIsWedged` sees refused), `HistoryIsFree` of the
spike, `WholeOutput` and `WrittenMeansWritten` of a command.

Every invariant and safety property of the passing runs is a theorem, the step
refinements included. Model-checked only are the liveness properties, which
under fairness are out of the prover's reach (`ReaderFinishes`, `UsageIsLive`,
`NobodyWaitsOnTheDead`, `StartSettles`, `EndRunCloses`, `TimedCallsAnswer`,
`RunEnds`, `PageSettles`), and the violations.

## Not modelled

* ACP framing, JSON, zod schemas, the text of events and errors: formatting.
* `mcp.ts`, `missingTools`, `buildBoxEnv`, the catalog: stateless mappings.
* `decideApproval` and `matchesToolPattern`: three lists asked in order, covered
  by their tests; the spike's version of the pattern match is in `SpikeLog`.
  `run-state.ts`: a constant table nothing drives yet, compared edge by edge with
  its specification in `run-state.test.ts`.
* The walk of the redactor over structured values, and the spike's redactor.
* The migrator, columns that are neither keys nor unique, and updates of rows:
  nothing in the repository updates rows except secrets, which `SecretStore` has.
* The project folder outside `loadBot` (`project-files.ts`), YAML, and schemas
  field by field.
* The probes of the spike (one-off scripts), its cancel notification and its
  memory sampler, which change nothing that is modelled.
* The validation `provision` and the methods of `Computer` do before their first
  request: it changes nothing.
* Reuse of process ids in a box. A signal that is still under way when its call
  answers, or a `kill()` after the process has ended, may reach whoever has the
  number by then; `NoSignalAfterAnswer` bounds it to those two.
* The cipher of `secrets/envelope.ts`; React; wiring in process entry points.
* Foreign containers that mount the bot's volume.
* Two pins of one box that overlap, and an edit of the settings file while `cat` is
  writing it.
* Everything the plan below still has.

## Plan

Done: the runtime with its queue, tail, permissions and translation; the Docker
provider and computer; the spike runner; the health report; the database's keys
and triggers; the secret store and redactor; the bot loader; the model pin; abstract
specifications of the stream, the approvals and a command; proofs of every
safety property the runs check.
What is left, most useful first:

1. A composition of `AcpRuntime` with the provider: a box that is stopped,
   replaced or destroyed under a run. No code in the repository calls both yet,
   so there is nothing to take the order of the calls from.
2. Run states, once something drives them: the run's row against the runtime's
   events, and approvals against `ApprovalDesk`.
