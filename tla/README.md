# TLA+ models of the Solari sandbox SDK for Rust

This directory is a verification project kept beside the code in `src/src/`
(the `solari-sdk` crate). It models in TLA+ what the crate does over time (its control
channel, requests, sessions, command runs, file transfers, code runs and git
operations), checks small instances with TLC, and proves the main safety properties
for every instance with TLAPS. Paths below such as `channel.rs:434` mean `src/src/channel.rs`.

    tlc  -workers 2 -config lifecycle.cfg MCControlChannel.tla
    tlapm ControlChannelProofs.tla

## The system

The crate is a client. A `Client` creates sandboxes through the gateway's REST
API; a `Sandbox` handle then drives one of them, mostly over a control WebSocket.

| part | state it keeps | operations | meets |
| --- | --- | --- | --- |
| `ControlChannel` (`channel.rs`) | `Inner` behind a mutex: pending calls, frame handlers, orphan frames, unfinished line, installed writer, two flags; an atomic copy of the open flag; an async mutex for connecting | `connect`, `reconnect`, `close`, `call`, `register_command`, `unregister_command`; a reader and a writer task for each socket | everything below, by shared state |
| Command waits (`commands.rs`) | the frame receiver of a `CommandHandle`, two decoders | `start`, `wait`, deadline, drop | the channel's handlers |
| Command runs (`commands.rs`) | the sandbox's `shared` flag, a `CancelGuard` | `run`: REST or channel, refusal, background, cancel | HTTP transport and channel |
| `Utf8Stream` (`commands.rs`) | bytes of an unfinished character | `push`, `finish` | command output |
| `HttpTransport` (`http.rs`) | none between requests; a global key counter | `request` with retries, `new_idempotency_key` | the gateway |
| `Client`, `Sandbox` (`client.rs`) | control URL, channel, shared flag | create, connect, pause, resume, start, kill, close | HTTP transport, channel |
| `Files` (`files.rs`) | the offset of a transfer | chunked `upload`/`download`, `read` with a fallback, single calls | channel |
| `Code` (`code.rs`) | an `InterruptGuard` | `run` | channel |
| `Git` (`git.rs`) | none between calls; inside one, what its first command said | operations of one or two git commands, a credential helper bound to an origin | command runs |
| `error.rs`, `types.rs` | none | status/code table, serde structs | all |

What is hard here is concurrency around the channel. The channel is shared by
every task of the program; each socket brings two tasks of its own, and tasks of
an older socket live on beside those of a newer one; three pieces of "is it open"
state are written in separate steps by three kinds of actor; frames of a command
may overtake the reply that names it; and each future may be dropped at any
await. After that come the failure paths: requests that are processed and whose
answer is lost, runs that are dropped, sandboxes that come back on another slot.

What makes each part correct:

* Channel: a waiter (a call or a command wait) is always answered; the answer is
  its own; frames come whole and in order; one socket is dialled at a time;
  closing releases the socket.
* Runs: a command is started at most once, and a dropped or expired run leaves no
  process behind.
* HTTP: only idempotent requests are retried, a bounded number of times, under
  one key.
* Sessions: after `resume`/`start` the channel speaks to the fresh slot.
* Files: what is downloaded is the file; what was uploaded without an error is
  the data.
* Code: a dropped run is interrupted, and nothing but a dropped run.
* Git: a commit returns its own hash; a password goes where it was meant for.
* Decoder: chunk boundaries do not show in the text.

## Plan

The order in which the parts were taken, by what goes wrong most easily.

1. `ControlChannel`, its abstract specification `ChannelPromise`, and their
   proofs.
2. `CommandRun`: `run_command`, `start_command`, `exec_oneshot`, `CancelGuard`, over
   a channel taken as `ChannelPromise` has it, and its proofs.
3. `HttpTransport`: the retry loop and the idempotency keys, against a gateway that
   may do a request and lose the answer, and its proofs.
4. `SandboxSession`: one handle, the slots its sandbox is given, and the slot its
   channel speaks to; its proofs.
5. `FileTransfer` (chunk loops, with other writers on the same path) and
   `Utf8Stream` (the streaming decoder against a reference on the whole input), with
   their proofs.
6. `GitCommands` and `CodeRun`, with their proofs.
7. The frames of a command, proved: their order (`StreamInOrder`), their number
   (`OrphansAccounted`), and that none is missing (`StreamIsWhole`).

All seven are done. What would come next: the promise of a request (done at most
once, told at most once) as an abstract module that `HttpTransport` would be shown
to implement and `SandboxSession` and `CommandRun` to use, as runs are shown to use
`ChannelPromise`.

## Modules

| module | what it is |
| --- | --- |
| `ControlChannel` | the channel, its socket tasks, its callers and the command waits; properties |
| `ChannelPromise` | what the channel promises, with three variables and no sockets |
| `MCControlChannel` | instance for TLC: symmetry of the tasks, constraints of two runs |
| `MCChannelLiveness` | instance for TLC of the liveness properties, one of two questions in each behaviour |
| `InductionLemmas` | induction over naturals and finite sets without operator parameters, what follows for recursive functions, and sums over a table |
| `ControlChannelProofs` | `TypeOK` and `TornDownIsQuiet` |
| `ChannelReplyProofs` | `OneConnector`, `DialsOnlyWhenClosed`, `CallsAreResolvable`, `OwnReply`; the channel implements `ChannelPromise` |
| `ChannelStreamProofs` | `StreamInOrder`, `OrphansAccounted`, `StreamIsWhole` |
| `CommandRun` | runs of commands over REST and the channel, their deadlines and `CancelGuard`; properties |
| `MCCommandRun` | instance for TLC: symmetry of the runs |
| `CommandRunProofs` | `StartedOnce`, `OkIsOver`, `OnlyAbandonedKilled`, `UsesPromise` |
| `HttpTransport` | the retry loop of REST requests and the keys of creates; properties |
| `SandboxSession` | one sandbox handle, its control URL and its channel, over the life of the sandbox; properties |
| `RequestProofs` | of `HttpTransport`: `TypeOK`, `AtMostOnce`, `OkIsOwn`, `RetriesSpent`; of `SandboxSession`: `NoStaleDial`, `UrlNeverGoesBack`, `OrderlyResumeIsFresh` |
| `FileTransfer` | uploads, writes, downloads and reads of one path, several at a time; properties |
| `GitCommands` | the operations of git as the commands they run, and the credentials they carry; properties |
| `CodeRun` | code runs in the kernels of contexts, and the guard that interrupts them; properties |
| `Utf8Stream` | the streaming decoder, a reference for it, and what they must agree on |
| `Utf8StreamProofs` | `TextIsReference` |
| `MCServices` | instance for TLC of `HttpTransport`, `SandboxSession`, `FileTransfer`, `GitCommands`, `CodeRun`, `Utf8Stream` |
| `ServicesProofs` | of `FileTransfer`: `UploadedIsData`, `DownloadedIsFile`; of `GitCommands` and `CodeRun`: `CommitIsOwn`, `CredentialsStayHome`, `InterruptsStayHome`; of the instance: `AllTypes` |

`CommandRun` and `ControlChannel` meet in `ChannelPromise`: the channel implements
it (`KeepsPromise`) and a run does with it only what its callers may
(`UsesPromise`), so no model of runs needs sockets, tasks and locks. The other
modules take the channel as anything that may go down at any time, and a request as
something that is done at most once and whose answer may be lost, which is what
`ControlChannel` and `HttpTransport` show of them. Between them they share no state:
a session decides which socket there is, a transfer or a git command what is said
over it.

### How ControlChannel corresponds to the code

A step is what runs under one acquisition of the `inner` mutex or one access to
the `ws_open` atomic, since anything may run between two of those.

| variable | in the code |
| --- | --- |
| `wsOpen`, `closed`, `writer` | `Inner.ws_open`, `Inner.closed`, `Inner.writer` (the socket it belongs to) |
| `nextId`, `pending`, `handlers`, `orphans`, `orphanCount`, `rxBuffer` | the fields of `Inner` of those names; `handlers` and `orphans` by command, since `register_command` treats the two frame types of a command alike |
| `openFlag`, `connecting`, `attempt` | the `ws_open` atomic, the holder of the `connecting` mutex, the loop counter of `connect` |
| `pc` | where each task is inside `connect`, `reconnect` or `close` |
| `nSock`, `reader`, `wtask`, `outq`, `half` | the sockets opened so far, their reader and writer tasks, the writer's queue, the line a reader has begun to feed |
| `call`, `id`, `callSock`, `outcome` | where each `call()` is, its id, the writer it cloned, what its oneshot was sent or its timeout said |
| `received`, `answered`, `emitted` | the guest (external) |
| `waiter`, `inbox` | `CommandHandle::wait_deadline` and the frames in its receiver |

| code | actions |
| --- | --- |
| `connect`, `connect_once` | `Connect`, `LeaveQueue`, `Lock`, `DialOk`, `DialFail`, `DialTimeout`, `Install`, `StoreFlag` |
| `reconnect` | `Reconnect`, `ReconnectStore`, then as `connect` |
| `close`, `drop` | `CloseFlag`, `CloseMark`, `CloseFailAll` |
| reader task | `FeedLine`, `FeedHead`, `FeedTail` (with `Dispatch`), `ReaderEnd`, `ReaderFailAll` |
| writer task | `WriterSend`, `WriterFail`, `WriterStop` |
| `call` | `CallPrepare`, `CallSend`, `CallSendFails`, `CallReturn`, `CallTimeout`, `CallDrop` |
| `register_command`, `wait_deadline` | `RegisterCommand`, `WaitExit`, `WaitClosed`, `WaitDeadline`, `WaitKilled`, `WaitDrop` |

Abstractions. A line is a record of its kind, its call and a frame number; JSON,
base64 and the two output streams are not represented. A v1 streamed-exec frame
and a line that is no JSON change nothing and have no action. The sleep between
connect attempts is part of `dialing`. `fail_all` drains under the lock and
rejects the drained calls just after releasing it; it is one step, because a call
that gives up in between is indistinguishable from one that gave up before.
A socket's message may end inside a line (`SplitFrames`): the guest sends one
message per line today, and `feed()` is written for both.

### How CommandRun corresponds to the code

A step is what `run_command` does between two awaits.

| variable | in the code |
| --- | --- |
| `kind`, `limited` | `RunOptions`: `plain` is `rest_eligible`, `background` is that flag, `streaming` is any other; a `timeout_ms` above 0 |
| `onShared`, `shared` | the sandbox's tier, which the gateway knows; `Sandbox.shared` |
| `up` | the channel, as `ChannelPromise` has it |
| `pc`, `result` | where the future is, what it returned |
| `request` | the `/exec` request of the run that is not known to be void |
| `start`, `told`, `tied` | its `cmd.start` at the guest; the reply, or the exit frame that follows it; whether the connection it was started over stands |
| `wait` | `CommandHandle.rx`: blocked in its `recv()`, woken by a tear-down, or how it ended |
| `guard` | `CancelGuard`: not built, armed, its task running, its task done, or dropped armed outside a runtime |
| `procs`, `proc`, `sigkill` | the guest (external): processes started for the run, the state of the latest, a SIGKILL on its way |

| code | actions |
| --- | --- |
| `run_command`, the route | `ChooseRest`, `ChooseChannel`, `Refused` |
| `exec_oneshot` | `ExecOk`, `ExecUnavailable`, `ExecFails` |
| `start_command` | `ConnectOk`, `ConnectFails`, `Call`, `Reply`, `TimesOut`, `Started`, `StartFails` |
| `wait_deadline` | `ExitFrame`, `WaitExit`, `WaitClosed`, `WaitDeadline`, `WaitKilled`, `BackgroundEnds` |
| `CancelGuard` | `Drop`, `GuardKill` |

Abstractions. `connected()` is `up`: the window in which the flag disagrees
(`found_flag`) ends in the same refused call as a channel that goes down after
`connect()`. Output and callbacks are left out; the handle of a background run is
dropped, or the task that drives its callbacks waits on it (`BackgroundEnds`).
A command is registered on whichever connection there is (`Register`): it blocks on a
newer one as the code lets it (`found_wait`), until that goes down in turn or its
deadline passes. A guard dropped outside a runtime spawns nothing (`commands.rs:109`):
it is then "outside", its command runs on, and `CancelledStops` leaves it out. Of the guard's calls only
the last is a step, since the guest may do with SIGTERM and the end of stdin what
it likes. A `cmd.start` that reached no writer is one the guest never starts. What
the guest does with a request may come at any later time or never.

### How HttpTransport corresponds to the code

| variable | in the code |
| --- | --- |
| `kind` | method and key: `post` is neither GET, DELETE nor keyed; `keyed` is a create |
| `phase`, `attempt`, `result` | the loop of `request()`, its counter, the value returned |
| `counter`, `key` | `COUNTER` of `new_idempotency_key`, the key of a create |
| `sent`, `net`, `reply` | attempts made, those under way, the answer to the current one |
| `known`, `made` | the gateway (external): keys it has done, times a request took effect |

`Begin`, `NetworkError`, `ErrorAnswer`, `OkAnswer`, `Retry` and `Drop` are the parts
of `request()` between its awaits. Statuses are classes, as the code reads them: 502,
503, 504 and 507; any other with `retryable` in its body; any other. That the
gateway does a key once is its side of the contract (`PROTOCOL.md:54`). Keys are
taken as distinct when their counters are; the 128 bits the code mixes are not
modelled. The comment at `http.rs:5` still says that HTTP 5xx is retried; the code,
with a comment of its own at 165, retries four of them, and the model follows it.

### How SandboxSession corresponds to the code

| variable | in the code |
| --- | --- |
| `owned`, `url` | there is a `Sandbox`; its control URL: the one of a slot, as the gateway sent it, or `Derived` from the gateway's own address and the id |
| `chan` | the slot its installed socket leads to, or `Down` |
| `step`, `doing`, `answer` | where each task is, in which operation, what its request was answered |
| `target`, `socket` | the URL its `connect_once` read, the slot of the socket it opened |
| `box`, `slot` | the gateway (external): the life of the sandbox, the slot it was last given |
| `held`, `told` | history, for the properties |

| code | actions |
| --- | --- |
| `Client::create`, `Client::connect`, `from_response` | `Ask`, `Make`, `Fails` |
| `pause`, `kill` | `Ask`, `PauseReturns`, `Fails` |
| `resume`, `start` | `Ask`, `Adopt`, then a dial; `Fails` |
| `Sandbox::connect` and the namespaces' first step | `Connect`, `DialOpens`, `DialFails`, `Install` |
| `close`, `drop` | `Close`, `Discard` |
| a future dropped at an await | `DropFuture` |

Who may overlap with whom is Rust's: `&self` beside `&self`, `&mut self` alone
(`Borrows`). `Elsewhere` is everybody else who knows the sandbox's id.

### How FileTransfer corresponds to the code

| variable | in the code |
| --- | --- |
| `task`, `size` | which of the four a call is, the length of its data |
| `at`, `got` | `offset`, and `out` |
| `chunk` | the reply of the current call |
| `stage` | where it is between its awaits |
| `file`, `modern` | the guest (external): the file, whether its image has `fs.upload` and `fs.download` |
| `strays` | chunks of calls that were given up and that the guest may still carry out |
| `disturbed` | history: transfers in whose middle somebody else's write landed |

`BeginTransfer`, `GuestWrites`, `Wrote` are `upload` and `write`; `GuestReads`,
`HaveRead`, `UnknownMethod`, `ReadSingleFrame` are `download` and `read`; `CallFails`
is any call that fails or is dropped. A cell of a file tells whose data it is and
where it stood there, so two writers, a shifted chunk and a hole can be told apart.

### How GitCommands corresponds to the code

| variable | in the code |
| --- | --- |
| `gitOp`, `credentials` | the operation and its username and password, which may be empty or have a line break in them |
| `gitAt`, `exit`, `out` | where it is, and the result of its last command |
| `bound` | the origin in the `-c credential.<origin>.helper` of its command |
| `passesEnv` | whether the runner overrides `run_git_env` |
| `head`, `remoteUrl` | the guest (external) |
| `moved`, `had`, `saw` | history: commits somebody came between, the remotes an operation had, who was told its password |

`BeginGit` and `NoCommand` are what an operation does before its first command,
`FirstRuns` and `Second` the first of two commands and what is made of it,
`SecondRuns` and `ReturnsGit` the command that does the work, `RunnerFails` a runner
that returns an error. `push` stands for `pull` and `look` for `status`, `branches`
and `log`, which differ in the command they spell. An origin is opaque: how
`git_auth` writes one down is not in the model.

### How CodeRun corresponds to the code

`inContext` is `contextId`; `runAt` where `run` is; `guard` the calls whose
`InterruptGuard` is armed; `spawned` the tasks its `drop` spawned; `up` and `wire` the
channel; `queue` the kernels (external). `BeginCode`, `SendCode`, `CallReturns` and
`DropRun` are the parts of `run` between its awaits (`NeverBegins` a connect that fails
or is dropped), `SendInterrupt` the spawned task. A guard dropped outside a runtime
spawns none (`code.rs:51`): its run is then in `lost`, like one whose interrupt the
connection took along.

### How Utf8Stream corresponds to the code

`pending` is the field of that name, `text` what `push` and `finish` have returned,
`fed` the stream so far. `Push` runs the loop of `push` as a function of the position
in the buffer (`Pushed`), over `FromUtf8`, which is `str::from_utf8` for one character.
A byte is its class in the table that defines UTF-8, so all well-formed and ill-formed
sequences are there, without the 256 values.

Definitions marked *Seeded fault* are not part of the specification. Each is a
plausible bug in the definition that follows it, named in `PROJECT.json` as the
mutation a property must catch.

## Runs

| run | instance | what it checks |
| --- | --- | --- |
| `lifecycle` | two interchangeable tasks, three sockets, one call, two attempts per connect, lines cut over messages on the first socket (`CutOnFirst`) | types; quiet after tear-down; one connector; no dial while open |
| `streams` | one task, two sockets, two calls one of which starts a command of one data and one exit frame, one attempt, room for every orphan; only `cmd.start` is answered with an error (`PlainCallsSucceed`), and the one task dials again by `connect` (`ConnectsAgain`) | quiet after tear-down; ids and answers; frames whole and in order; orphan accounting; refinement of `ChannelPromise` |
| `liveness` | two tasks, two sockets, one command, one attempt per connect, lines cut over messages, one orphan (`MCChannelLiveness`, below) | everyone who waits is answered, close releases the sockets |
| `runs` | two interchangeable runs, each with any options, one tear-down | one process for a run, results that are true, a SIGKILL only for what was given up, refinement: use of `ChannelPromise` |
| `runs_live` | one run, two tear-downs | it returns; expired runs, and those dropped inside a runtime, leave no process |
| `services` | six modules side by side, one of them in each behaviour (below) | of requests: effects at most once, own answers, retry bound, all return; of a session: no dial to a replaced URL, no URL goes back, fresh after an orderly pause, all return; of files: what arrives is what was sent, all return; of git: own hashes, passwords; of code: interrupts reach dropped runs and no others; of the decoder: the text |
| `found_resume` | one task, two slots | a resume that returns on the old slot (below) |
| `found_drop` | one run | a run dropped during `cmd.start` (below) |
| `found_flag`, `found_call`, `found_wait`, `found_cutline` | the smallest instance that shows it | four places where the code does not do what its comments say (below) |

Bounds, and why they are enough. Two sockets are what it takes for an old reader
to meet a new connection; `lifecycle` has a third, so that two old ones end around it. Two tasks make every
race of connect, reconnect and close, both with themselves and each other. Two
calls let one id be confused with another. One data frame and the exit frame
distinguish order, loss and duplication. `MaxSockets` and `MaxCalls` bound the
length of behaviours in TLC only: the theorems hold for every value. So do the
constraints of `MCControlChannel`, by which two runs of safety properties leave out what
would double their states and the channel does not tell apart: which of the later sockets
cuts lines too, which answer a plain call gets, and a `reconnect` that finds the flag clear
as a lone task always does.

Symmetry is not sound for liveness, so `liveness` keeps its states few otherwise:
`scene` says in `Init` which of two questions a behaviour is about. In "calls" one task
connects and closes over two sockets, and a call and its wait live through it: the
second socket may be up before a wait that the end of the first one woke is scheduled,
and an old reader may tear down the new connection. In "connects" two tasks contend for
the lock over two sockets and nobody calls. Both leave out beginnings only, of which no
fairness is assumed.

Runs meet only at the channel and the `shared` flag, both of which two of them
already contend for; one tear-down hits any step of a run, and a second one in
`runs_live` hits what a run does after a reconnect.

`services` puts the modules that share no state in one state space: `service` says in
`Init` whose behaviour it is, the others rest, and the states of the six add up
to about 241 000. What each brings:

* requests: two of them, two retries, which makes a first, a middle and a last
  attempt; two requests let one be answered with the other's key. Either both are
  creates or one is a POST (`SmallHttp`).
* a session: two tasks, three slots. Two tasks overlap in every pair of operations
  the borrow checker lets overlap; three slots make a URL that is two behind.
* files: two transfers of any kind, data and file of up to three cells, a chunk of
  two and a frame of two. So there are transfers of no chunk, of a part of one, of a
  whole one and of one and a part; and writes that are refused as too large. A write
  that was given up lands as a third actor.
* git: two calls, two http(s) origins and a remote that is neither. One of the calls
  is a commit, or one only looks on while the other has credentials (`SmallGit`): two
  calls meet in HEAD and in nothing else, and others who move HEAD or the remote's URL
  are in the model besides.
* code: two runs, in one context or the default kernel, one connection lost.
* the decoder: every class of bytes, streams of up to four, cut in every way. No
  character is longer than four bytes, and what is held back is shorter than that.

Deadlock is checked in all runs of the channel: a channel nobody uses can always be
closed or connected again, so no state of the model is without a successor. Runs,
requests, transfers, git calls and streams do end, so it is not checked in theirs.

Fairness (`FairSpec`). The runtime schedules a spawned task that can run, the
async mutex is a fair queue (strong fairness of `Lock`, whose guard other tasks
turn on and off), `connect_async` and every call are bounded by timeouts the code
sets (`CONNECT_TIMEOUT_MS`, `call_timeout`), and code between two awaits runs on.
Of runs, requests, session operations and transfers the same is assumed: each await of theirs is bounded by a
timeout (`request_timeout`, `CONNECT_TIMEOUT_MS`, `call_timeout`, the deadline of a limited
run), except the wait of a run without a deadline, of which nothing is assumed.
The task that a guard spawned is assumed to run, for its runtime goes on. For an
interrupt a connected guest must also read its frames; the code that kernels run may go on for ever. The guest is
assumed to obey a SIGKILL that reaches it, and nothing else.
Of the network the model assumes that a write succeeds or fails eventually; of the
guest, and of users closing or dropping things, it assumes nothing. `WaitersWake`
is stated for a channel that goes down: a guest that never sends `cmd.exit` keeps
a wait without deadline waiting, in the code as in the model.

## Findings

* `found_flag` - the `ws_open` atomic is stored after the locked install
  (`channel.rs:338`). If the socket dies in between, `connected()` stays true on a
  torn-down channel, `connect()` returns at once, and every call is refused until
  somebody calls `close()`. `channel.rs:225` says it is "Whether the control
  channel is open."
* `found_call` - the reader runs before the socket is installed. When it ends
  first, nobody tears the installed socket down, and calls over it wait for their
  own timeout, although "On close, every in-flight RPC call AND every in-flight
  stream wait is woken with an error" (`channel.rs:13`).
* `found_wait` - a reconnect between a `cmd.start` reply and its registration: the
  liveness check of `register_command` sees an open channel, but it is another
  connection, and the wait blocks.
* `found_cutline` - `fail_all` does not clear `rx_buffer`. A connection that ends
  inside a line costs the next connection its first line. It needs a guest or a
  proxy that cuts lines over messages, which `feed()` and its unit test provide for.
* `found_drop` - `CancelGuard` is built after `start_command` returned
  (`commands.rs:417`). A run dropped while `cmd.start` is in flight has no guard, and
  the command it started runs on, although the guard "Stops the guest process when a
  `commands.run` future is dropped before the command finished" (`commands.rs:99`).
* `found_resume` - `resume()` adopts the fresh control URL and calls `reconnect()`
  (`client.rs:453`), which returns at once on a channel that says it is open
  (`channel.rs:344`). After a pause that was not this handle's own (another handle's,
  the gateway's, or one whose answer was lost) the old socket may not have been found
  dead yet: `resume()` returns Ok and the channel is on the old slot, although it is to
  "re-point the control channel at the fresh slot it came back on"
  (`client.rs:423`; so `PROTOCOL.md:81`). `start()` does the same.
  `OrderlyResumeIsFresh` is the part that holds.

## Proofs

Every invariant and every action property of a passing run is stated by a theorem,
for every value of the constants. What is only model-checked is at the end.

The theorems about the channel are about its `Spec`, for arbitrary `Tasks`, `MaxSockets`, `MaxCalls`,
`MaxAttempts`, `StartCalls`, `LastFrame` and `MaxOrphans`, under
`BoundsAssumption` and `ShapeAssumption` (naturals where the code has unsigned
integers, at least one attempt, and `None` is nobody). TLC evaluates both
assumptions in every run.

* `TypeCorrect`: `TypeOK` with one fact about control (`Dialed`): a task about to
  install a socket has opened one, so `writer` gets a socket's number.
* `TornDownQuiet`: `TornDownIsQuiet` alone is not inductive, because a tear-down
  answers the calls in the table and not the calls in flight. `QuietInv` says where
  the waiters are: both tables are empty while the socket is not open, and a call
  in flight without a verdict is in the pending table.
* `ConnectorIsAlone`, `DialsWhenClosed`: in `LockInv` whoever is past the second
  check holds the lock and the flag is clear, since only the holder sets it.
* `CallsResolvable`: `IdInv` says ids in use are below the counter and distinct,
  and that entries belong to calls that were made; with `QuietInv` an unanswered
  call has exactly one entry under its id.
* `RepliesAreOwn`: `ReplyInv` adds what the guest may speak of: a line whose head
  was fed is about a call of that very socket that is still unanswered, and the
  writer queues hold calls that were made.
* `StreamsInOrder` (`ChannelStreamProofs`, as the next two): `StreamInv` says of both places where frames are kept that they
  rise and go no further than the guest has come, and that the line a reader is in
  the middle of is the next one. It needs `ReplyInv`: only the socket a command was
  started over carries its frames, so no other reader holds an earlier line of it.
* `OrphansAreAccounted`: `OrphanInv` says that the counter is the sum of the lengths
  of the kept lists, that it is within the limit, and that a registered command has
  none. Each step changes one list, and `SumFunction` of a table that differs in one
  place is proved to differ by that much.
* `StreamsAreWhole` has the hypothesis of the property that no line is cut. `LineInv`
  then says that no reader has an unfinished one; `SeatInv`, that a socket about to be
  installed is nobody's yet, so nobody's call is on it; `OwnerInv`, that a call
  nobody made has no wait and no frames, and that handlers belong to registered waits.
  `WholeInv` follows a command: what the guest has sent over its socket is in the
  orphans until it is registered and in the inbox from then on, all of it, in order,
  `1 .. emitted`. The room is the other hypothesis of the property: the code drops
  frames above `MaxOrphans`, and all frames of all commands are not more than that.
* `PromiseKept`: the refinement mapping reads a call's abstract verdict from
  `call` and `outcome`, a wait's state from `waiter` and `handlers`. `VerdictInv`
  (no verdict before a call is made, one when it has returned) joins the
  invariants above; each action then maps to a step of the promise or a stutter.

`CommandRunProofs` is for any number of runs and of tear-downs. A run reads nothing
that belongs to another (`Elsewhere`), so its invariants are about one run.

* `OneProcess`: `StartedOnce` alone says nothing of what may still start. `StartInv`
  does: a run's processes are those of its taken request and its obeyed `cmd.start`,
  a request is only open where no `cmd.start` is, or it was refused, and the other
  way round.
* `OkMeansOver`: `ResultInv` carries what a run was told back to the guest. That no
  second process undoes a result needs `StartInv`.
* `OnlyAbandonedDie`: in `KillInv` a guard whose task was spawned is that of a dropped run,
  and a SIGKILL was sent by such a task or by a deadline that passed.
* `PromiseUsed`: in `LinkInv` a wait that blocks is in the table of an open channel, and
  a run has none before it is registered. Nothing ties it to the connection of its
  `cmd.start`, of which the promise says nothing either. Each step moves at most one
  run's verdict or wait as `ChannelPromise` allows, and a tear-down all of them.

In `RequestProofs`, what is about `HttpTransport` is for any number of requests and
retries.

* `EffectOnce`, `OkWasDone`: `LoopInv` bounds effects and attempts under way by the
  attempts made, which are one for a request that may not be repeated. For creates
  `KeyInv` says keys are distinct and that the gateway knows exactly the done ones.
* `AllRetriesUsed`: in `LoopInv` an idempotent request that returned what may pass
  had spent its counter.

What is about `SandboxSession` is for any number of tasks and slots. `SessionInv` has
three parts beside the types.

* `TurnInv`: whoever takes the handle is alone with it, and a handle is made while
  there is none. `DialsAreFresh` needs nothing else: a URL is replaced when no dial
  is under way.
* `AgeInv` and `HandleInv`: no URL is newer than the sandbox's slot, an answer that
  waits to be adopted is no older than the URL it replaces, and a dial of a resume
  opens a socket no older than its answer. `UrlsGrow` and `OrderlyResumes` follow; the
  latter also from `held` meaning that the channel is down.

`ServicesProofs` has three components and their sum. What is about `FileTransfer` is
for any number of transfers, any chunk and frame size, any
length. `UploadsArrive` and `DownloadsArrive` rest on `FileInv`: of a transfer nobody
has disturbed, the file is the data up to the offset, or what was read is the file up
to it. Both carry over because a step of another that touches the file marks the
transfer as disturbed (`StepLeavesOthers`). The lemmas above them say what a write, a
cut and an append of contents are, cell by cell.

What is about `GitCommands` and `CodeRun` is for any number of calls, origins and
contexts.

* `CommitsAreOwn`: in `CommitInv` HEAD is at the commit from when `git commit` exits
  with 0 to when it is read, unless somebody moved it.
* `CredentialsStay`: in `SecretInv` the helper is bound to a URL the operation's
  remote had; it is read by one command and used by the next, and may have changed
  between them.
* `InterruptsHome`: in `CodeInv` every interrupt, in a task or on the wire, names the
  context of a call that was dropped, and a kernel only holds calls of its context.

* `EachAsAlone`, `ServicesTypes`: in `ServicesSpec` a step is one component's and
  leaves the others alone, so every behaviour of it is one of each component's own
  specification, and what is proved of a component holds in the composition that the
  `services` run checks. `AllTypes` is the first use of it.

`Utf8StreamProofs` is for any input and any way to cut it into chunks. `TextIsLossy`
compares two recursive functions, which takes four steps.

* The two exist. `Lossy` and the loop of `push` are defined by recursion towards the
  end of the input; `RecurBackwards` shows such functions to obey their equations.
* Both look at the input the same way. `from_utf8` stops at the place where
  `from_utf8_lossy` would put a replacement, and `TakesMatching` says both take the
  same characters. What is found in the bytes that have come is what is found in the
  whole input (`SamePlace`), unless it is a prefix of a character at their very end.
* `SoFar`, the invariant: whatever may still come, the reference on all of it is the
  text so far, followed by the reference from the first pending byte on.
* `Held`: the pending bytes are the end of what has come and could still become a
  character, which is also why there are never four of them.

`InductionLemmas` has what those proofs share. The library's induction theorems take
an operator as a parameter, which the provers cannot instantiate; here induction is
about a set (of the naturals for which something holds, say) and follows from the
well-foundedness of the naturals, `WFMin`. From it come induction downwards in an
interval, induction over subsets of a finite set, and that a function defined by
recursion over an interval, or as a sum over a finite set, obeys its definition.

Model-checked only: the liveness properties (`ConnectReturns`, `CallsReturn`,
`WaitersWake`, `CloseReleasesSockets`, `RunsReturn`, `CancelledStops`,
`TimedOutStops`, `RequestsReturn`, `SessionReturns`, `TransfersReturn`,
`DroppedCodeStops`): liveness under fairness needs `ENABLED`, which is out of the
prover's reach.

## Not modelled

* `list`, `stat`, `mkdir`, `remove`, `rename` of files: one call each that keeps
  nothing, so a model would say nothing that `ControlChannel` does not say of a call.
* The parsers of `git status`, `branch` and `log`, how arguments and origins are
  spelled (also the brackets of an IPv6 host, `git.rs:329`), the masking of passwords
  in error texts, flattening the charts of code results, JSON and base64: functions
  of one value, with unit tests beside them and no state.
* `error.rs` beyond the two tests that steer a run; `types.rs`, which is serde structs.
* The lossy decoding of a binary socket message (`channel.rs:322`): a character cut
  over two messages is lost there, but the guest sends whole lines as text messages.
* That `wait_deadline` looks at its deadline only when no frame is queued
  (`commands.rs:171`): in the model a deadline may also come with output queued,
  which is more behaviours and not fewer.
* Output callbacks. The task that drives those of a background command is modelled as
  a wait that ends with the command or the channel.
* TLS, the WebSocket protocol below messages, the text of errors, headers and URLs.
* Tests, conformance fixtures and live tests: read as evidence of what is meant.

Some hazards are covered in part, and their entries in `PROJECT.json` say which. A
commit between `git commit` and `rev-parse` is left out by `CommitIsOwn`, for the code
does return the other hash. `OkIsOwn` takes the mixed idempotency keys as distinct when
their counters are. `OrphansAccounted` is about the counter: that frames for commands
whose wait has expired or was dropped take up the orphan buffer until the next
tear-down is what the code does, and `StreamIsWhole` asks for room. A run or a code run
dropped outside a runtime is in the models, and leaves its command or kernel running.

`PROJECT.json` gives each component with its status, and each hazard with the
property that covers it or the reason why none does.
