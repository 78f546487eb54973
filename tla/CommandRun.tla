------------------------------ MODULE CommandRun ------------------------------
(***************************************************************************)
(* commands.run of commands.rs: the runs of one sandbox handle, over the    *)
(* one-shot REST route or over the control channel, with the refusal of the *)
(* shared tier, deadlines, and runs whose future is dropped.               *)
(*                                                                         *)
(* A step is what the code does between two awaits.  The channel is taken  *)
(* as ChannelPromise describes it (UsesPromise below), and a REST request  *)
(* without an idempotency key as one that is sent once.  What the guest    *)
(* does with a command is external.                                        *)
(***************************************************************************)
EXTENDS Integers

CONSTANTS
    Runs,      \* the calls of commands.run
    MaxDrops   \* bound: times the channel goes down in one behaviour

ASSUME DropsAssumption == MaxDrops \in Nat

VARIABLES
    kind, limited,            \* options: RunOptions of each run
    onShared,                 \* the sandbox is on the shared tier (gateway)
    up, drops,                \* the channel is open; times it went down
    shared,                   \* Sandbox.shared
    pc, result,               \* progress and return value of each run
    request,                  \* its latest /exec request, at the gateway
    start, told, tied,        \* its cmd.start at the guest, its reply, and
                              \* whether that connection still stands
    wait,                     \* the wait for its command: CommandHandle.rx
    guard,                    \* its CancelGuard
    procs, proc, sigkill      \* the guest: processes, and SIGKILLs under way

optVars   == <<kind, limited, onShared>>
chanVars  == <<up, drops>>
runVars   == <<pc, result>>
startVars == <<start, told, tied>>
holdVars  == <<wait, guard>>
guestVars == <<procs, proc, sigkill>>
vars == <<optVars, chanVars, shared, runVars, request, startVars, holdVars,
          guestVars>>

Each(v) == [r \in Runs |-> v]

Init ==
    /\ kind \in [Runs -> {"plain", "streaming", "background"}]
    /\ limited \in SUBSET Runs
    /\ onShared \in BOOLEAN /\ up = FALSE /\ drops = 0 /\ shared = FALSE
    /\ pc = Each("idle") /\ result = Each("none")
    /\ request = Each("none") /\ start = Each("none") /\ told = Each("none")
    /\ tied = Each(FALSE) /\ wait = Each("none") /\ guard = Each("off")
    /\ procs = Each(0) /\ proc = Each("none") /\ sigkill = {}

Goto(r, from, to) ==
    /\ pc[r] = from
    /\ pc' = [pc EXCEPT ![r] = to]

Return(r, from, value) ==
    /\ Goto(r, from, "done")
    /\ result' = [result EXCEPT ![r] = value]

\* A process of r begins.  The guest does not know which runs belong together.
Begins(r) ==
    /\ procs' = [procs EXCEPT ![r] = @ + 1]
    /\ proc' = [proc EXCEPT ![r] = "running"]
    /\ UNCHANGED sigkill

-----------------------------------------------------------------------------
(***************************************************************************)
(* The route.                                                              *)
(***************************************************************************)

\* rest_eligible, and the channel is closed or known to be of no use.
OverRest(r) == kind[r] = "plain" /\ (~up \/ shared)

Post(r) == request' = [request EXCEPT ![r] = "sent"]

ChooseRest(r) ==
    /\ OverRest(r) /\ Goto(r, "idle", "rest") /\ Post(r)
    /\ UNCHANGED <<optVars, chanVars, shared, result, startVars, holdVars,
                   guestVars>>

ChooseChannel(r) ==
    /\ ~OverRest(r) /\ Goto(r, "idle", "connect")
    /\ UNCHANGED <<optVars, chanVars, shared, result, request, startVars,
                   holdVars, guestVars>>

-----------------------------------------------------------------------------
(***************************************************************************)
(* exec_oneshot: POST /sandboxes/:id/exec.  "rest" is the first request of *)
(* a run, "again" the one after the guest refused its command stream.      *)
(***************************************************************************)

\* The gateway runs the command, perhaps after the client gave up (external).
ExecRuns(r) ==
    /\ request[r] = "sent"
    /\ request' = [request EXCEPT ![r] = "taken"]
    /\ Begins(r)
    /\ UNCHANGED <<optVars, chanVars, shared, runVars, startVars, holdVars>>

ExecFrame ==
    UNCHANGED <<optVars, chanVars, shared, startVars, holdVars, guestVars>>

ExecOk(r) ==
    /\ request[r] = "taken" /\ proc[r] # "running"
    /\ \E p \in {"rest", "again"} : Return(r, p, "ok")
    /\ UNCHANGED request /\ ExecFrame

\* Seeded fault: any failure of /exec falls back to the channel.
AnyFailure(r)       == request[r] # "none"
RouteUnavailable(r) == request[r] = "sent"

\* 404 without a body, 405 or 501: a gateway without the route ran nothing.  The
\* first request falls back to the channel, a second one fails.
ExecUnavailable(r) ==
    /\ RouteUnavailable(r)
    /\ request' = [request EXCEPT ![r] = "none"]
    /\ \/ Goto(r, "rest", "connect") /\ UNCHANGED result
       \/ Return(r, "again", "error")
    /\ ExecFrame

\* Any other error, or none at all before request_timeout: the command may have
\* run, or may still.
ExecFails(r) ==
    /\ \E p \in {"rest", "again"} : Return(r, p, "error")
    /\ UNCHANGED request /\ ExecFrame

-----------------------------------------------------------------------------
(***************************************************************************)
(* start_command: connect(), cmd.start and its reply.                      *)
(***************************************************************************)
ConnectOk(r) ==
    /\ Goto(r, "connect", "call") /\ up' = TRUE
    /\ UNCHANGED <<optVars, drops, shared, result, request, startVars, holdVars,
                   guestVars>>

ConnectFails(r) ==
    /\ ~up /\ Return(r, "connect", "error")
    /\ UNCHANGED <<optVars, chanVars, shared, request, startVars, holdVars,
                   guestVars>>

MayCall == up

\* call("cmd.start"): refused when the channel went down since connect().
Call(r) ==
    /\ \/ /\ MayCall /\ Goto(r, "call", "start")
          /\ start' = [start EXCEPT ![r] = "sent"]
          /\ tied' = [tied EXCEPT ![r] = TRUE]
          /\ UNCHANGED <<result, told>>
       \/ /\ ~MayCall /\ Return(r, "call", "error")
          /\ UNCHANGED startVars
    /\ UNCHANGED <<optVars, chanVars, shared, request, holdVars, guestVars>>

\* The guest starts the command, or refuses: on the shared tier any stream, else
\* a command it cannot start (external).
GuestStarts(r) ==
    /\ start[r] = "sent"
    /\ \/ /\ ~onShared /\ start' = [start EXCEPT ![r] = "started"] /\ Begins(r)
       \/ /\ onShared /\ start' = [start EXCEPT ![r] = "refused"]
          /\ UNCHANGED guestVars
       \/ /\ ~onShared /\ start' = [start EXCEPT ![r] = "failed"]
          /\ UNCHANGED guestVars
    /\ UNCHANGED <<optVars, chanVars, shared, runVars, request, told, tied,
                   holdVars>>

Tell(r, value) ==
    /\ pc[r] = "start" /\ told[r] = "none"
    /\ told' = [told EXCEPT ![r] = value]
    /\ UNCHANGED <<optVars, chanVars, shared, runVars, request, start, tied,
                   holdVars, guestVars>>

\* The reply comes in while the connection stands, or call_timeout elapses.
Reply(r)     == tied[r] /\ start[r] \notin {"none", "sent"} /\ Tell(r, start[r])
TimesOut(r)  == Tell(r, "timeout")

\* register_command: what tears the wait down is the end of the connection of
\* this moment, which need not be the one that cmd.start went over.  Seeded
\* fault: it is entered on a channel that is down.
RegisterAnyway(r) == wait' = [wait EXCEPT ![r] = "blocked"]
Register(r) == wait' = [wait EXCEPT ![r] = IF up THEN "blocked" ELSE "woken"]

\* Registered, guard armed; a background run returns and arms none.
Started(r) ==
    /\ told[r] \in {"started", "exit"} /\ Register(r)
    /\ \/ /\ kind[r] # "background" /\ Goto(r, "start", "wait")
          /\ guard' = [guard EXCEPT ![r] = "armed"] /\ UNCHANGED result
       \/ /\ kind[r] = "background" /\ Return(r, "start", "background")
          /\ UNCHANGED guard
    /\ UNCHANGED <<optVars, chanVars, shared, request, startVars, guestVars>>

\* rest_eligible.
MayRunAgain(r) == kind[r] = "plain"

\* mark_shared; what REST can carry runs there, for nothing was started.
Refused(r) ==
    /\ told[r] = "refused" /\ shared' = TRUE
    /\ \/ /\ MayRunAgain(r) /\ Goto(r, "start", "again") /\ Post(r)
          /\ UNCHANGED result
       \/ /\ ~MayRunAgain(r) /\ Return(r, "start", "refused")
          /\ UNCHANGED request
    /\ UNCHANGED <<optVars, chanVars, startVars, holdVars, guestVars>>

StartFails(r) ==
    /\ told[r] \in {"failed", "closed", "timeout"}
    /\ Return(r, "start", "error")
    /\ UNCHANGED <<optVars, chanVars, shared, request, startVars, holdVars,
                   guestVars>>

-----------------------------------------------------------------------------
(***************************************************************************)
(* The wait, its deadline, and CancelGuard.                                *)
(***************************************************************************)

\* Seeded fault: it is dropped armed when the run returns.
LeftArmed(r) == guard' = [guard EXCEPT ![r] = "fired"]
Disarm(r)    == guard' = [guard EXCEPT ![r] = "off"]

\* A best-effort call: it reaches the writer while the channel is open.
SendKill(r) == sigkill' = IF up THEN sigkill \cup {r} ELSE sigkill

EndWait(r, how) == wait' = [wait EXCEPT ![r] = how]

WaitFrame ==
    UNCHANGED <<optVars, chanVars, shared, request, startVars, procs, proc>>

\* The exit frame is read, by whichever reader gets it: before the command is
\* registered it is an orphan, then it goes to a wait that is still in the table.
ExitFrame(r) ==
    /\ told[r] = "started" /\ proc[r] \in {"exited", "killed"}
    /\ pc[r] = "start" \/ wait[r] = "blocked"
    /\ told' = [told EXCEPT ![r] = "exit"]
    /\ UNCHANGED <<optVars, chanVars, shared, runVars, request, start, tied,
                   holdVars, guestVars>>

WaitExit(r) ==
    /\ told[r] = "exit" /\ EndWait(r, "exited")
    /\ Return(r, "wait", "ok") /\ Disarm(r)
    /\ UNCHANGED sigkill /\ WaitFrame

\* Seeded fault: a closed frame channel counts as the end of the command.
EndOfCommand  == "ok"
ChannelClosed == "error"

\* recv() yields None: the channel went down before the exit frame.
WaitClosed(r) ==
    /\ told[r] # "exit" /\ wait[r] = "woken" /\ EndWait(r, "closed")
    /\ Return(r, "wait", ChannelClosed) /\ Disarm(r)
    /\ UNCHANGED sigkill /\ WaitFrame

\* The handle of a background run is dropped, or a task drives it to its
\* callbacks until the command or the channel ends.
BackgroundEnds(r) ==
    /\ kind[r] = "background" /\ wait[r] \in {"blocked", "woken"}
    /\ \/ EndWait(r, "dropped")
       \/ told[r] = "exit" /\ EndWait(r, "exited")
       \/ told[r] # "exit" /\ wait[r] = "woken" /\ EndWait(r, "closed")
    /\ UNCHANGED <<runVars, guard, sigkill>> /\ WaitFrame

\* Seeded fault: the run returns without killing the command.
LetRun(r) == UNCHANGED sigkill
KillNow(r) == SendKill(r)

\* Seeded fault: the deadline is looked at when the guest says something.
LooksAtNews(r) == r \in limited /\ proc[r] # "running"
Elapses(r)     == r \in limited

\* The deadline elapses while recv() blocks: SIGKILL is sent, over the connection
\* of this moment, and its reply awaited.
WaitDeadline(r) ==
    /\ Elapses(r) /\ told[r] # "exit" /\ wait[r] = "blocked"
    /\ Goto(r, "wait", "kill") /\ KillNow(r)
    /\ UNCHANGED <<result, holdVars>> /\ WaitFrame

\* The reply, the call timeout or the end of the channel.
WaitKilled(r) ==
    /\ Return(r, "kill", "timedout") /\ Disarm(r) /\ EndWait(r, "expired")
    /\ UNCHANGED sigkill /\ WaitFrame

\* CancelGuard::drop: armed it spawns a task, which needs a runtime to run in;
\* dropped outside one, it does nothing.
DropGuard(r) ==
    \E g \in {"fired", "outside"} :
       guard' = [guard EXCEPT ![r] = IF @ = "armed" THEN g ELSE @]

\* The caller drops the run at an await: its guard, its wait, and the call whose
\* reply it awaits.
Drop(r) ==
    /\ \E p \in {"rest", "again", "connect", "start", "wait", "kill"} :
          Goto(r, p, "dropped")
    /\ DropGuard(r)
    /\ wait' = [wait EXCEPT ![r] = IF @ = "none" THEN @ ELSE "dropped"]
    /\ told' = [told EXCEPT ![r] =
                   IF pc[r] = "start" /\ @ = "none" THEN "dropped" ELSE @]
    /\ UNCHANGED <<optVars, chanVars, shared, result, request, start, tied,
                   guestVars>>

\* Seeded fault: the guard asks the guest nicely, and only that.
GuardGivesUp(r) == UNCHANGED sigkill
GuardInsists(r) == SendKill(r)

\* The guard's task: SIGTERM, end of stdin and the grace period, to which the
\* guest may react as it likes, and then SIGKILL.
GuardKill(r) ==
    /\ guard[r] = "fired"
    /\ guard' = [guard EXCEPT ![r] = "spent"]
    /\ GuardInsists(r)
    /\ UNCHANGED <<runVars, wait>> /\ WaitFrame

-----------------------------------------------------------------------------
(***************************************************************************)
(* The guest and the channel (external).                                   *)
(***************************************************************************)
Exit(r) ==
    /\ proc[r] = "running"
    /\ proc' = [proc EXCEPT ![r] = "exited"]
    /\ UNCHANGED <<optVars, chanVars, shared, runVars, request, startVars,
                   holdVars, procs, sigkill>>

GuestKills(r) ==
    /\ r \in sigkill
    /\ sigkill' = sigkill \ {r}
    /\ proc' = [proc EXCEPT ![r] = IF @ = "running" THEN "killed" ELSE @]
    /\ UNCHANGED <<optVars, chanVars, shared, runVars, request, startVars,
                   holdVars, procs>>

\* The channel goes down, by itself or by close(): calls without a reply are
\* told so, waits wake up, orphans are dropped, and what is in the writer's queue
\* may be lost.
GoDown ==
    /\ up /\ drops < MaxDrops
    /\ up' = FALSE /\ drops' = drops + 1
    /\ told' = [r \in Runs |->
                  IF pc[r] # "start" THEN told[r]
                  ELSE IF told[r] = "none" THEN "closed"
                  ELSE IF told[r] = "exit" THEN "started" ELSE told[r]]
    /\ tied' = Each(FALSE)
    /\ wait' = [r \in Runs |-> IF wait[r] = "blocked" THEN "woken" ELSE wait[r]]
    /\ sigkill' \in SUBSET sigkill
    /\ UNCHANGED <<optVars, shared, runVars, request, start, guard, procs,
                   proc>>

\* Somebody else connects.
GoUp ==
    /\ ~up /\ up' = TRUE
    /\ UNCHANGED <<optVars, drops, shared, runVars, request, startVars, holdVars,
                   guestVars>>

-----------------------------------------------------------------------------
RunStep(r) ==
    \/ ChooseRest(r) \/ ChooseChannel(r)
    \/ ExecOk(r) \/ ExecUnavailable(r) \/ ExecFails(r)
    \/ ConnectOk(r) \/ ConnectFails(r) \/ Call(r) \/ Reply(r) \/ TimesOut(r)
    \/ Started(r) \/ Refused(r) \/ StartFails(r)
    \/ WaitExit(r) \/ WaitClosed(r) \/ WaitDeadline(r) \/ WaitKilled(r)
    \/ BackgroundEnds(r) \/ Drop(r) \/ GuardKill(r)

GuestStep(r) ==
    ExecRuns(r) \/ GuestStarts(r) \/ Exit(r) \/ ExitFrame(r) \/ GuestKills(r)

Next == GoDown \/ GoUp \/ \E r \in Runs : RunStep(r) \/ GuestStep(r)

Spec == Init /\ [][Next]_vars

(***************************************************************************)
(* Fairness.  Requests, connects and calls are bounded by timeouts, a run   *)
(* that can go on does, and so does the task of a guard that fired: their   *)
(* runtime goes on.  Of the guest: it obeys a SIGKILL that it gets.         *)
(***************************************************************************)
Fairness ==
    \A r \in Runs :
       /\ WF_vars(ExecOk(r) \/ ExecUnavailable(r) \/ ExecFails(r))
       /\ WF_vars(ConnectOk(r) \/ ConnectFails(r)) /\ WF_vars(Call(r))
       /\ WF_vars(Reply(r) \/ TimesOut(r))
       /\ WF_vars(Started(r)) /\ WF_vars(Refused(r)) /\ WF_vars(StartFails(r))
       /\ WF_vars(WaitExit(r)) /\ WF_vars(WaitClosed(r))
       /\ WF_vars(WaitDeadline(r)) /\ WF_vars(WaitKilled(r))
       /\ WF_vars(GuardKill(r)) /\ WF_vars(GuestKills(r))

FairSpec == Spec /\ Fairness

-----------------------------------------------------------------------------
(***************************************************************************)
(* Properties.                                                             *)
(***************************************************************************)

\* Types, and the places where a run can be.
TypeOK ==
    /\ kind \in [Runs -> {"plain", "streaming", "background"}]
    /\ limited \subseteq Runs /\ onShared \in BOOLEAN
    /\ up \in BOOLEAN /\ drops \in 0 .. MaxDrops /\ shared \in BOOLEAN
    /\ pc \in [Runs -> {"idle", "rest", "again", "connect", "call", "start",
                        "wait", "kill", "done", "dropped"}]
    /\ result \in [Runs -> {"none", "ok", "error", "refused", "timedout",
                            "background"}]
    /\ request \in [Runs -> {"none", "sent", "taken"}]
    /\ start \in [Runs -> {"none", "sent", "started", "refused", "failed"}]
    /\ told \in [Runs -> {"none", "started", "refused", "failed", "closed",
                          "timeout", "dropped", "exit"}]
    /\ tied \in [Runs -> BOOLEAN]
    /\ wait \in [Runs -> {"none", "blocked", "woken", "exited", "closed",
                          "expired", "dropped"}]
    /\ guard \in [Runs -> {"off", "armed", "fired", "spent", "outside"}]
    /\ procs \in [Runs -> Nat] /\ sigkill \subseteq Runs
    /\ proc \in [Runs -> {"none", "running", "exited", "killed"}]

\* "Never silently double-execute": whatever answers are lost, refused or late,
\* over both routes together a run starts at most one process.
StartedOnce == \A r \in Runs : procs[r] <= 1

\* A run that returns a result with an exit code returns that of its process,
\* which is over: the end of a channel is never taken for the end of a command.
OkIsOver ==
    \A r \in Runs :
       result[r] = "ok" => procs[r] = 1 /\ proc[r] \in {"exited", "killed"}

\* Only what was given up is killed: no SIGKILL is ever on its way to a command,
\* and none has ended it, unless its caller dropped the run or its own deadline
\* passed; not after it was over, and not because the channel closed under it.
OnlyAbandonedKilled ==
    \A r \in Runs :
       r \in sigkill \/ proc[r] = "killed" =>
          \/ pc[r] = "dropped"
          \/ r \in limited /\ (pc[r] = "kill" \/ result[r] = "timedout")

\* What a run waits for without its deadline is the command; all else ends.
Bounded(r) ==
    \/ pc[r] \in {"rest", "again", "connect", "call", "start", "kill"}
    \/ pc[r] = "wait" /\ r \in limited

\* A run returns if it goes over REST, waits for a reply or has a deadline: no
\* answer, lost or refused, and no guest that never ends a command keeps it.
RunsReturn == \A r \in Runs : Bounded(r) ~> ~Bounded(r)

\* A run dropped while it waits, inside a runtime, leaves no process behind,
\* unless the channel its command was started over goes down.  (One dropped
\* outside leaves it running: its guard is "outside".)
CancelledStops ==
    \A r \in Runs :
       guard[r] = "fired" /\ tied[r] ~> proc[r] # "running" \/ ~tied[r]

\* Nor does a run whose deadline passed.
TimedOutStops ==
    \A r \in Runs :
       pc[r] = "kill" /\ tied[r] ~> proc[r] # "running" \/ ~tied[r]

\* What the comment of CancelGuard says of every dropped run, and a run dropped
\* before it has the reply to cmd.start does not do, inside a runtime or not.
DroppedStops ==
    \A r \in Runs :
       pc[r] = "dropped" /\ guard[r] # "outside" /\ tied[r]
          ~> proc[r] # "running" \/ ~tied[r]

-----------------------------------------------------------------------------
(***************************************************************************)
(* The channel used here is the one ControlChannel provides.               *)
(***************************************************************************)
Verdict(r) ==
    IF told[r] = "none" THEN IF pc[r] = "start" THEN "inflight" ELSE "unused"
    ELSE IF told[r] \in {"started", "exit"} THEN "ok"
    ELSE IF told[r] \in {"refused", "failed"} THEN "error"
    ELSE told[r]

Channel == INSTANCE ChannelPromise WITH
    Calls <- Runs,
    verdict <- [r \in Runs |-> Verdict(r)],
    wait <- wait

\* Every step of the runs, and of the channel under them, is one ChannelPromise
\* allows: a run calls, registers and waits only as that says, and is woken by a
\* tear-down of the channel it is registered on, be it a later one than that of
\* its cmd.start.
UsesPromise == Channel!Spec

=============================================================================
