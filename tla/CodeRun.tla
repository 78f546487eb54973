-------------------------------- MODULE CodeRun --------------------------------
(***************************************************************************)
(* The code namespace (code.rs): code.run in the kernel of a context, and   *)
(* the guard that sends code.interrupt when the future of a run is dropped  *)
(* before the kernel has answered.                                         *)
(*                                                                         *)
(* Kernels are external: each takes what it is given in order, one piece   *)
(* of code at a time, and that code may never end.  An interrupt ends what *)
(* its kernel is running and is nothing to one that is idle.  (A guest     *)
(* that does not know code.interrupt answers with an error nobody reads.)  *)
(***************************************************************************)
EXTENDS Integers, Sequences, SequencesExt

CONSTANTS
    Runs,          \* the calls of code.run
    Contexts,      \* context ids
    NoContext,     \* no contextId: the guest's default kernel
    MaxDrops       \* bound: connections lost

ASSUME CodeAssumption == NoContext \notin Contexts /\ MaxDrops \in Nat

VARIABLES
    inContext,     \* the context each call names
    runAt,         \* where each call is
    guard,         \* the calls whose InterruptGuard is armed
    spawned,       \* interrupts a task was spawned to send
    up, drops,     \* the channel is connected; connections lost
    wire,          \* frames on their way to the guest, in the order sent
    queue,         \* what each kernel was given; it runs the first
    halted,        \* history: which call's interrupt ended which
    lost           \* history: calls whose interrupt never reaches the guest

clientSide == <<inContext, runAt, guard, spawned>>
channel    == <<up, drops, wire>>
guest      == <<queue, halted>>
codeVars   == <<clientSide, channel, guest, lost>>

Kernels == Contexts \cup {NoContext}

CodeInit ==
    /\ inContext \in [Runs -> Kernels]
    /\ runAt = [r \in Runs |-> "idle"] /\ guard = {} /\ spawned = {}
    /\ up = FALSE /\ drops = 0 /\ wire = <<>>
    /\ queue = [k \in Kernels |-> <<>>]
    /\ halted = {} /\ lost = {}

Now(r, s) == runAt' = [runAt EXCEPT ![r] = s]
CodeFrames ==
    [what : {"run", "interrupt"}, call : Runs, kernel : Kernels]
CodeFrame(what, r, k) == [what |-> what, call |-> r, kernel |-> k]

-----------------------------------------------------------------------------
(***************************************************************************)
(* The client.                                                             *)
(***************************************************************************)

\* connect() fails, or the run is dropped in it: there is no guard yet.
NeverBegins(r) ==
    /\ runAt[r] = "idle" /\ ~up
    /\ \E s \in {"returned", "dropped"} : Now(r, s)
    /\ UNCHANGED <<inContext, guard, spawned, channel, guest, lost>>

\* connect(); the guard is armed before the call waits for the sink.
BeginCode(r) ==
    /\ runAt[r] = "idle" /\ Now(r, "armed")
    /\ guard' = guard \cup {r} /\ up' = TRUE
    /\ UNCHANGED <<inContext, spawned, drops, wire, guest, lost>>

SendCode(r) ==
    /\ runAt[r] = "armed" /\ up /\ Now(r, "sent")
    /\ wire' = Append(wire, CodeFrame("run", r, inContext[r]))
    /\ UNCHANGED <<inContext, guard, spawned, up, drops, guest, lost>>

\* InterruptGuard::drop: armed, it spawns a task.  Seeded fault: the context is
\* left out of the interrupt.
NoContextId(r) == NoContext
ContextId(r)   == inContext[r]
DropGuard(r, armed) ==
    /\ guard' = guard \ {r}
    /\ spawned' = spawned \cup
          {f \in {CodeFrame("interrupt", r, ContextId(r))} : armed}

\* The kernel has answered, the connection is lost, or the time is up: the guard
\* is disarmed and dropped.  Seeded fault: it is dropped as it is.
LeftArmed(r) == r \in guard
Disarmed(r)  == FALSE
CallReturns(r) ==
    /\ runAt[r] \in {"armed", "sent"}
    /\ Now(r, "returned") /\ DropGuard(r, Disarmed(r))
    /\ UNCHANGED <<inContext, channel, guest, lost>>

\* The future of the run is dropped, within a runtime or outside one, where the
\* guard can spawn nothing.  Seeded fault: it covers the sending and not the wait.
WhileSending(r) == runAt[r] = "armed"
Armed(r)        == r \in guard
DropRun(r) ==
    /\ runAt[r] \in {"armed", "sent"}
    /\ Now(r, "dropped")
    /\ \/ DropGuard(r, Armed(r)) /\ UNCHANGED lost
       \/ DropGuard(r, FALSE) /\ lost' = lost \cup {r}
    /\ UNCHANGED <<inContext, channel, guest>>

\* The spawned task's call, which does not connect.
SendInterrupt ==
    \E f \in spawned :
       /\ spawned' = spawned \ {f}
       /\ \/ up /\ wire' = Append(wire, f) /\ UNCHANGED lost
          \/ ~up /\ lost' = lost \cup {f.call} /\ UNCHANGED wire
       /\ UNCHANGED <<inContext, runAt, guard, up, drops, guest>>

-----------------------------------------------------------------------------
(***************************************************************************)
(* The connection, and the guest (external).                               *)
(***************************************************************************)

Disconnects ==
    /\ up /\ drops < MaxDrops
    /\ up' = FALSE /\ drops' = drops + 1 /\ wire' = <<>>
    /\ lost' = lost \cup {f.call : f \in ToSet(wire)}
    /\ UNCHANGED <<clientSide, guest>>

Executing(r) == queue[inContext[r]] # <<>> /\ Head(queue[inContext[r]]) = r

\* The code a kernel runs has ended, and it goes on to the next.
Ends(k) == queue' = [queue EXCEPT ![k] = Tail(@)]

KernelEnds(k) ==
    /\ queue[k] # <<>> /\ Ends(k)
    /\ UNCHANGED <<clientSide, channel, halted, lost>>

Deliver ==
    /\ wire # <<>> /\ wire' = Tail(wire)
    /\ LET f == Head(wire) IN
       \/ /\ f.what = "run"
          /\ queue' = [queue EXCEPT ![f.kernel] = Append(@, f.call)]
          /\ UNCHANGED halted
       \/ /\ f.what = "interrupt" /\ queue[f.kernel] # <<>>
          /\ Ends(f.kernel)
          /\ halted' = halted \cup {<<Head(queue[f.kernel]), f.call>>}
       \/ /\ f.what = "interrupt" /\ queue[f.kernel] = <<>>
          /\ UNCHANGED guest
    /\ UNCHANGED <<clientSide, up, drops, lost>>

-----------------------------------------------------------------------------
CallStep(r) ==
    \/ NeverBegins(r) \/ BeginCode(r) \/ SendCode(r)
    \/ CallReturns(r) \/ DropRun(r)

CodeNext ==
    \/ \E r \in Runs : CallStep(r)
    \/ SendInterrupt \/ Disconnects \/ Deliver
    \/ \E k \in Kernels : KernelEnds(k)

CodeSpec == CodeInit /\ [][CodeNext]_codeVars

\* Spawned tasks run and a connected guest reads its frames.  Nothing is assumed
\* of the code that kernels run.
CodeFairness == WF_codeVars(SendInterrupt) /\ WF_codeVars(Deliver)

-----------------------------------------------------------------------------
(***************************************************************************)
(* Properties.                                                             *)
(***************************************************************************)

\* Types.
CodeTypeOK ==
    /\ inContext \in [Runs -> Kernels]
    /\ runAt \in [Runs -> {"idle", "armed", "sent", "returned", "dropped"}]
    /\ guard \subseteq Runs /\ lost \subseteq Runs
    /\ up \in BOOLEAN /\ drops \in 0 .. MaxDrops
    /\ wire \in Seq(CodeFrames) /\ spawned \subseteq CodeFrames
    /\ queue \in [Kernels -> Seq(Runs)] /\ halted \subseteq Runs \X Runs

\* "Sends code.interrupt when a code.run future is dropped": an interrupt only
\* ever ends code in the context of a call that was dropped.  A call that has
\* returned does not interrupt what its context runs next, and other contexts
\* are left alone.
InterruptsStayHome ==
    \A pair \in halted :
       inContext[pair[1]] = inContext[pair[2]] /\ runAt[pair[2]] = "dropped"

\* "while the kernel is still running its code": the kernel stops running a call
\* that was dropped, unless it is shared with another, whose code may be what
\* the interrupt ends, or no interrupt gets there: the connection took it along,
\* or the run was dropped outside a runtime, and none was sent.
Shared(r) == \E q \in Runs \ {r} : inContext[q] = inContext[r]
DroppedCodeStops ==
    \A r \in Runs :
       runAt[r] = "dropped" /\ Executing(r) /\ ~Shared(r)
          ~> ~Executing(r) \/ r \in lost

=============================================================================
