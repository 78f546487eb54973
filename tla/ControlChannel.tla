--------------------------- MODULE ControlChannel ---------------------------
(***************************************************************************)
(* The control-WebSocket transport of channel.rs: one ControlChannel shared *)
(* by the tasks of a client process.                                       *)
(*                                                                         *)
(* The granularity is that of the code.  A step is what runs under one     *)
(* acquisition of the `inner` mutex, or one access to the `ws_open` atomic, *)
(* because anything else may run between two of them; connect() holds the  *)
(* async `connecting` mutex over several steps.  Each opened socket has a  *)
(* reader and a writer task, and tasks of an older socket go on running    *)
(* beside those of a newer one.                                            *)
(*                                                                         *)
(* A call is identified by the order in which calls are made; the id it    *)
(* puts on the wire is a separate value.  A command is identified by the   *)
(* cmd.start call that started it, and its frames by their numbers: 1, 2,  *)
(* ... are cmd.data, LastFrame is cmd.exit.                                *)
(*                                                                         *)
(* Definitions marked "Seeded fault" are not part of the specification:     *)
(* each is a plausible bug in the definition after it, and is what one of   *)
(* the properties below is shown to catch.                                 *)
(***************************************************************************)
EXTENDS Integers, Sequences, FiniteSets, Functions

CONSTANTS
    Tasks,        \* tasks that connect, reconnect or close the channel
    MaxSockets,   \* bound: sockets opened in one behaviour
    MaxAttempts,  \* CONNECT_MAX_ATTEMPTS
    MaxCalls,     \* bound: calls made in one behaviour
    StartCalls,   \* the calls whose method is cmd.start
    LastFrame,    \* number of a command's cmd.exit frame
    MaxOrphans,   \* MAX_ORPHAN_FRAMES
    SplitFrames,  \* may a line be spread over two socket messages?
    None          \* no task, no socket

Sockets == 1 .. MaxSockets
Calls   == 1 .. MaxCalls
Frames  == 1 .. LastFrame

ASSUME BoundsAssumption ==
    /\ MaxSockets \in Nat /\ MaxCalls \in Nat
    /\ MaxAttempts \in Nat \ {0}
    /\ LastFrame \in Nat \ {0}
    /\ MaxOrphans \in Nat

ASSUME ShapeAssumption ==
    /\ StartCalls \subseteq Calls
    /\ SplitFrames \in BOOLEAN
    /\ None \notin Tasks /\ None \notin Sockets

VARIABLES
    wsOpen, closed, writer,           \* Inner: the installed socket
    nextId, pending, handlers,        \* Inner: ids, calls, command handlers
    orphans, orphanCount, rxBuffer,   \* Inner: early frames, unfinished line
    openFlag, connecting, attempt,    \* the atomic; connect lock and its try
    pc,                               \* what each task is doing
    nSock, reader, wtask, outq, half, \* sockets: tasks, queue, half-read line
    call, id, callSock, outcome,      \* call(): progress, id, socket, verdict
    received, answered, emitted,      \* the guest at the other end (external)
    waiter, inbox                     \* CommandHandle: its wait, its frames

linkVars   == <<wsOpen, closed, writer>>
tableVars  == <<nextId, pending, handlers, orphans, orphanCount>>
innerVars  == <<linkVars, tableVars, rxBuffer>>
lockVars   == <<openFlag, connecting, attempt>>
socketVars == <<nSock, reader, wtask, outq, half>>
callVars   == <<call, id, callSock, outcome>>
guestVars  == <<received, answered, emitted>>
waitVars   == <<waiter, inbox>>
vars       == <<innerVars, lockVars, pc, socketVars, callVars, guestVars,
                waitVars>>

\* Lines on the wire.  Blank is an empty rx_buffer, Junk one that holds pieces
\* of two lines and can never parse.
Line(k, c, n) == [kind |-> k, call |-> c, n |-> n]
Blank == Line("blank", 0, 0)
Junk  == Line("junk", 0, 0)
Lines == [kind : {"ok", "error"}, call : Calls, n : {0}]
         \cup [kind : {"frame"}, call : Calls, n : Frames]

InFlight(c)  == call[c] \in {"prepared", "waiting"}
Listening(c) == waiter[c] \in {"waiting", "killing"}

Init ==
    /\ wsOpen = FALSE /\ closed = FALSE /\ writer = None
    /\ nextId = 1 /\ pending = {} /\ handlers = {}
    /\ orphans = [c \in Calls |-> <<>>] /\ orphanCount = 0 /\ rxBuffer = Blank
    /\ openFlag = FALSE /\ connecting = None /\ attempt = 0
    /\ pc = [t \in Tasks |-> "idle"]
    /\ nSock = 0 /\ outq = [s \in Sockets |-> <<>>]
    /\ reader = [s \in Sockets |-> "none"] /\ wtask = [s \in Sockets |-> "none"]
    /\ half = [s \in Sockets |-> Blank]
    /\ call = [c \in Calls |-> "unused"] /\ id = [c \in Calls |-> 0]
    /\ callSock = [c \in Calls |-> None] /\ outcome = [c \in Calls |-> "none"]
    /\ received = {} /\ answered = [c \in Calls |-> "none"]
    /\ emitted = [c \in Calls |-> 0]
    /\ waiter = [c \in Calls |-> "none"] /\ inbox = [c \in Calls |-> <<>>]

-----------------------------------------------------------------------------
(***************************************************************************)
(* connect(), reconnect() and the first two steps of close().              *)
(***************************************************************************)
Move(t, from, to) ==
    /\ pc[t] = from
    /\ pc' = [pc EXCEPT ![t] = to]

TaskFrame ==
    UNCHANGED <<tableVars, rxBuffer, socketVars, callVars, guestVars, waitVars>>

\* connect() past its first check: a connected channel returns at once.
Connect(t) ==
    /\ ~openFlag /\ Move(t, "idle", "locking")
    /\ UNCHANGED <<linkVars, lockVars>> /\ TaskFrame

\* reconnect() reads the flag, then clears it and calls connect().
Reconnect(t) ==
    /\ ~openFlag /\ Move(t, "idle", "reconnect")
    /\ UNCHANGED <<linkVars, lockVars>> /\ TaskFrame

ReconnectStore(t) ==
    /\ openFlag' = FALSE /\ Move(t, "reconnect", "locking")
    /\ UNCHANGED <<linkVars, connecting, attempt>> /\ TaskFrame

\* The caller drops its future while queued for the lock, or connect()'s first
\* check (which runs unlocked, after reconnect()'s store) finds the flag set.
LeaveQueue(t) ==
    /\ Move(t, "locking", "idle")
    /\ UNCHANGED <<linkVars, lockVars>> /\ TaskFrame

\* Seeded fault: connect_once runs without the lock.
LockIgnored == TRUE
LockFree    == connecting = None

\* Seeded fault: no second check under the lock.
DialAnyway == TRUE
MayDial    == ~openFlag

\* connecting.lock(), the second check, closed = false.
Lock(t) ==
    /\ LockFree
    /\ \/ /\ MayDial /\ Move(t, "locking", "dialing")
          /\ connecting' = t /\ closed' = FALSE /\ attempt' = 1
          /\ UNCHANGED <<wsOpen, writer, openFlag>>
       \/ /\ ~MayDial /\ Move(t, "locking", "idle")
          /\ UNCHANGED <<linkVars, lockVars>>
    /\ TaskFrame

\* connect_async succeeds: both socket tasks are spawned, and run, before the
\* socket is installed.
DialOk(t) ==
    /\ nSock < MaxSockets /\ Move(t, "dialing", "install")
    /\ nSock' = nSock + 1
    /\ reader' = [reader EXCEPT ![nSock + 1] = "reading"]
    /\ wtask' = [wtask EXCEPT ![nSock + 1] = "running"]
    /\ UNCHANGED <<innerVars, lockVars, outq, half, callVars, guestVars,
                   waitVars>>

\* Seeded fault: a path out of connect() that keeps the lock.
KeepLock == UNCHANGED connecting
Unlock   == connecting' = None

GiveUp(t, from) ==
    /\ Move(t, from, "idle") /\ Unlock /\ attempt' = 0

\* Seeded fault: the attempts have no limit.
RetryForever == ~closed
MayRetry     == ~closed /\ attempt < MaxAttempts

\* connect_async fails: retried unless closed meanwhile or out of attempts.
DialFail(t) ==
    /\ \/ /\ MayRetry /\ pc[t] = "dialing"
          /\ attempt' = attempt + 1 /\ UNCHANGED <<connecting, pc>>
       \/ ~MayRetry /\ GiveUp(t, "dialing")
    /\ UNCHANGED <<linkVars, openFlag>> /\ TaskFrame

\* CONNECT_TIMEOUT_MS elapses, or the caller drops the future: no retry.
DialTimeout(t) ==
    /\ GiveUp(t, "dialing")
    /\ UNCHANGED <<linkVars, openFlag>> /\ TaskFrame

\* The locked block of connect_once: the new socket becomes the channel's.
Install(t) ==
    /\ Move(t, "install", "flag")
    /\ writer' = nSock /\ wsOpen' = TRUE /\ closed' = FALSE
    /\ UNCHANGED lockVars /\ TaskFrame

\* ws_open.store(true); connect() returns and releases the lock.
StoreFlag(t) ==
    /\ openFlag' = TRUE /\ GiveUp(t, "flag")
    /\ UNCHANGED linkVars /\ TaskFrame

CloseFlag(t) ==
    /\ openFlag' = FALSE /\ Move(t, "idle", "close")
    /\ UNCHANGED <<linkVars, connecting, attempt>> /\ TaskFrame

CloseMark(t) ==
    /\ closed' = TRUE /\ Move(t, "close", "closing")
    /\ UNCHANGED <<wsOpen, writer, lockVars>> /\ TaskFrame

-----------------------------------------------------------------------------
(***************************************************************************)
(* Tear-down: fail_all, run by close() and by the end of a reader task.    *)
(***************************************************************************)

\* A caller is told what its oneshot was sent first.
Resolve(S, verdict) ==
    outcome' = [c \in Calls |->
                  IF c \in S /\ outcome[c] = "none" THEN verdict ELSE outcome[c]]

\* Seeded fault: the frame handlers survive, and their receivers with them.
KeepHandlers == UNCHANGED handlers
DropHandlers == handlers' = {}

\* Seeded fault: Inner keeps its sender, and the writer task its queue.
KeepWriter == UNCHANGED writer
DropWriter == writer' = None

\* fail_all drains every table under the lock and then rejects the drained
\* calls.  A call that gives up in between is one that gave up before.
FailAll ==
    /\ wsOpen' = FALSE /\ DropWriter
    /\ pending' = {} /\ DropHandlers
    /\ orphans' = [c \in Calls |-> <<>>] /\ orphanCount' = 0
    /\ Resolve(pending, "closed")
    /\ UNCHANGED <<closed, nextId, rxBuffer, call, id, callSock, guestVars,
                   waitVars>>

CloseFailAll(t) ==
    /\ FailAll /\ Move(t, "closing", "idle")
    /\ UNCHANGED <<lockVars, socketVars>>

\* The socket closes or fails; the reader clears the flag.
ReaderEnd(s) ==
    /\ reader[s] = "reading"
    /\ reader' = [reader EXCEPT ![s] = "ending"]
    /\ half' = [half EXCEPT ![s] = Blank]
    /\ openFlag' = FALSE
    /\ UNCHANGED <<innerVars, connecting, attempt, pc, nSock, wtask, outq,
                   callVars, guestVars, waitVars>>

\* ... and then runs fail_all, whichever socket is installed by now.
ReaderFailAll(s) ==
    /\ reader[s] = "ending"
    /\ reader' = [reader EXCEPT ![s] = "done"]
    /\ FailAll
    /\ UNCHANGED <<lockVars, pc, nSock, wtask, outq, half>>

-----------------------------------------------------------------------------
(***************************************************************************)
(* The writer task.                                                        *)
(***************************************************************************)

\* Who can still send to the writer of s: Inner.writer, the connect_once that
\* has yet to install it, and each call() that cloned it.
HasSender(s) ==
    \/ writer = s
    \/ s = nSock /\ \E t \in Tasks : pc[t] = "install"
    \/ \E c \in Calls : callSock[c] = s /\ InFlight(c)

WriterFrame ==
    UNCHANGED <<innerVars, lockVars, pc, nSock, reader, half, callVars,
                answered, emitted, waitVars>>

WriterSend(s) ==
    /\ wtask[s] = "running" /\ outq[s] # <<>>
    /\ outq' = [outq EXCEPT ![s] = Tail(@)]
    /\ received' = received \cup {Head(outq[s])}
    /\ UNCHANGED wtask /\ WriterFrame

\* sink.send fails: the task breaks, and the queue goes with its receiver.
WriterFail(s) ==
    /\ wtask[s] = "running" /\ outq[s] # <<>>
    /\ wtask' = [wtask EXCEPT ![s] = "done"]
    /\ outq' = [outq EXCEPT ![s] = <<>>]
    /\ UNCHANGED received /\ WriterFrame

\* recv() yields None once the queue is empty and no sender is left.
WriterStop(s) ==
    /\ wtask[s] = "running" /\ outq[s] = <<>> /\ ~HasSender(s)
    /\ wtask' = [wtask EXCEPT ![s] = "done"]
    /\ UNCHANGED <<outq, received>> /\ WriterFrame

-----------------------------------------------------------------------------
(***************************************************************************)
(* call().                                                                 *)
(***************************************************************************)
Advance(c, from, to) ==
    /\ call[c] = from
    /\ call' = [call EXCEPT ![c] = to]

CallFrame ==
    UNCHANGED <<linkVars, handlers, orphans, orphanCount, rxBuffer, lockVars,
                pc, nSock, reader, wtask, half, guestVars, waitVars>>

\* Seeded fault: the channel is not asked whether it is open.
CallAlways == writer \in Sockets \cup {None}
MayCall    == ~closed /\ wsOpen /\ writer # None

\* Seeded fault: the id counter is not advanced.
SameId == UNCHANGED nextId
NextId == nextId' = nextId + 1

\* The locked block: refuse on a closed or unopened channel, else take an id
\* and enter the pending table.
CallPrepare(c) ==
    /\ c > 1 => call[c - 1] # "unused"
    /\ MayCall /\ Advance(c, "unused", "prepared")
    /\ id' = [id EXCEPT ![c] = nextId] /\ NextId
    /\ callSock' = [callSock EXCEPT ![c] = writer]
    /\ pending' = pending \cup {c}
    /\ UNCHANGED <<outq, outcome>> /\ CallFrame

\* writer.send runs after the lock is released: the channel may have been torn
\* down, and this call failed, in between.
CallSend(c) ==
    /\ Advance(c, "prepared", "waiting") /\ wtask[callSock[c]] = "running"
    /\ outq' = [outq EXCEPT ![callSock[c]] = Append(@, c)]
    /\ UNCHANGED <<nextId, pending, id, callSock, outcome>> /\ CallFrame

\* The call returns early and takes its entry back.
Withdraw(c, verdict) ==
    /\ pending' = pending \ {c} /\ Resolve({c}, verdict)
    /\ UNCHANGED <<nextId, outq, id, callSock>> /\ CallFrame

\* The writer task is gone.
CallSendFails(c) ==
    /\ Advance(c, "prepared", "returned") /\ wtask[callSock[c]] # "running"
    /\ Withdraw(c, "closed")

\* Seeded fault: a call has no timeout of its own.
CallHasNoTimeout(c) == c \in {} /\ UNCHANGED vars

\* call_timeout elapses first.
CallTimeout(c) ==
    /\ Advance(c, "waiting", "returned") /\ outcome[c] = "none"
    /\ Withdraw(c, "timeout")

CallReturn(c) ==
    /\ Advance(c, "waiting", "returned") /\ outcome[c] # "none"
    /\ UNCHANGED <<nextId, pending, outq, id, callSock, outcome>> /\ CallFrame

\* The caller drops the future: nothing removes the pending entry.
CallDrop(c) ==
    /\ Advance(c, "waiting", "returned") /\ outcome[c] = "none"
    /\ Resolve({c}, "dropped")
    /\ UNCHANGED <<nextId, pending, outq, id, callSock>> /\ CallFrame

-----------------------------------------------------------------------------
(***************************************************************************)
(* The guest (external): it answers each call it received once, and a      *)
(* command it starts sends its frames in order, some perhaps before the    *)
(* reply.  Both come back over the socket that carried the call.           *)
(***************************************************************************)
Sayable(s) ==
    {m \in Lines :
        /\ m.call \in received /\ callSock[m.call] = s
        /\ \/ /\ m.kind # "frame" /\ answered[m.call] = "none"
              /\ m.kind = "error" => emitted[m.call] = 0
           \/ /\ m.kind = "frame" /\ m.n = emitted[m.call] + 1
              /\ m.call \in StartCalls /\ answered[m.call] # "error"}

GuestSays(m) ==
    /\ \/ /\ m.kind = "frame" /\ UNCHANGED answered
          /\ emitted' = [emitted EXCEPT ![m.call] = m.n]
       \/ /\ m.kind # "frame" /\ UNCHANGED emitted
          /\ answered' = [answered EXCEPT ![m.call] = m.kind]
    /\ UNCHANGED received

-----------------------------------------------------------------------------
(***************************************************************************)
(* feed() and dispatch().                                                  *)
(***************************************************************************)

\* A reply resolves the pending call with its id; any other is ignored.
DispatchReply(m) ==
    LET hit == {p \in pending : id[p] = id[m.call]} IN
    /\ pending' = pending \ hit /\ Resolve(hit, m.kind)
    /\ UNCHANGED <<orphans, orphanCount, inbox>>

\* A frame goes to its handler (a send to a dropped receiver is ignored), else
\* to the orphan buffer while that has room, else nowhere.
DispatchFrame(m) ==
    /\ \/ /\ m.call \in handlers
          /\ inbox' = IF Listening(m.call)
                      THEN [inbox EXCEPT ![m.call] = Append(@, m.n)] ELSE inbox
          /\ UNCHANGED <<orphans, orphanCount>>
       \/ /\ m.call \notin handlers /\ orphanCount < MaxOrphans
          /\ orphans' = [orphans EXCEPT ![m.call] = Append(@, m.n)]
          /\ orphanCount' = orphanCount + 1
          /\ UNCHANGED inbox
       \/ /\ m.call \notin handlers /\ orphanCount >= MaxOrphans
          /\ UNCHANGED <<orphans, orphanCount, inbox>>
    /\ UNCHANGED <<pending, outcome>>

Dispatch(m) ==
    \/ m.kind = "frame" /\ DispatchFrame(m)
    \/ m.kind # "frame" /\ DispatchReply(m)

\* The reader of s feeds the end of line m, the whole of it unless its head
\* was fed before.  rx_buffer belongs to the channel and not to a socket: when
\* it holds something else, the assembled line does not parse and is ignored.
EndOfLine(s, m) ==
    /\ GuestSays(m)
    /\ \/ rxBuffer = half[s] /\ Dispatch(m)
       \/ /\ rxBuffer # half[s]
          /\ UNCHANGED <<pending, outcome, orphans, orphanCount, inbox>>
    /\ rxBuffer' = Blank
    /\ half' = [half EXCEPT ![s] = Blank]
    /\ UNCHANGED <<linkVars, nextId, handlers, lockVars, pc, nSock, reader,
                   wtask, outq, call, id, callSock, waiter>>

FeedLine(s) ==
    /\ reader[s] = "reading" /\ half[s] = Blank
    /\ \E m \in Sayable(s) : EndOfLine(s, m)

FeedTail(s) ==
    /\ reader[s] = "reading" /\ half[s] # Blank
    /\ EndOfLine(s, half[s])

\* A message that ends inside a line leaves its piece in rx_buffer.
FeedHead(s) ==
    /\ SplitFrames /\ reader[s] = "reading" /\ half[s] = Blank
    /\ \E m \in Sayable(s) :
          /\ half' = [half EXCEPT ![s] = m]
          /\ rxBuffer' = IF rxBuffer = Blank THEN m ELSE Junk
    /\ UNCHANGED <<linkVars, tableVars, lockVars, pc, nSock, reader, wtask,
                   outq, callVars, guestVars, waitVars>>

-----------------------------------------------------------------------------
(***************************************************************************)
(* register_command, unregister_command and the wait of a CommandHandle.   *)
(* A waiter blocks while its inbox has nothing new and its handler lives;   *)
(* without a handler its sender is gone and recv() yields None.            *)
(***************************************************************************)
MoveWait(c, from, to) ==
    /\ waiter[c] = from
    /\ waiter' = [waiter EXCEPT ![c] = to]

WaitFrame ==
    UNCHANGED <<linkVars, nextId, pending, rxBuffer, lockVars, pc, socketVars,
                callVars, guestVars>>

\* Seeded fault: the cmd.exit orphans are handed over before the cmd.data ones.
ExitFirst(c) == SelectSeq(orphans[c], LAMBDA n : n = LastFrame)
                \o SelectSeq(orphans[c], LAMBDA n : n # LastFrame)
\* The orphans of a command: its cmd.data frames and then its cmd.exit.
Orphans(c) == orphans[c]

\* Seeded fault: the frames are handed over but still counted.
StillCounted(c) == orphanCount
CountWithout(c) == orphanCount - Len(orphans[c])

\* Seeded fault: frames that beat the registration are left where they are.
NoFlush(c) == UNCHANGED <<inbox, orphans, orphanCount>>
Flush(c) ==
    /\ inbox' = [inbox EXCEPT ![c] = Orphans(c)]
    /\ orphans' = [orphans EXCEPT ![c] = <<>>]
    /\ orphanCount' = CountWithout(c)

\* Seeded fault: a handler is installed on a channel that is torn down.
AlwaysAlive == TRUE
Alive       == ~closed /\ wsOpen

\* start_command has its cmd.start reply: the handlers go in (not on a channel
\* torn down since), and the frames that beat them are handed over.
RegisterCommand(c) ==
    /\ c \in StartCalls /\ call[c] = "returned" /\ outcome[c] = "ok"
    /\ MoveWait(c, "none", "waiting")
    /\ handlers' = IF Alive THEN handlers \cup {c} ELSE handlers
    /\ Flush(c) /\ WaitFrame

ExitQueued(c) == \E i \in DOMAIN inbox[c] : inbox[c][i] = LastFrame
Unregister(c) == handlers' = handlers \ {c} /\ UNCHANGED <<orphans, orphanCount>>
Discard(c)    == inbox' = [inbox EXCEPT ![c] = <<>>]

\* The wait takes the exit frame, unregisters and returns the result.
WaitExit(c) ==
    /\ MoveWait(c, "waiting", "exited") /\ ExitQueued(c)
    /\ Unregister(c) /\ UNCHANGED inbox /\ WaitFrame

\* recv() yields None before an exit frame: "Control channel closed".
WaitClosed(c) ==
    /\ MoveWait(c, "waiting", "closed") /\ ~ExitQueued(c) /\ c \notin handlers
    /\ Discard(c) /\ UNCHANGED <<handlers, orphans, orphanCount>> /\ WaitFrame

\* The deadline elapses while recv() blocks; cmd.kill is sent and awaited with
\* the handlers still in place, then they go.
WaitDeadline(c) ==
    /\ MoveWait(c, "waiting", "killing") /\ ~ExitQueued(c) /\ c \in handlers
    /\ UNCHANGED <<handlers, orphans, orphanCount, inbox>> /\ WaitFrame

WaitKilled(c) ==
    /\ MoveWait(c, "killing", "expired")
    /\ Unregister(c) /\ Discard(c) /\ WaitFrame

\* The handle, or the run() holding it, is dropped: the handlers stay.
WaitDrop(c) ==
    /\ \E w \in {"waiting", "killing"} : MoveWait(c, w, "dropped")
    /\ Discard(c) /\ UNCHANGED <<handlers, orphans, orphanCount>> /\ WaitFrame

-----------------------------------------------------------------------------
ConnectStep(t) ==
    \/ Connect(t) \/ Reconnect(t) \/ ReconnectStore(t) \/ LeaveQueue(t)
    \/ Lock(t) \/ DialOk(t) \/ DialFail(t) \/ DialTimeout(t)
    \/ Install(t) \/ StoreFlag(t)

CloseStep(t) == CloseFlag(t) \/ CloseMark(t) \/ CloseFailAll(t)

SocketStep(s) ==
    \/ FeedLine(s) \/ FeedHead(s) \/ FeedTail(s)
    \/ ReaderEnd(s) \/ ReaderFailAll(s)
    \/ WriterSend(s) \/ WriterFail(s) \/ WriterStop(s)

CallStep(c) ==
    \/ CallPrepare(c) \/ CallSend(c) \/ CallSendFails(c) \/ CallReturn(c)
    \/ CallTimeout(c) \/ CallDrop(c)

WaitStep(c) ==
    \/ RegisterCommand(c) \/ WaitExit(c) \/ WaitClosed(c) \/ WaitDeadline(c)
    \/ WaitKilled(c) \/ WaitDrop(c)

Next ==
    \/ \E t \in Tasks : ConnectStep(t) \/ CloseStep(t)
    \/ \E s \in Sockets : SocketStep(s)
    \/ \E c \in Calls : CallStep(c) \/ WaitStep(c)

Spec == Init /\ [][Next]_vars

(***************************************************************************)
(* Fairness.  A spawned task that can run is scheduled, the async mutex is  *)
(* a fair queue, connect_async and every reply are bounded by a timeout,   *)
(* and code between two awaits runs to the next.  Of the network only that *)
(* a write to a socket succeeds or fails; nothing of the guest, nor that   *)
(* anybody closes or drops anything.                                       *)
(***************************************************************************)
Fairness ==
    /\ \A t \in Tasks :
          /\ WF_vars(ReconnectStore(t)) /\ SF_vars(Lock(t))
          /\ WF_vars(DialOk(t) \/ DialFail(t) \/ DialTimeout(t))
          /\ WF_vars(Install(t)) /\ WF_vars(StoreFlag(t))
          /\ WF_vars(CloseMark(t)) /\ WF_vars(CloseFailAll(t))
    /\ \A s \in Sockets :
          /\ WF_vars(ReaderFailAll(s))
          /\ WF_vars(WriterSend(s) \/ WriterFail(s)) /\ WF_vars(WriterStop(s))
    /\ \A c \in Calls :
          /\ WF_vars(CallSend(c) \/ CallSendFails(c))
          /\ WF_vars(CallReturn(c)) /\ WF_vars(CallTimeout(c))
          /\ WF_vars(WaitExit(c)) /\ WF_vars(WaitClosed(c))
          /\ WF_vars(WaitKilled(c))

FairSpec == Spec /\ Fairness

-----------------------------------------------------------------------------
(***************************************************************************)
(* Properties.                                                             *)
(***************************************************************************)

TaskStates == {"idle", "reconnect", "locking", "dialing", "install", "flag",
               "close", "closing"}

LinkType ==
    wsOpen \in BOOLEAN /\ closed \in BOOLEAN /\ writer \in Sockets \cup {None}

TableType ==
    /\ nextId \in Nat /\ pending \subseteq Calls /\ handlers \subseteq StartCalls
    /\ orphans \in [Calls -> Seq(Frames)] /\ orphanCount \in Int

LockType ==
    /\ openFlag \in BOOLEAN /\ connecting \in Tasks \cup {None}
    /\ attempt \in 0 .. MaxAttempts

SocketType ==
    /\ nSock \in 0 .. MaxSockets
    /\ reader \in [Sockets -> {"none", "reading", "ending", "done"}]
    /\ wtask \in [Sockets -> {"none", "running", "done"}]
    /\ outq \in [Sockets -> Seq(Calls)]

LineType ==
    /\ rxBuffer \in Lines \cup {Blank, Junk}
    /\ half \in [Sockets -> Lines \cup {Blank}]

Verdicts == {"ok", "error", "closed", "timeout", "dropped"}

CallType ==
    /\ call \in [Calls -> {"unused", "prepared", "waiting", "returned"}]
    /\ id \in [Calls -> Nat] /\ callSock \in [Calls -> Sockets \cup {None}]
    /\ outcome \in [Calls -> Verdicts \cup {"none"}]

GuestType ==
    /\ received \subseteq Calls /\ emitted \in [Calls -> 0 .. LastFrame]
    /\ answered \in [Calls -> {"none", "ok", "error"}]

WaitType ==
    /\ waiter \in [Calls -> {"none", "waiting", "killing", "exited", "closed",
                             "expired", "dropped"}]
    /\ inbox \in [Calls -> Seq(Frames)]

\* Type correctness of the whole state.
TypeOK ==
    /\ LinkType /\ TableType /\ LockType /\ SocketType /\ LineType
    /\ CallType /\ GuestType /\ WaitType /\ pc \in [Tasks -> TaskStates]

\* Nobody waits on a channel that is torn down: while the socket is not open,
\* every call in flight has its answer and no wait for a command blocks.  This
\* is what register_command's check, fail_all and call()'s refusal are for:
\* each closes a window in which a waiter could enter after the drain.
TornDownIsQuiet ==
    ~wsOpen => /\ \A c \in Calls : InFlight(c) => outcome[c] # "none"
               /\ \A c \in Calls : Listening(c) => c \notin handlers

\* The id on the wire names one call over the whole life of the channel, and a
\* call that has no answer yet can still be found by it: reconnecting neither
\* reuses an id nor loses an entry.
CallsAreResolvable ==
    \A c \in Calls :
       InFlight(c) /\ outcome[c] = "none" =>
          {p \in pending : id[p] = id[c]} = {c}

\* A call is told what the guest answered to that very call, although late
\* replies of an earlier socket are still being read after a reconnect.
OwnReply ==
    \A c \in Calls : outcome[c] \in {"ok", "error"} => answered[c] = outcome[c]

\* At most one task dials or installs a socket at a time: the lock is not lost
\* on a path of connect() that fails, times out or is dropped.
OneConnector ==
    \A t \in Tasks : pc[t] \in {"dialing", "install", "flag"} => connecting = t

\* connect() never opens a socket on a channel that connected() reports open,
\* whatever other connects, reconnects and closes run meanwhile.
DialsOnlyWhenClosed == [][nSock' # nSock => ~openFlag]_vars

\* A wait on the connection its command was started over gets every frame the
\* guest sent, in order, once, however the frames interleave with the reply
\* and the registration (while the orphan buffer has room, and lines are not
\* cut: a cut line is lost across a reconnect).
StreamIsWhole ==
    ~SplitFrames /\ Cardinality(StartCalls) * LastFrame <= MaxOrphans =>
       \A c \in StartCalls :
          waiter[c] = "waiting" /\ c \in handlers /\ writer = callSock[c] =>
             inbox[c] = [i \in 1 .. emitted[c] |-> i]

\* No wait ever sees a frame twice or before an earlier one, whatever was torn
\* down, reconnected or dropped for want of room in between.
StreamInOrder ==
    \A c \in StartCalls :
       \A i \in 1 .. Len(inbox[c]) - 1 : inbox[c][i] < inbox[c][i + 1]

\* The orphan buffer counts what it holds, so that its limit is the limit, and
\* holds nothing for a command that has its handlers: no frame is left behind
\* by a registration that runs beside the reader (register_command, dispatch).
OrphansAccounted ==
    /\ orphanCount = SumFunction([c \in Calls |-> Len(orphans[c])])
    /\ orphanCount <= MaxOrphans
    /\ \A c \in handlers : orphans[c] = <<>>

\* Everyone who calls connect() gets an answer.
ConnectReturns ==
    \A t \in Tasks : pc[t] \in {"reconnect", "locking"} ~> pc[t] = "idle"

\* Every call returns: by its reply, the tear-down or its own timeout.
CallsReturn ==
    \A c \in Calls : call[c] = "prepared" ~> call[c] = "returned"

\* A wait on a channel that goes down ends, even when the channel is opened
\* again before the waiter is scheduled.
WaitersWake ==
    \A c \in Calls :
       (waiter[c] = "waiting" /\ ~wsOpen) ~> waiter[c] # "waiting"

\* close() leaks no writer task: on a closed channel that nobody is opening,
\* every socket ever opened loses its last sender, and its writer ends.
CloseReleasesSockets ==
    (closed /\ \A t \in Tasks : pc[t] = "idle")
    ~> \/ \A s \in Sockets : wtask[s] # "running"
       \/ \E t \in Tasks : pc[t] # "idle"

-----------------------------------------------------------------------------
(***************************************************************************)
(* What comments of the code say and the code does not do: each is refuted *)
(* by a run of its own.                                                    *)
(***************************************************************************)

\* connected() is "Whether the control channel is open": when no task is in
\* the middle of opening or closing it, the atomic agrees with Inner.ws_open.
ConnectedMeansOpen ==
    (/\ \A t \in Tasks : pc[t] = "idle"
     /\ \A s \in Sockets : reader[s] # "ending")
    => (openFlag => wsOpen)

\* "On close, every in-flight RPC call [...] is woken with an error": no call
\* waits for a reply over a socket whose reader has come to its end.
SocketEndWakesCalls ==
    \A c \in Calls :
       InFlight(c) /\ outcome[c] = "none" => reader[callSock[c]] # "done"

\* "... AND every in-flight stream wait": no wait for a command blocks once the
\* reader of the command's socket has come to its end.
SocketEndWakesWaits ==
    \A c \in Calls :
       waiter[c] = "waiting" /\ c \in handlers => reader[callSock[c]] # "done"

\* A "JSON-RPC reply [...] resolves call `id`": what the guest answered over
\* the call's own socket, and the reader read, is not lost.
RepliesResolve ==
    \A c \in Calls : InFlight(c) /\ answered[c] # "none" => outcome[c] # "none"

-----------------------------------------------------------------------------
(***************************************************************************)
(* The channel keeps ChannelPromise: a call is in flight until its oneshot *)
(* is resolved, and a wait blocks while its handler is in the table.       *)
(***************************************************************************)
Verdict(c) ==
    IF call[c] = "unused" THEN "unused"
    ELSE IF outcome[c] = "none" THEN "inflight" ELSE outcome[c]

Wait(c) ==
    IF Listening(c) THEN IF c \in handlers THEN "blocked" ELSE "woken"
    ELSE waiter[c]

Promise == INSTANCE ChannelPromise WITH
    up <- wsOpen,
    verdict <- [c \in Calls |-> Verdict(c)],
    wait <- [c \in Calls |-> Wait(c)]

\* Every behaviour of the code is one of the abstract channel: tear-down wakes
\* all callers in one step, although it races calls that are being entered and
\* commands that are being registered, and every caller gets one verdict.
KeepsPromise == Promise!Spec

=============================================================================
