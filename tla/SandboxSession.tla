---------------------------- MODULE SandboxSession ----------------------------
(***************************************************************************)
(* A Sandbox handle and the session behind it (client.rs): create, attach,  *)
(* pause, resume, start, kill and close, and which slot the handle's       *)
(* control channel speaks to.                                              *)
(*                                                                         *)
(* The tasks of a program share one handle.  Most operations borrow it     *)
(* (&self) and overlap; resume and start take it for themselves (&mut      *)
(* self).  A request is done at most once and its answer may be lost, as   *)
(* HttpTransport has it.  The channel is taken as ChannelPromise has it,   *)
(* with the slot it was dialled at.  The gateway is external: a sandbox    *)
(* that comes back does so on the next slot, and a socket to an older one  *)
(* is dead, which the client may notice at any later time.                 *)
(***************************************************************************)
EXTENDS Integers

CONSTANTS
    Tasks,       \* who uses the handle
    MaxSlots     \* bound: slots the sandbox is ever given

ASSUME SlotsAssumption == MaxSlots \in Nat

VARIABLES
    box, slot,       \* the sandbox at the gateway, the slot it was last given
    owned,           \* whether the program has a handle
    url,             \* its control_url: a slot, or Derived
    chan,            \* the slot its channel is connected to, or Down
    step, doing,     \* where each task is, and in which operation
    answer,          \* the slot its request was answered about
    target, socket,  \* the URL it dials, the slot of the socket it opened
    held,            \* history: closed in good order, and no connect since
    told             \* history: the slot the last resume or start returned Ok
                     \* about, 0 while none has since it was asked

cloud       == <<box, slot>>
handle      == <<owned, url, chan, held>>
taskVars    == <<step, doing, answer, target, socket>>
sessionVars == <<cloud, handle, taskVars, told>>

Down    == 0
Derived == 0     \* "<ws origin>/control/<id>", which the gateway routes by id

Lent    == {"pause", "kill"}         \* &self
Taking  == {"resume", "start"}       \* &mut self
Making  == {"create", "attach"}      \* of Client: there is no handle yet
Dialing == {"dialing", "opened"}

SessionInit ==
    /\ box = "none" /\ slot = 0
    /\ owned = FALSE /\ url = Derived /\ chan = Down
    /\ held = TRUE /\ told = 0
    /\ step = [t \in Tasks |-> "idle"] /\ doing = [t \in Tasks |-> "none"]
    /\ answer = [t \in Tasks |-> 0]
    /\ target = [t \in Tasks |-> Derived] /\ socket = [t \in Tasks |-> Down]

-----------------------------------------------------------------------------
(***************************************************************************)
(* The gateway (external).                                                 *)
(***************************************************************************)

ComesBack ==
    /\ slot < MaxSlots
    /\ slot' = slot + 1 /\ box' = "running"

\* What a request does where it is granted.  A start is also granted, and does
\* nothing, where the sandbox runs.
Granted(op) ==
    \/ /\ op = "create" /\ box = "none" /\ ComesBack
    \/ /\ op = "attach" /\ box # "none" /\ UNCHANGED <<box, slot>>
    \/ /\ op = "pause" /\ box = "running"
       /\ box' = "paused" /\ UNCHANGED slot
    \/ /\ op = "resume" /\ box = "paused" /\ ComesBack
    \/ /\ op = "start" /\ box = "stopped" /\ ComesBack
    \/ /\ op = "start" /\ box = "running" /\ UNCHANGED <<box, slot>>
    \/ /\ op = "kill" /\ box # "none"
       /\ box' = "gone" /\ UNCHANGED slot

Serve(t) ==
    /\ step[t] = "asking" /\ Granted(doing[t])
    /\ step' = [step EXCEPT ![t] = "answered"]
    /\ answer' = [answer EXCEPT ![t] = slot']
    /\ UNCHANGED <<handle, doing, target, socket, told>>

\* What others do with the same id: the operations of Client that take one,
\* other handles, the gateway's own timeouts, and requests of this handle that
\* arrive after they were given up.  The guest may power itself off.
Elsewhere ==
    /\ box # "none"
    /\ \/ \E op \in Lent \cup Taking : Granted(op)
       \/ /\ box = "running" /\ box' = "stopped" /\ UNCHANGED slot
    /\ UNCHANGED <<handle, taskVars, told>>

-----------------------------------------------------------------------------
(***************************************************************************)
(* The operations of a task.                                               *)
(***************************************************************************)

\* The borrow checker: &self beside &self, and &mut self alone.  Seeded fault:
\* resume and start borrow the handle like the others.
NobodyTakes  == \A t \in Tasks : step[t] = "idle" \/ doing[t] \notin Taking
NobodyElse   == \A t \in Tasks : step[t] = "idle"
SharedBorrow(op) ==
    IF op \in Making THEN ~owned /\ NobodyElse ELSE owned
Borrows(op) ==
    /\ op \in Making \cup Taking => NobodyElse
    /\ op \notin Making \cup Taking => NobodyTakes
    /\ owned = (op \notin Making)

\* The request of an operation is sent.
Ask(t, op) ==
    /\ step[t] = "idle" /\ Borrows(op)
    /\ step' = [step EXCEPT ![t] = "asking"]
    /\ doing' = [doing EXCEPT ![t] = op]
    /\ told' = IF op \in Taking THEN 0 ELSE told
    /\ UNCHANGED <<cloud, handle, answer, target, socket>>

\* Back at the caller, with nothing left of the operation.
Leave(t) ==
    /\ step' = [step EXCEPT ![t] = "idle"]
    /\ doing' = [doing EXCEPT ![t] = "none"]
    /\ answer' = [answer EXCEPT ![t] = 0]
    /\ target' = [target EXCEPT ![t] = Derived]
    /\ socket' = [socket EXCEPT ![t] = Down]

\* Seeded fault: without request_timeout, only a refusal ends a request.
OnlyWhenRefused(t) == box \in {"none", "gone"}
GivesUp(t)         == TRUE

\* Refused, timed out, or its answer lost: whatever the gateway did, the handle
\* is left as it was.
Fails(t) ==
    /\ step[t] \in {"asking", "answered"} /\ GivesUp(t)
    /\ Leave(t) /\ UNCHANGED <<cloud, handle, told>>

\* The caller drops the future; dropping a dial drops its socket.
DropFuture(t) ==
    /\ step[t] \in {"asking", "answered", "dialing"}
    /\ Leave(t) /\ UNCHANGED <<cloud, handle, told>>

\* from_response.  A blank id, or a body that is no session, makes no handle:
\* the session that was created is then nobody's.
Make(t) ==
    /\ step[t] = "answered" /\ doing[t] \in Making
    /\ \/ owned' = TRUE /\ url' \in {answer[t], Derived}
       \/ UNCHANGED <<owned, url>>
    /\ Leave(t) /\ UNCHANGED <<cloud, chan, held, told>>

\* ControlChannel::close.  A dial in progress is not stopped by it.
NoDial == \A t \in Tasks : step[t] \notin Dialing
Shut   == chan' = Down /\ held' = (held \/ NoDial)

\* Seeded fault: the remote call alone, and no close.
LeaveOpen  == UNCHANGED chan /\ held' = (held \/ NoDial)
CloseAfter == Shut

\* pause() and kill(): the remote call first, then the local close.
PauseReturns(t) ==
    /\ step[t] = "answered" /\ doing[t] \in Lent
    /\ CloseAfter /\ Leave(t) /\ UNCHANGED <<cloud, owned, url, told>>

Close ==
    /\ owned /\ NobodyTakes /\ Shut
    /\ UNCHANGED <<cloud, owned, url, taskVars, told>>

\* The last reference goes, and Drop closes the channel.
Discard ==
    /\ owned /\ NobodyElse
    /\ owned' = FALSE /\ url' = Derived /\ chan' = Down /\ held' = TRUE
    /\ UNCHANGED <<cloud, taskVars, told>>

\* connect_once reads the URL anew.
Dial(t, u) ==
    /\ step' = [step EXCEPT ![t] = "dialing"]
    /\ target' = [target EXCEPT ![t] = u]

\* connect(), by a caller or as the first step of a namespace's call.  It
\* returns at once on an open channel and waits while another task dials.
Connect(t) ==
    /\ step[t] = "idle" /\ owned /\ NobodyTakes
    /\ chan = Down /\ NoDial
    /\ Dial(t, url) /\ doing' = [doing EXCEPT ![t] = "connect"]
    /\ held' = FALSE
    /\ UNCHANGED <<cloud, owned, url, chan, answer, socket, told>>

\* resume() and start(): adopt the URL of the answer, or derive it, and
\* reconnect, which returns at once on a channel that says it is open.
Adopt(t) ==
    /\ step[t] = "answered" /\ doing[t] \in Taking
    /\ url' \in {answer[t], Derived}
    /\ IF chan # Down THEN Leave(t) /\ told' = answer[t]
       ELSE Dial(t, url') /\ UNCHANGED <<doing, answer, socket, told>>
    /\ UNCHANGED <<cloud, owned, chan, held>>

\* The upgrade succeeds where the sandbox is.
DialOpens(t) ==
    /\ step[t] = "dialing" /\ box = "running" /\ target[t] \in {slot, Derived}
    /\ step' = [step EXCEPT ![t] = "opened"]
    /\ socket' = [socket EXCEPT ![t] = slot]
    /\ UNCHANGED <<cloud, handle, doing, answer, target, told>>

DialFails(t) ==
    /\ step[t] = "dialing"
    /\ Leave(t) /\ UNCHANGED <<cloud, handle, told>>

\* The install of connect_once, whatever close() did since the dial began.
Install(t) ==
    /\ step[t] = "opened"
    /\ chan' = socket[t] /\ held' = FALSE
    /\ told' = IF doing[t] \in Taking THEN answer[t] ELSE told
    /\ Leave(t) /\ UNCHANGED <<cloud, owned, url>>

\* The reader finds the socket ended.
SocketEnds ==
    /\ chan # Down /\ chan' = Down
    /\ UNCHANGED <<cloud, owned, url, held, taskVars, told>>

-----------------------------------------------------------------------------
RequestStep(t) ==
    \/ \E op \in Making \cup Lent \cup Taking : Ask(t, op)
    \/ Serve(t) \/ Fails(t) \/ DropFuture(t)
    \/ Make(t) \/ PauseReturns(t) \/ Adopt(t)

DialStep(t) == Connect(t) \/ DialOpens(t) \/ DialFails(t) \/ Install(t)

SessionNext ==
    \/ \E t \in Tasks : RequestStep(t) \/ DialStep(t)
    \/ Elsewhere \/ Close \/ Discard \/ SocketEnds

SessionSpec == SessionInit /\ [][SessionNext]_sessionVars

\* send() is bounded by request_timeout, a dial by CONNECT_TIMEOUT_MS.
SessionFairness ==
    \A t \in Tasks :
       /\ WF_sessionVars(Fails(t) \/ Make(t) \/ PauseReturns(t) \/ Adopt(t))
       /\ WF_sessionVars(DialFails(t)) /\ WF_sessionVars(Install(t))

-----------------------------------------------------------------------------
(***************************************************************************)
(* Properties.                                                             *)
(***************************************************************************)

\* Types.
SessionTypeOK ==
    /\ box \in {"none", "running", "paused", "stopped", "gone"}
    /\ slot \in 0 .. MaxSlots
    /\ owned \in BOOLEAN /\ held \in BOOLEAN
    /\ url \in 0 .. MaxSlots /\ chan \in 0 .. MaxSlots
    /\ step \in [Tasks -> {"idle", "asking", "answered"} \cup Dialing]
    /\ doing \in [Tasks ->
                    {"none", "connect"} \cup Making \cup Lent \cup Taking]
    /\ answer \in [Tasks -> 0 .. MaxSlots]
    /\ target \in [Tasks -> 0 .. MaxSlots] /\ told \in 0 .. MaxSlots
    /\ socket \in [Tasks -> 0 .. MaxSlots]

\* "The session comes back on a FRESH slot, so its pre-pause control URL is
\* stale": when resume() or start() returns Ok, the channel speaks to the slot
\* they were answered about, or a later one.
ResumedIsFresh ==
    [][told = 0 /\ told' # 0 => chan' >= told']_sessionVars

\* It does whenever the handle was closed in good order: by a pause(), kill() or
\* close() that met no connect in progress, with none begun since.
OrderlyResumeIsFresh ==
    [][held /\ told = 0 /\ told' # 0 => chan' >= told']_sessionVars

\* What resume() and start() need &mut self for: no dial to the URL they replace
\* is under way when they replace it, so that none is ever installed after it.
NoStaleDial == \A t \in Tasks : step[t] \in Dialing => target[t] = url

\* And the answers of two of them are never adopted in the wrong order: the
\* control URL of a handle does not go back to an older slot.
UrlNeverGoesBack ==
    [][owned /\ owned' /\ url # Derived /\ url' # Derived =>
          url' >= url]_sessionVars

\* Every operation comes back to its caller.
SessionReturns ==
    \A t \in Tasks : step[t] # "idle" ~> step[t] = "idle"

=============================================================================
