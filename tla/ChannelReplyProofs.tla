------------------------- MODULE ChannelReplyProofs -------------------------
(***************************************************************************)
(* Proofs about ControlChannel: the connect lock, the ids on the wire and  *)
(* the replies they route; and that a channel is a ChannelPromise.         *)
(***************************************************************************)
EXTENDS ControlChannelProofs

(***************************************************************************)
(* The connect lock.  Whoever is past the second check holds the lock, and *)
(* the flag stays clear until the holder itself sets it.                   *)
(***************************************************************************)
Holding(t) == pc[t] \in {"dialing", "install", "flag"}

LockInv == \A t \in Tasks : Holding(t) => connecting = t /\ ~openFlag

LEMMA LockImplied == LockInv => OneConnector
  BY DEF LockInv, Holding, OneConnector

LEMMA LockFrame ==
    ASSUME LockInv, UNCHANGED <<pc, connecting>>, openFlag' => openFlag
    PROVE  LockInv'
  BY DEF LockInv, Holding

\* A task that is not past the check may go anywhere else, and clear the flag.
LEMMA LockBystander ==
    ASSUME TypeOK, LockInv, UNCHANGED connecting, openFlag' => openFlag,
           NEW t \in Tasks, NEW from, NEW to \in TaskStates, Move(t, from, to),
           to \in {"dialing", "install", "flag"} =>
              from \in {"dialing", "install", "flag"}
    PROVE  LockInv'
  BY DEF TypeOK, LockInv, Holding, Move

LEMMA LockRelease ==
    ASSUME TypeOK, LockInv, NEW t \in Tasks, NEW from \in {"dialing", "flag"},
           GiveUp(t, from)
    PROVE  LockInv'
  <1>1. Holding(t) /\ connecting = t
    BY DEF GiveUp, Move, LockInv, Holding
  <1>2. \A u \in Tasks : Holding(u) => u = t
    BY <1>1 DEF LockInv
  <1>3. \A u \in Tasks : ~Holding(u)'
    BY <1>2 DEF GiveUp, Move, Holding, TypeOK
  <1> QED
    BY <1>3 DEF LockInv

LEMMA NextLock == TypeOK /\ LockInv /\ [Next]_vars => LockInv'
  <1> SUFFICES ASSUME TypeOK, LockInv, [Next]_vars
               PROVE  LockInv'
    OBVIOUS
  <1>1. ASSUME NEW t \in Tasks, ConnectStep(t)
        PROVE  LockInv'
    <2>1. CASE Connect(t) \/ Reconnect(t) \/ ReconnectStore(t) \/ LeaveQueue(t)
      BY <2>1, LockBystander
      DEF Connect, Reconnect, ReconnectStore, LeaveQueue, lockVars, TaskStates
    <2>2. CASE Lock(t) /\ MayDial
      <3>1. connecting = None /\ connecting' = t /\ ~openFlag'
        BY <2>2 DEF Lock, MayDial, LockFree
      <3>2. \A u \in Tasks : ~Holding(u)
        BY <3>1, ShapeAssumption DEF LockInv
      <3>3. \A u \in Tasks : Holding(u)' => u = t
        BY <2>2, <3>2 DEF Lock, Move, Holding, TypeOK
      <3> QED
        BY <3>1, <3>3 DEF LockInv
    <2>3. CASE Lock(t) /\ ~MayDial
      BY <2>3, LockBystander DEF Lock, lockVars, TaskStates
    <2>4. CASE DialOk(t) \/ Install(t)
      BY <2>4, LockBystander DEF DialOk, Install, lockVars, TaskStates
    <2>5. CASE DialFail(t) /\ MayRetry
      BY <2>5, LockFrame DEF DialFail
    <2>6. CASE (DialFail(t) /\ ~MayRetry) \/ DialTimeout(t) \/ StoreFlag(t)
      BY <2>6, LockRelease DEF DialFail, DialTimeout, StoreFlag
    <2> QED
      BY <1>1, <2>1, <2>2, <2>3, <2>4, <2>5, <2>6 DEF ConnectStep
  <1>2. ASSUME NEW t \in Tasks, CloseStep(t)
        PROVE  LockInv'
    BY <1>2, LockBystander
    DEF CloseStep, CloseFlag, CloseMark, CloseFailAll, lockVars, TaskStates
  <1>3. ASSUME NEW s \in Sockets, SocketStep(s)
        PROVE  LockInv'
    <2>1. UNCHANGED <<pc, connecting>> /\ (openFlag' => openFlag)
      BY <1>3
      DEF SocketStep, FeedLine, FeedHead, FeedTail, EndOfLine, ReaderEnd,
          ReaderFailAll, WriterSend, WriterFail, WriterStop, WriterFrame,
          lockVars
    <2> QED
      BY <2>1, LockFrame
  <1>4. ASSUME NEW c \in Calls, CallStep(c) \/ WaitStep(c)
        PROVE  LockInv'
    <2>1. UNCHANGED <<pc, lockVars>>
      BY <1>4
      DEF CallStep, CallPrepare, CallSend, CallSendFails, CallReturn,
          CallTimeout, CallDrop, Withdraw, CallFrame, WaitStep,
          RegisterCommand, WaitExit, WaitClosed, WaitDeadline, WaitKilled,
          WaitDrop, WaitFrame
    <2> QED
      BY <2>1, LockFrame DEF lockVars
  <1>5. CASE UNCHANGED vars
    BY <1>5, LockFrame DEF vars, lockVars
  <1> QED
    BY <1>1, <1>2, <1>3, <1>4, <1>5 DEF Next

LEMMA Locking == Spec => []LockInv
  <1>1. Init => LockInv
    BY DEF Init, LockInv, Holding
  <1> QED
    BY <1>1, TypeCorrect, NextLock, PTL DEF Spec

\* No two tasks are between the second check and the end of connect().
THEOREM ConnectorIsAlone == Spec => []OneConnector
  BY Locking, LockImplied, PTL

\* A socket is opened only while connected() reports the channel closed.
THEOREM DialsWhenClosed == Spec => DialsOnlyWhenClosed
  <1>1. TypeOK /\ LockInv /\ [Next]_vars => [nSock' # nSock => ~openFlag]_vars
    <2> SUFFICES ASSUME LockInv, Next, nSock' # nSock
                 PROVE  ~openFlag
      OBVIOUS
    <2>1. PICK t \in Tasks : DialOk(t)
      BY DEF Next, ConnectStep, Connect, Reconnect, ReconnectStore, LeaveQueue,
             Lock, DialFail, DialTimeout, Install, StoreFlag, TaskFrame,
             CloseStep, CloseFlag, CloseMark, CloseFailAll, SocketStep,
             FeedLine, FeedHead, FeedTail, EndOfLine, ReaderEnd, ReaderFailAll,
             WriterSend, WriterFail, WriterStop, WriterFrame, CallStep,
             CallPrepare, CallSend, CallSendFails, CallReturn, CallTimeout,
             CallDrop, Withdraw, CallFrame, WaitStep, RegisterCommand,
             WaitExit, WaitClosed, WaitDeadline, WaitKilled, WaitDrop,
             WaitFrame, socketVars
    <2> QED
      BY <2>1 DEF DialOk, Move, LockInv, Holding
  <1> QED
    BY <1>1, TypeCorrect, Locking, PTL DEF Spec, DialsOnlyWhenClosed

-----------------------------------------------------------------------------
(***************************************************************************)
(* Ids.  An id is taken once, from a counter that survives reconnects, and *)
(* only calls that took one are in the pending table.                      *)
(***************************************************************************)
Used(c) == call[c] # "unused"

IdInv ==
    /\ \A c \in pending : Used(c)
    /\ \A c \in Calls : Used(c) => id[c] < nextId
    /\ \A c, d \in Calls : Used(c) /\ Used(d) /\ id[c] = id[d] => c = d

LEMMA IdFrame ==
    ASSUME TypeOK, IdInv, UNCHANGED <<nextId, id>>, pending' \subseteq pending,
           \A c \in Calls : Used(c)' <=> Used(c)
    PROVE  IdInv'
  BY DEF IdInv, TypeOK, TableType

\* Only CallPrepare takes an id, and no step gives one back.
LEMMA IdQuietStep ==
    ASSUME TypeOK, [Next]_vars, \A c \in Calls : ~CallPrepare(c)
    PROVE  /\ UNCHANGED <<nextId, id, callSock>> /\ pending' \subseteq pending
           /\ \A c \in Calls : Used(c)' <=> Used(c)
  <1>1. ASSUME NEW t \in Tasks, ConnectStep(t) \/ CloseFlag(t) \/ CloseMark(t)
        PROVE  UNCHANGED <<tableVars, callVars>>
    BY <1>1
    DEF ConnectStep, Connect, Reconnect, ReconnectStore, LeaveQueue, Lock,
        DialOk, DialFail, DialTimeout, Install, StoreFlag, TaskFrame,
        CloseFlag, CloseMark, innerVars
  <1>2. ASSUME FailAll
        PROVE  UNCHANGED <<nextId, call, id, callSock>> /\ pending' = {}
    BY <1>2 DEF FailAll
  <1>3. ASSUME NEW s \in Sockets, NEW m, EndOfLine(s, m)
        PROVE  UNCHANGED <<nextId, call, id, callSock>> /\ pending' \subseteq pending
    BY <1>3 DEF EndOfLine, Dispatch, DispatchFrame, DispatchReply
  <1>4. ASSUME NEW s \in Sockets, SocketStep(s)
        PROVE  UNCHANGED <<nextId, call, id, callSock>> /\ pending' \subseteq pending
    <2>1. CASE FeedLine(s) \/ FeedTail(s)
      BY <1>3, <2>1 DEF FeedLine, FeedTail
    <2>2. CASE ReaderFailAll(s)
      BY <1>2, <2>2 DEF ReaderFailAll
    <2>3. CASE \/ FeedHead(s) \/ ReaderEnd(s) \/ WriterSend(s) \/ WriterFail(s)
               \/ WriterStop(s)
      BY <2>3
      DEF FeedHead, ReaderEnd, WriterSend, WriterFail, WriterStop, WriterFrame,
          innerVars, tableVars, callVars
    <2> QED
      BY <1>4, <2>1, <2>2, <2>3 DEF SocketStep
  <1>5. ASSUME NEW c \in Calls, CallStep(c)
        PROVE  /\ UNCHANGED <<nextId, id, callSock>> /\ pending' \subseteq pending
               /\ \A d \in Calls : Used(d)' <=> Used(d)
    <2>1. UNCHANGED <<nextId, id, callSock>> /\ pending' \subseteq pending
      BY <1>5
      DEF CallStep, CallSend, CallSendFails, CallReturn, CallTimeout, CallDrop,
          Withdraw
    <2>2. \E from \in {"prepared", "waiting"}, to \in {"waiting", "returned"} :
             Advance(c, from, to)
      BY <1>5
      DEF CallStep, CallSend, CallSendFails, CallReturn, CallTimeout, CallDrop
    <2> QED
      BY <2>1, <2>2 DEF Advance, Used, TypeOK, CallType
  <1>6. ASSUME NEW c \in Calls, WaitStep(c)
        PROVE  UNCHANGED <<nextId, pending, callVars>>
    BY <1>6
    DEF WaitStep, RegisterCommand, WaitExit, WaitClosed, WaitDeadline,
        WaitKilled, WaitDrop, WaitFrame
  <1>7. CASE \E t \in Tasks : ConnectStep(t) \/ CloseFlag(t) \/ CloseMark(t)
    BY <1>1, <1>7 DEF tableVars, callVars, Used
  <1>8. CASE \E t \in Tasks : CloseFailAll(t)
    BY <1>2, <1>8 DEF CloseFailAll, Used
  <1>9. CASE \E c \in Calls : WaitStep(c)
    BY <1>6, <1>9 DEF callVars, Used
  <1>10. CASE UNCHANGED vars
    BY <1>10 DEF vars, innerVars, tableVars, callVars, Used
  <1>11. CASE \E s \in Sockets : SocketStep(s)
    BY <1>4, <1>11 DEF Used
  <1> QED
    BY <1>5, <1>7, <1>8, <1>9, <1>10, <1>11 DEF Next, CloseStep

LEMMA NextIds == TypeOK /\ IdInv /\ [Next]_vars => IdInv'
  <1> SUFFICES ASSUME TypeOK, IdInv, [Next]_vars
               PROVE  IdInv'
    OBVIOUS
  <1>1. CASE \A c \in Calls : ~CallPrepare(c)
    BY <1>1, IdFrame, IdQuietStep
  <1>2. ASSUME NEW c \in Calls, CallPrepare(c)
        PROVE  IdInv'
    <2>1. /\ id' = [id EXCEPT ![c] = nextId] /\ nextId' = nextId + 1
          /\ pending' = pending \cup {c} /\ ~Used(c)
      BY <1>2 DEF CallPrepare, NextId, Advance, Used
    <2>2. \A d \in Calls : Used(d)' <=> Used(d) \/ d = c
      BY <1>2 DEF CallPrepare, Advance, Used, TypeOK, CallType
    <2>3. \A d \in Calls : id'[d] = IF d = c THEN nextId ELSE id[d]
      BY <2>1 DEF TypeOK, CallType
    <2>4. nextId \in Nat /\ \A d \in Calls : id[d] \in Nat
      BY DEF TypeOK, TableType, CallType
    <2>5. \A d \in pending' : Used(d)'
      BY <2>1, <2>2 DEF IdInv, TypeOK, TableType
    <2>6. \A d \in Calls : Used(d)' => id'[d] < nextId'
      BY <2>1, <2>2, <2>3, <2>4 DEF IdInv
    <2>7. \A d, e \in Calls : Used(d)' /\ Used(e)' /\ id'[d] = id'[e] => d = e
      BY <2>2, <2>3, <2>4 DEF IdInv
    <2> QED
      BY <2>5, <2>6, <2>7 DEF IdInv
  <1> QED
    BY <1>1, <1>2

LEMMA Ids == Spec => [](TypeInv /\ QuietInv /\ IdInv)
  <1>1. Init => IdInv
    BY DEF Init, IdInv, Used
  <1>2. TypeInv => TypeOK
    BY DEF TypeInv
  <1> QED
    BY <1>1, <1>2, Typing, InitQuiet, NextQuiet, NextIds, PTL DEF Spec

\* A call without a verdict is found by its id, and nothing else is.
THEOREM CallsResolvable == Spec => []CallsAreResolvable
  <1>1. TypeInv /\ QuietInv /\ IdInv => CallsAreResolvable
    BY DEF TypeInv, TypeOK, TableType, QuietInv, IdInv, Used, InFlight,
           CallsAreResolvable
  <1> QED
    BY <1>1, Ids, PTL

-----------------------------------------------------------------------------
(***************************************************************************)
(* Replies.  What the guest can speak of are calls that were made; a line  *)
(* it has begun is about a call of that socket which it has not answered.  *)
(***************************************************************************)
HalfInv(s) ==
    half[s] # Blank =>
       /\ half[s].call \in received /\ callSock[half[s].call] = s
       /\ half[s].kind # "frame" => answered[half[s].call] = "none"

QueueInv(s) == \A i \in 1 .. Len(outq[s]) : Used(outq[s][i])

ReplyInv ==
    /\ \A s \in Sockets : QueueInv(s)
    /\ \A c \in received : Used(c)
    /\ \A s \in Sockets : HalfInv(s)
    /\ OwnReply

\* Steps that speak to nobody and tell nobody an answer.
LEMMA ReplyFrame ==
    ASSUME TypeOK, ReplyInv, UNCHANGED <<outq, received, half, answered>>,
           \A c \in Calls : Used(c) => Used(c)' /\ callSock'[c] = callSock[c],
           \A c \in Calls : outcome'[c] \in {"ok", "error"} =>
                               outcome'[c] = outcome[c]
    PROVE  ReplyInv'
  <1>1. \A s \in Sockets : \A i \in 1 .. Len(outq[s]) : outq[s][i] \in Calls
    BY DEF TypeOK, SocketType
  <1>2. \A s \in Sockets : QueueInv(s)'
    BY <1>1 DEF ReplyInv, QueueInv
  <1>3. \A c \in received' : Used(c)' /\ callSock'[c] = callSock[c]
    BY DEF ReplyInv, TypeOK, GuestType
  <1>4. \A s \in Sockets : HalfInv(s)'
    BY <1>3 DEF ReplyInv, HalfInv
  <1>5. OwnReply'
    BY DEF ReplyInv, OwnReply
  <1> QED
    BY <1>2, <1>3, <1>4, <1>5 DEF ReplyInv

\* The end of a line: the only step that gives a call an answer.
LEMMA EndOfLineReply ==
    ASSUME TypeInv, IdInv, ReplyInv, NEW s \in Sockets, NEW m \in Lines,
           EndOfLine(s, m), m.call \in received, callSock[m.call] = s,
           m.kind # "frame" => answered[m.call] = "none"
    PROVE  ReplyInv'
  <1>0. TypeOK
    BY DEF TypeInv
  <1>1. UNCHANGED <<outq, received, call, id, callSock>>
    BY DEF EndOfLine, GuestSays
  <1>2. half' = [half EXCEPT ![s] = Blank]
    BY DEF EndOfLine
  <1>3. m.call \in Calls /\ Used(m.call)
    BY <1>0 DEF ReplyInv, TypeOK, GuestType
  <1>4. ASSUME NEW r \in Sockets, half'[r] # Blank
        PROVE  HalfInv(r)'
    <2>1. r # s /\ half'[r] = half[r]
      BY <1>0, <1>2, <1>4 DEF TypeOK, LineType
    <2>2. half[r].call \in received /\ callSock[half[r].call] = r
      BY <1>4, <2>1 DEF ReplyInv, HalfInv
    <2>3. answered'[half[r].call] = answered[half[r].call]
      BY <1>0, <2>1, <2>2 DEF EndOfLine, GuestSays, TypeOK, GuestType
    <2> QED
      BY <1>1, <1>4, <2>1, <2>2, <2>3 DEF ReplyInv, HalfInv
  <1>5. ASSUME NEW c \in Calls, outcome'[c] \in {"ok", "error"}
        PROVE  answered'[c] = outcome'[c]
    <2>1. CASE outcome'[c] = outcome[c]
      <3>1. answered[c] = outcome[c]
        BY <1>5, <2>1 DEF ReplyInv, OwnReply
      <3>2. c = m.call => m.kind = "frame"
        BY <1>5, <2>1, <3>1
      <3>3. answered'[c] = answered[c]
        BY <1>0, <3>2 DEF EndOfLine, GuestSays, TypeOK, GuestType
      <3> QED
        BY <2>1, <3>1, <3>3
    <2>2. CASE outcome'[c] # outcome[c]
      <3>1. m.kind # "frame" /\ DispatchReply(m)
        BY <1>0, <2>2 DEF EndOfLine, Dispatch, DispatchFrame
      <3>2. c \in pending /\ id[c] = id[m.call] /\ outcome'[c] = m.kind
        BY <2>2, <3>1 DEF DispatchReply, Resolve
      <3>3. c = m.call
        BY <1>3, <3>2 DEF IdInv
      <3> QED
        BY <1>0, <1>3, <3>1, <3>2, <3>3 DEF EndOfLine, GuestSays, TypeOK, GuestType
    <2> QED
      BY <2>1, <2>2
  <1>6. \A c \in Calls : Used(c)' <=> Used(c)
    BY <1>1 DEF Used
  <1>7. \A r \in Sockets : QueueInv(r)'
    BY <1>1 DEF ReplyInv, QueueInv, Used
  <1>8. \A c \in received' : Used(c)'
    BY <1>1 DEF ReplyInv, Used
  <1>9. \A r \in Sockets : HalfInv(r)'
    BY <1>4 DEF HalfInv
  <1> QED
    BY <1>5, <1>7, <1>8, <1>9 DEF ReplyInv, OwnReply

LEMMA SocketStepReply ==
    ASSUME TypeInv, IdInv, ReplyInv, NEW s \in Sockets, SocketStep(s)
    PROVE  ReplyInv'
  <1>0. TypeOK
    BY DEF TypeInv
  <1>1. CASE FeedLine(s)
    BY <1>1, EndOfLineReply DEF FeedLine, Sayable
  <1>2. CASE FeedTail(s)
    <2>1. half[s] \in Lines /\ HalfInv(s)
      BY <1>0, <1>2 DEF FeedTail, TypeOK, LineType, ReplyInv
    <2> QED
      BY <1>2, <2>1, EndOfLineReply DEF FeedTail, HalfInv
  <1>3. ASSUME UNCHANGED <<outq, received, answered, callVars>>,
               \A r \in Sockets : HalfInv(r)'
        PROVE  ReplyInv'
    BY <1>3 DEF ReplyInv, QueueInv, OwnReply, Used, callVars
  <1>4. CASE FeedHead(s)
    <2>1. PICK m \in Sayable(s) : half' = [half EXCEPT ![s] = m]
      BY <1>4 DEF FeedHead
    <2>2. UNCHANGED <<outq, received, answered, callVars>>
      BY <1>4 DEF FeedHead, guestVars
    <2>3. ASSUME NEW r \in Sockets PROVE HalfInv(r)'
      <3>1. half'[r] = IF r = s THEN m ELSE half[r]
        BY <1>0, <2>1 DEF TypeOK, LineType
      <3>2. r = s => HalfInv(r)'
        BY <2>1, <2>2, <3>1 DEF HalfInv, Sayable, callVars
      <3>3. r # s => HalfInv(r)'
        BY <2>2, <3>1 DEF HalfInv, ReplyInv, callVars
      <3> QED
        BY <3>2, <3>3
    <2> QED
      BY <1>3, <2>2, <2>3
  <1>5. CASE ReaderEnd(s)
    <2>1. UNCHANGED <<outq, received, answered, callVars>>
          /\ half' = [half EXCEPT ![s] = Blank]
      BY <1>5 DEF ReaderEnd, guestVars
    <2>2. \A r \in Sockets : half'[r] = Blank \/ half'[r] = half[r]
      BY <1>0, <2>1 DEF TypeOK, LineType
    <2>3. \A r \in Sockets : HalfInv(r)'
      BY <2>1, <2>2 DEF HalfInv, ReplyInv, callVars
    <2> QED
      BY <1>3, <2>1, <2>3
  <1>6. CASE ReaderFailAll(s)
    <2>1. UNCHANGED <<outq, received, half, answered, call, callSock>>
      BY <1>6 DEF ReaderFailAll, FailAll, guestVars
    <2>2. \A c \in Calls : outcome'[c] \in {"closed", outcome[c]}
      BY <1>6 DEF ReaderFailAll, FailAll, Resolve
    <2> QED
      BY <1>0, <2>1, <2>2, ReplyFrame DEF Used
  <1>7. CASE WriterSend(s)
    <2>1. outq[s] # <<>> /\ outq[s] \in Seq(Calls)
          /\ outq' = [outq EXCEPT ![s] = Tail(outq[s])]
          /\ received' = received \cup {Head(outq[s])}
          /\ UNCHANGED <<half, answered, callVars>>
      BY <1>0, <1>7 DEF WriterSend, WriterFrame, TypeOK, SocketType
    <2>2. Used(Head(outq[s]))
      BY <2>1 DEF ReplyInv, QueueInv
    <2>3. \A i \in 1 .. Len(Tail(outq[s])) : Used(Tail(outq[s])[i])
      BY <2>1 DEF ReplyInv, QueueInv
    <2>4. \A r \in Sockets : \A i \in 1 .. Len(outq'[r]) : Used(outq'[r][i])
      BY <1>0, <2>1, <2>3 DEF ReplyInv, QueueInv, TypeOK, SocketType
    <2>5. \A r \in Sockets : HalfInv(r)'
      BY <2>1 DEF ReplyInv, HalfInv, callVars
    <2> QED
      BY <2>1, <2>2, <2>4, <2>5
      DEF ReplyInv, QueueInv, OwnReply, Used, callVars
  <1>8. CASE WriterFail(s)
    <2>1. outq' = [outq EXCEPT ![s] = <<>>]
          /\ UNCHANGED <<received, half, answered, callVars>>
      BY <1>8 DEF WriterFail, WriterFrame
    <2>2. \A r \in Sockets : outq'[r] = <<>> \/ outq'[r] = outq[r]
      BY <1>0, <2>1 DEF TypeOK, SocketType
    <2>3. \A r \in Sockets : \A i \in 1 .. Len(outq'[r]) : Used(outq'[r][i])
      BY <2>2 DEF ReplyInv, QueueInv
    <2>4. \A r \in Sockets : HalfInv(r)'
      BY <2>1 DEF ReplyInv, HalfInv, callVars
    <2> QED
      BY <2>1, <2>3, <2>4 DEF ReplyInv, QueueInv, OwnReply, Used, callVars
  <1>9. CASE WriterStop(s)
    BY <1>0, <1>9, ReplyFrame DEF WriterStop, WriterFrame, callVars, Used
  <1> QED
    BY <1>1, <1>2, <1>4, <1>5, <1>6, <1>7, <1>8, <1>9 DEF SocketStep

LEMMA CallStepReply ==
    ASSUME TypeInv, IdInv, ReplyInv, NEW c \in Calls, CallStep(c)
    PROVE  ReplyInv'
  <1>0. TypeOK
    BY DEF TypeInv
  <1>1. UNCHANGED <<received, half, answered>>
    BY DEF CallStep, CallPrepare, CallSend, CallSendFails, CallReturn,
           CallTimeout, CallDrop, Withdraw, CallFrame, guestVars
  <1>2. \A d \in Calls : Used(d) => Used(d)' /\ callSock'[d] = callSock[d]
    <2>1. CASE CallPrepare(c)
      BY <1>0, <2>1 DEF CallPrepare, Advance, Used, TypeOK, CallType
    <2>2. CASE ~CallPrepare(c)
      BY <1>0, <2>2
      DEF CallStep, CallSend, CallSendFails, CallReturn, CallTimeout, CallDrop,
          Withdraw, Advance, Used, TypeOK, CallType
    <2> QED
      BY <2>1, <2>2
  <1>3. \A d \in Calls : outcome'[d] \in {"ok", "error"} => outcome'[d] = outcome[d]
    BY DEF CallStep, CallPrepare, CallSend, CallSendFails, CallReturn,
           CallTimeout, CallDrop, Withdraw, Resolve
  <1>4. CASE ~CallSend(c)
    <2>1. UNCHANGED outq
      BY <1>4
      DEF CallStep, CallPrepare, CallSendFails, CallReturn, CallTimeout,
          CallDrop, Withdraw
    <2> QED
      BY <1>0, <1>1, <1>2, <1>3, <2>1, ReplyFrame
  <1>5. CASE CallSend(c)
    <2>1. /\ outq' = [outq EXCEPT ![callSock[c]] = Append(@, c)] /\ Used(c)
          /\ UNCHANGED <<callSock, outcome>>
      BY <1>5 DEF CallSend, Advance, Used
    <2>2. \A s \in Sockets : outq'[s] = outq[s] \/ outq'[s] = Append(outq[s], c)
      BY <1>0, <2>1 DEF TypeOK, SocketType
    <2>3. \A s \in Sockets : \A i \in 1 .. Len(outq'[s]) :
             outq'[s][i] \in Calls /\ Used(outq'[s][i])
      BY <1>0, <2>1, <2>2 DEF ReplyInv, QueueInv, TypeOK, SocketType
    <2>4. \A s \in Sockets : QueueInv(s)'
      BY <1>2, <2>3 DEF QueueInv
    <2>5. \A d \in received' : Used(d)'
      BY <1>0, <1>1, <1>2 DEF ReplyInv, TypeOK, GuestType
    <2>6. \A s \in Sockets : HalfInv(s)'
      BY <1>1, <2>1 DEF ReplyInv, HalfInv
    <2>7. OwnReply'
      BY <1>1, <2>1 DEF ReplyInv, OwnReply
    <2> QED
      BY <2>4, <2>5, <2>6, <2>7 DEF ReplyInv
  <1> QED
    BY <1>4, <1>5

LEMMA NextReply == TypeInv /\ IdInv /\ ReplyInv /\ [Next]_vars => ReplyInv'
  <1> SUFFICES ASSUME TypeInv, IdInv, ReplyInv, [Next]_vars
               PROVE  ReplyInv'
    OBVIOUS
  <1>0. TypeOK
    BY DEF TypeInv
  <1>1. ASSUME NEW t \in Tasks, ConnectStep(t) \/ CloseFlag(t) \/ CloseMark(t)
        PROVE  UNCHANGED <<outq, half, guestVars, callVars>>
    BY <1>1
    DEF ConnectStep, Connect, Reconnect, ReconnectStore, LeaveQueue, Lock,
        DialOk, DialFail, DialTimeout, Install, StoreFlag, TaskFrame,
        CloseFlag, CloseMark, socketVars
  <1>2. CASE \E t \in Tasks : ConnectStep(t) \/ CloseFlag(t) \/ CloseMark(t)
    BY <1>0, <1>1, <1>2, ReplyFrame DEF guestVars, callVars, Used
  <1>3. CASE \E t \in Tasks : CloseFailAll(t)
    <2>1. UNCHANGED <<outq, received, half, answered, call, callSock>>
      BY <1>3 DEF CloseFailAll, FailAll, guestVars, socketVars
    <2>2. \A c \in Calls : outcome'[c] \in {"closed", outcome[c]}
      BY <1>3 DEF CloseFailAll, FailAll, Resolve
    <2> QED
      BY <1>0, <2>1, <2>2, ReplyFrame DEF Used
  <1>4. ASSUME NEW c \in Calls, WaitStep(c)
        PROVE  UNCHANGED <<socketVars, guestVars, callVars>>
    BY <1>4
    DEF WaitStep, RegisterCommand, WaitExit, WaitClosed, WaitDeadline,
        WaitKilled, WaitDrop, WaitFrame
  <1>5. CASE \E c \in Calls : WaitStep(c)
    BY <1>0, <1>4, <1>5, ReplyFrame DEF socketVars, guestVars, callVars, Used
  <1>6. CASE UNCHANGED vars
    BY <1>0, <1>6, ReplyFrame DEF vars, socketVars, guestVars, callVars, Used
  <1> QED
    BY <1>2, <1>3, <1>5, <1>6, SocketStepReply, CallStepReply DEF Next, CloseStep

\* A call that is told "ok" or "error" is told what the guest answered to it,
\* however many sockets were opened between the call and its reply.
THEOREM RepliesAreOwn == Spec => []OwnReply
  <1>1. Init => ReplyInv
    BY DEF Init, ReplyInv, QueueInv, HalfInv, OwnReply
  <1>2. ReplyInv => OwnReply
    BY DEF ReplyInv
  <1> QED
    BY <1>1, <1>2, Typing, Ids, NextReply, PTL DEF Spec

-----------------------------------------------------------------------------
(***************************************************************************)
(* ControlChannel implements ChannelPromise.  Beyond the invariants above  *)
(* the refinement needs that a call has no verdict before it is made and   *)
(* has one when it returns.                                                *)
(***************************************************************************)
VerdictInv ==
    \A c \in Calls : /\ call[c] = "unused" => outcome[c] = "none"
                     /\ call[c] = "returned" => outcome[c] # "none"

ImplInv == TypeInv /\ QuietInv /\ IdInv /\ VerdictInv

LEMMA VerdictFrame ==
    ASSUME VerdictInv, \A c \in Calls : call'[c] = "returned" => call[c] = "returned",
           \A c \in Calls : call'[c] = "unused" =>
                               call[c] = "unused" /\ outcome'[c] = outcome[c],
           \A c \in Calls : outcome'[c] = "none" => outcome[c] = "none"
    PROVE  VerdictInv'
  BY DEF VerdictInv

LEMMA FailAllVerdict ==
    ASSUME TypeOK, IdInv, VerdictInv, FailAll
    PROVE  VerdictInv'
  <1>1. UNCHANGED call
        /\ \A c \in Calls : outcome'[c] = IF c \in pending /\ outcome[c] = "none"
                                         THEN "closed" ELSE outcome[c]
    BY DEF FailAll, Resolve
  <1>2. \A c \in Calls : call[c] = "unused" => outcome'[c] = outcome[c]
    BY <1>1 DEF IdInv, Used
  <1> QED
    BY <1>1, <1>2, VerdictFrame

LEMMA EndOfLineVerdict ==
    ASSUME TypeOK, IdInv, VerdictInv, NEW s \in Sockets, NEW m \in Lines,
           EndOfLine(s, m)
    PROVE  VerdictInv'
  <1>1. UNCHANGED call
    BY DEF EndOfLine
  <1>2. CASE UNCHANGED outcome
    BY <1>1, <1>2 DEF VerdictInv
  <1>3. CASE ~UNCHANGED outcome
    <2>1. PICK hit \in SUBSET pending : Resolve(hit, m.kind)
      BY <1>3 DEF EndOfLine, Dispatch, DispatchFrame, DispatchReply
    <2>2. \A c \in Calls : call[c] = "unused" => c \notin hit
      BY <2>1 DEF IdInv, Used
    <2>3. \A c \in Calls : /\ c \notin hit => outcome'[c] = outcome[c]
                           /\ outcome'[c] = "none" => outcome[c] = "none"
      BY <2>1 DEF Resolve, Lines
    <2> QED
      BY <1>1, <2>2, <2>3, VerdictFrame
  <1> QED
    BY <1>2, <1>3

LEMMA CallStepVerdict ==
    ASSUME TypeOK, VerdictInv, NEW c \in Calls, CallStep(c)
    PROVE  VerdictInv'
  <1>1. CASE CallPrepare(c) \/ CallSend(c) \/ CallReturn(c)
    <2>1. UNCHANGED outcome
      BY <1>1 DEF CallPrepare, CallSend, CallReturn
    <2>2. \A d \in Calls : d # c => call'[d] = call[d]
      BY <1>1 DEF CallPrepare, CallSend, CallReturn, Advance, TypeOK, CallType
    <2>3. call'[c] # "unused" /\ (call'[c] = "returned" => outcome[c] # "none")
      BY <1>1 DEF CallPrepare, CallSend, CallReturn, Advance, TypeOK, CallType
    <2> QED
      BY <2>1, <2>2, <2>3 DEF VerdictInv
  <1>2. CASE CallSendFails(c) \/ CallTimeout(c) \/ CallDrop(c)
    <2>1. PICK v \in Verdicts : Resolve({c}, v)
      BY <1>2
      DEF CallSendFails, CallTimeout, CallDrop, Withdraw, Verdicts
    <2>2. call' = [call EXCEPT ![c] = "returned"]
      BY <1>2 DEF CallSendFails, CallTimeout, CallDrop, Advance
    <2>3. outcome'[c] # "none" /\ \A d \in Calls : d # c => outcome'[d] = outcome[d]
      BY <2>1 DEF Resolve, Verdicts
    <2> QED
      BY <2>2, <2>3 DEF VerdictInv, TypeOK, CallType
  <1> QED
    BY <1>1, <1>2 DEF CallStep

LEMMA NextVerdict == TypeOK /\ IdInv /\ VerdictInv /\ [Next]_vars => VerdictInv'
  <1> SUFFICES ASSUME TypeOK, IdInv, VerdictInv, [Next]_vars
               PROVE  VerdictInv'
    OBVIOUS
  <1>0. ASSUME UNCHANGED <<call, outcome>>
        PROVE  VerdictInv'
    BY <1>0 DEF VerdictInv
  <1>1. ASSUME NEW t \in Tasks, ConnectStep(t) \/ CloseFlag(t) \/ CloseMark(t)
        PROVE  VerdictInv'
    BY <1>0, <1>1
    DEF ConnectStep, Connect, Reconnect, ReconnectStore, LeaveQueue, Lock,
        DialOk, DialFail, DialTimeout, Install, StoreFlag, TaskFrame,
        CloseFlag, CloseMark, callVars
  <1>2. ASSUME NEW t \in Tasks, CloseFailAll(t)
        PROVE  VerdictInv'
    BY <1>2, FailAllVerdict DEF CloseFailAll
  <1>3. ASSUME NEW s \in Sockets, SocketStep(s)
        PROVE  VerdictInv'
    <2>1. CASE FeedLine(s)
      BY <2>1, EndOfLineVerdict DEF FeedLine, Sayable
    <2>2. CASE FeedTail(s)
      BY <2>2, EndOfLineVerdict DEF FeedTail, TypeOK, LineType
    <2>3. CASE ReaderFailAll(s)
      BY <2>3, FailAllVerdict DEF ReaderFailAll
    <2>4. CASE \/ FeedHead(s) \/ ReaderEnd(s) \/ WriterSend(s) \/ WriterFail(s)
               \/ WriterStop(s)
      BY <1>0, <2>4
      DEF FeedHead, ReaderEnd, WriterSend, WriterFail, WriterStop, WriterFrame,
          callVars
    <2> QED
      BY <1>3, <2>1, <2>2, <2>3, <2>4 DEF SocketStep
  <1>4. ASSUME NEW c \in Calls, WaitStep(c)
        PROVE  VerdictInv'
    BY <1>0, <1>4
    DEF WaitStep, RegisterCommand, WaitExit, WaitClosed, WaitDeadline,
        WaitKilled, WaitDrop, WaitFrame, callVars
  <1>5. CASE UNCHANGED vars
    BY <1>0, <1>5 DEF vars, callVars
  <1> QED
    BY <1>1, <1>2, <1>3, <1>4, <1>5, CallStepVerdict DEF Next, CloseStep

LEMMA Implementing == Spec => []ImplInv
  <1>1. Init => VerdictInv
    BY DEF Init, VerdictInv
  <1>2. TypeInv => TypeOK
    BY DEF TypeInv
  <1> QED
    BY <1>1, <1>2, Ids, NextVerdict, PTL DEF Spec, ImplInv

-----------------------------------------------------------------------------
(***************************************************************************)
(* The step simulation.                                                    *)
(***************************************************************************)
Same(c) == Verdict(c)' = Verdict(c) /\ Wait(c)' = Wait(c)

LEMMA Stutter ==
    ASSUME UNCHANGED wsOpen, \A c \in Calls : Same(c)
    PROVE  UNCHANGED Promise!vars
  BY DEF Same, Promise!vars

LEMMA SameFrame ==
    ASSUME UNCHANGED <<call, outcome, waiter, handlers>>
    PROVE  \A c \in Calls : Same(c)
  BY DEF Same, Verdict, Wait, Listening

LEMMA FailAllGoesDown ==
    ASSUME ImplInv, FailAll
    PROVE  Promise!GoDown
  <1>1. /\ wsOpen' = FALSE /\ handlers' = {} /\ UNCHANGED <<call, waiter>>
        /\ \A c \in Calls : outcome'[c] = IF c \in pending /\ outcome[c] = "none"
                                         THEN "closed" ELSE outcome[c]
    BY DEF FailAll, DropHandlers, Resolve, waitVars
  <1>2. ASSUME NEW c \in Calls
        PROVE  Verdict(c)' = IF Verdict(c) = "inflight" THEN "closed" ELSE Verdict(c)
    <2>1. CASE call[c] = "unused"
      BY <1>1, <2>1 DEF Verdict
    <2>2. CASE call[c] # "unused" /\ outcome[c] = "none"
      <3>1. c \in pending
        BY <2>2 DEF ImplInv, TypeInv, TypeOK, CallType, VerdictInv, QuietInv, InFlight
      <3> QED
        BY <1>1, <2>2, <3>1 DEF Verdict
    <2>3. CASE call[c] # "unused" /\ outcome[c] # "none"
      <3>1. outcome[c] # "inflight"
        BY DEF ImplInv, TypeInv, TypeOK, CallType, Verdicts
      <3> QED
        BY <1>1, <2>3, <3>1 DEF Verdict
    <2> QED
      BY <2>1, <2>2, <2>3
  <1>3. ASSUME NEW c \in Calls
        PROVE  Wait(c)' = IF Wait(c) = "blocked" THEN "woken" ELSE Wait(c)
    <2>1. waiter[c] # "blocked"
      BY DEF ImplInv, TypeInv, TypeOK, WaitType
    <2> QED
      BY <1>1, <2>1 DEF Wait, Listening
  <1> QED
    BY <1>1, <1>2, <1>3 DEF Promise!GoDown

\* One call's verdict goes from "inflight" to a final one.
LEMMA SettleStep ==
    ASSUME NEW c \in Calls, Verdict(c) = "inflight",
           Verdict(c)' \in Promise!Settled, UNCHANGED <<wsOpen, waiter, handlers>>,
           \A d \in Calls \ {c} : Verdict(d)' = Verdict(d)
    PROVE  Promise!Settle(c)
  <1>1. \A d \in Calls : Wait(d)' = Wait(d)
    BY DEF Wait, Listening
  <1> QED
    BY <1>1 DEF Promise!Settle

LEMMA EndOfLineStep ==
    ASSUME ImplInv, NEW s \in Sockets, NEW m \in Lines, EndOfLine(s, m)
    PROVE  [Promise!Next]_(Promise!vars)
  <1>1. UNCHANGED <<wsOpen, handlers, waiter, call, id>>
    BY DEF EndOfLine, linkVars
  <1>2. CASE UNCHANGED outcome
    BY <1>1, <1>2, SameFrame, Stutter
  <1>3. CASE ~UNCHANGED outcome
    <2>1. PICK hit \in SUBSET pending :
             /\ m.kind \in {"ok", "error"} /\ Resolve(hit, m.kind)
             /\ \A p \in hit : id[p] = id[m.call]
      BY <1>3 DEF EndOfLine, Dispatch, DispatchFrame, DispatchReply, Lines
    <2>2. PICK c \in Calls : outcome'[c] # outcome[c]
      BY <1>3, <2>1 DEF Resolve, ImplInv, TypeInv, TypeOK, CallType
    <2>3. c \in hit /\ outcome[c] = "none" /\ outcome'[c] = m.kind
      BY <2>1, <2>2 DEF Resolve
    <2>4. \A d \in Calls \ {c} : d \notin hit
      BY <2>1, <2>3 DEF ImplInv, IdInv
    <2>5. \A d \in Calls \ {c} : Verdict(d)' = Verdict(d)
      BY <1>1, <2>1, <2>4 DEF Resolve, Verdict
    <2>6. call[c] # "unused"
      BY <2>1, <2>3 DEF ImplInv, IdInv, Used
    <2>7. Verdict(c) = "inflight" /\ Verdict(c)' \in Promise!Settled
      BY <1>1, <2>1, <2>3, <2>6 DEF Verdict, Promise!Settled
    <2>8. Promise!Settle(c)
      BY <1>1, <2>5, <2>7, SettleStep
    <2> QED
      BY <2>8 DEF Promise!Next
  <1> QED
    BY <1>2, <1>3

LEMMA CallStepStep ==
    ASSUME ImplInv, NEW c \in Calls, CallStep(c)
    PROVE  [Promise!Next]_(Promise!vars)
  <1>0. UNCHANGED <<wsOpen, handlers, waiter>>
    BY DEF CallStep, CallPrepare, CallSend, CallSendFails, CallReturn,
           CallTimeout, CallDrop, Withdraw, CallFrame, linkVars, waitVars
  <1>1. \A d \in Calls : Wait(d)' = Wait(d)
    BY <1>0 DEF Wait, Listening
  <1>2. call \in [Calls -> {"unused", "prepared", "waiting", "returned"}]
    BY DEF ImplInv, TypeInv, TypeOK, CallType
  <1>3. CASE CallPrepare(c)
    <2>1. /\ wsOpen /\ call[c] = "unused" /\ UNCHANGED outcome
          /\ call' = [call EXCEPT ![c] = "prepared"]
      BY <1>3 DEF CallPrepare, MayCall, Advance
    <2>2. outcome[c] = "none"
      BY <2>1 DEF ImplInv, VerdictInv
    <2>3. \A d \in Calls : Verdict(d)' = IF d = c THEN "inflight" ELSE Verdict(d)
      BY <1>2, <2>1, <2>2 DEF Verdict
    <2>4. Verdict(c) = "unused"
      BY <2>1 DEF Verdict
    <2>5. Promise!Begin(c)
      BY <1>0, <1>1, <2>1, <2>3, <2>4 DEF Promise!Begin
    <2> QED
      BY <2>5 DEF Promise!Next
  <1>4. CASE CallSend(c) \/ CallReturn(c)
    <2>1. UNCHANGED outcome /\ \E from \in {"prepared", "waiting"} :
             \E to \in {"waiting", "returned"} : Advance(c, from, to)
      BY <1>4 DEF CallSend, CallReturn
    <2>2. \A d \in Calls : Verdict(d)' = Verdict(d)
      BY <1>2, <2>1 DEF Advance, Verdict
    <2> QED
      BY <1>0, <1>1, <2>2, Stutter DEF Same
  <1>5. CASE CallSendFails(c) \/ CallTimeout(c) \/ CallDrop(c)
    <2>1. PICK v \in Verdicts : Resolve({c}, v)
      BY <1>5
      DEF CallSendFails, CallTimeout, CallDrop, Withdraw, Verdicts
    <2>2. call[c] # "unused" /\ call' = [call EXCEPT ![c] = "returned"]
      BY <1>5 DEF CallSendFails, CallTimeout, CallDrop, Advance
    <2>3. \A d \in Calls \ {c} : Verdict(d)' = Verdict(d)
      BY <1>2, <2>1, <2>2 DEF Resolve, Verdict
    <2>4. CASE outcome[c] = "none"
      <3>1. Verdict(c) = "inflight" /\ Verdict(c)' = v
        BY <1>2, <2>1, <2>2, <2>4 DEF Resolve, Verdict, Verdicts
      <3>2. Promise!Settle(c)
        BY <1>0, <2>3, <3>1, SettleStep DEF Promise!Settled, Verdicts
      <3> QED
        BY <3>2 DEF Promise!Next
    <2>5. CASE outcome[c] # "none"
      <3>1. Verdict(c)' = Verdict(c)
        BY <1>2, <2>1, <2>2, <2>5 DEF Resolve, Verdict
      <3> QED
        BY <1>0, <1>1, <2>3, <3>1, Stutter DEF Same
    <2> QED
      BY <2>4, <2>5
  <1> QED
    BY <1>3, <1>4, <1>5 DEF CallStep

LEMMA WaitStepStep ==
    ASSUME ImplInv, NEW c \in Calls, WaitStep(c)
    PROVE  [Promise!Next]_(Promise!vars)
  <1>0. UNCHANGED <<wsOpen, call, outcome>>
    BY DEF WaitStep, RegisterCommand, WaitExit, WaitClosed, WaitDeadline,
           WaitKilled, WaitDrop, WaitFrame, linkVars, callVars
  <1>1. \A d \in Calls : Verdict(d)' = Verdict(d)
    BY <1>0 DEF Verdict
  <1>2. waiter \in [Calls -> {"none", "waiting", "killing", "exited", "closed",
                              "expired", "dropped"}]
    BY DEF ImplInv, TypeInv, TypeOK, WaitType
  <1>3. ASSUME NEW from, NEW to, MoveWait(c, from, to),
               \A d \in Calls \ {c} : d \in handlers' <=> d \in handlers
        PROVE  \A d \in Calls \ {c} : Wait(d)' = Wait(d)
    BY <1>2, <1>3 DEF MoveWait, Wait, Listening
  <1>4. CASE RegisterCommand(c)
    <2>1. /\ waiter[c] = "none" /\ waiter' = [waiter EXCEPT ![c] = "waiting"]
          /\ call[c] = "returned" /\ outcome[c] = "ok"
          /\ handlers' = IF Alive THEN handlers \cup {c} ELSE handlers
      BY <1>4 DEF RegisterCommand, MoveWait
    <2>2. \A d \in Calls \ {c} : Wait(d)' = Wait(d)
      BY <1>3, <1>4, <2>1 DEF RegisterCommand
    <2>3. Verdict(c) = "ok" /\ Wait(c) = "none"
      BY <2>1 DEF Verdict, Wait, Listening
    <2>4. Wait(c)' = IF c \in handlers' THEN "blocked" ELSE "woken"
      BY <1>2, <2>1 DEF Wait, Listening
    <2>5. c \in handlers' => wsOpen
      BY <2>1 DEF Alive, ImplInv, QuietInv
    <2>6. Promise!Attach(c)
      BY <1>0, <1>1, <2>2, <2>3, <2>4, <2>5 DEF Promise!Attach
    <2> QED
      BY <2>6 DEF Promise!Next
  <1>5. CASE WaitExit(c) \/ WaitKilled(c) \/ WaitDrop(c)
    <2>1. \E from \in {"waiting", "killing"}, to \in Promise!Ended :
             MoveWait(c, from, to)
      BY <1>5 DEF WaitExit, WaitKilled, WaitDrop, Promise!Ended
    <2>2. \A d \in Calls \ {c} : Wait(d)' = Wait(d)
      BY <1>3, <1>5, <2>1 DEF WaitExit, WaitKilled, WaitDrop, Unregister
    <2>3. Wait(c) \in {"blocked", "woken"} /\ Wait(c)' \in Promise!Ended
      BY <1>2, <2>1 DEF MoveWait, Wait, Listening, Promise!Ended
    <2>4. Promise!Finish(c)
      BY <1>0, <1>1, <2>2, <2>3 DEF Promise!Finish
    <2> QED
      BY <2>4 DEF Promise!Next
  <1>6. CASE WaitClosed(c)
    <2>1. \A d \in Calls \ {c} : Wait(d)' = Wait(d)
      BY <1>3, <1>6 DEF WaitClosed
    <2>2. Wait(c) = "woken" /\ Wait(c)' = "closed"
      BY <1>2, <1>6 DEF WaitClosed, MoveWait, Wait, Listening
    <2>3. Promise!Finish(c)
      BY <1>0, <1>1, <2>1, <2>2 DEF Promise!Finish
    <2> QED
      BY <2>3 DEF Promise!Next
  <1>7. CASE WaitDeadline(c)
    <2>1. \A d \in Calls \ {c} : Wait(d)' = Wait(d)
      BY <1>3, <1>7 DEF WaitDeadline
    <2>2. Wait(c)' = Wait(c)
      BY <1>2, <1>7 DEF WaitDeadline, MoveWait, Wait, Listening
    <2> QED
      BY <1>0, <1>1, <2>1, <2>2, Stutter DEF Same
  <1> QED
    BY <1>4, <1>5, <1>6, <1>7 DEF WaitStep

LEMMA NextStep == ImplInv /\ [Next]_vars => [Promise!Next]_(Promise!vars)
  <1> SUFFICES ASSUME ImplInv, [Next]_vars
               PROVE  [Promise!Next]_(Promise!vars)
    OBVIOUS
  <1>0. ASSUME UNCHANGED <<wsOpen, call, outcome, waiter, handlers>>
        PROVE  [Promise!Next]_(Promise!vars)
    BY <1>0, SameFrame, Stutter
  <1>1. ASSUME NEW t \in Tasks, ConnectStep(t), ~Install(t)
        PROVE  [Promise!Next]_(Promise!vars)
    BY <1>0, <1>1
    DEF ConnectStep, Connect, Reconnect, ReconnectStore, LeaveQueue, Lock,
        DialOk, DialFail, DialTimeout, StoreFlag, TaskFrame, innerVars,
        linkVars, tableVars, callVars, waitVars
  <1>2. ASSUME NEW t \in Tasks, Install(t)
        PROVE  [Promise!Next]_(Promise!vars)
    <2>1. wsOpen' = TRUE /\ UNCHANGED <<call, outcome, waiter, handlers>>
      BY <1>2 DEF Install, TaskFrame, tableVars, callVars, waitVars
    <2>2. Promise!Open
      BY <2>1, SameFrame DEF Promise!Open, Same
    <2> QED
      BY <2>2 DEF Promise!Next
  <1>3. ASSUME NEW t \in Tasks, CloseStep(t)
        PROVE  [Promise!Next]_(Promise!vars)
    <2>1. CASE CloseFlag(t) \/ CloseMark(t)
      BY <1>0, <2>1
      DEF CloseFlag, CloseMark, TaskFrame, linkVars, tableVars, callVars, waitVars
    <2>2. CASE CloseFailAll(t)
      BY <2>2, FailAllGoesDown DEF CloseFailAll, Promise!Next
    <2> QED
      BY <1>3, <2>1, <2>2 DEF CloseStep
  <1>4. ASSUME NEW s \in Sockets, SocketStep(s)
        PROVE  [Promise!Next]_(Promise!vars)
    <2>1. CASE FeedLine(s)
      BY <2>1, EndOfLineStep DEF FeedLine, Sayable
    <2>2. CASE FeedTail(s)
      BY <2>2, EndOfLineStep DEF FeedTail, ImplInv, TypeInv, TypeOK, LineType
    <2>3. CASE ReaderFailAll(s)
      BY <2>3, FailAllGoesDown DEF ReaderFailAll, Promise!Next
    <2>4. CASE \/ FeedHead(s) \/ ReaderEnd(s) \/ WriterSend(s) \/ WriterFail(s)
               \/ WriterStop(s)
      BY <1>0, <2>4
      DEF FeedHead, ReaderEnd, WriterSend, WriterFail, WriterStop, WriterFrame,
          innerVars, linkVars, tableVars, callVars, waitVars
    <2> QED
      BY <1>4, <2>1, <2>2, <2>3, <2>4 DEF SocketStep
  <1>5. CASE UNCHANGED vars
    BY <1>0, <1>5
    DEF vars, innerVars, linkVars, tableVars, callVars, waitVars
  <1> QED
    BY <1>1, <1>2, <1>3, <1>4, <1>5, CallStepStep, WaitStepStep DEF Next

LEMMA InitStep == Init => Promise!Init
  BY DEF Init, Promise!Init, Verdict, Wait, Listening

\* Every behaviour of the channel, with any number of tasks, sockets, calls and
\* frames, is one of the abstract channel.
THEOREM PromiseKept == Spec => KeepsPromise
  BY Implementing, InitStep, NextStep, PTL DEF Spec, KeepsPromise, Promise!Spec

=============================================================================
