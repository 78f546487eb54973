------------------------ MODULE ControlChannelProofs ------------------------
(***************************************************************************)
(* Proofs about ControlChannel, for every value of its constants.          *)
(***************************************************************************)
EXTENDS ControlChannel, TLAPS

(***************************************************************************)
(* Type correctness.  It needs one fact about control: a task that is about *)
(* to install a socket has opened one.                                     *)
(***************************************************************************)
Dialed == \A t \in Tasks : pc[t] = "install" => nSock # 0

TypeInv == TypeOK /\ Dialed

\* Parts of the state that a step leaves alone keep their types.
LEMMA Frames1 ==
    /\ LinkType /\ UNCHANGED linkVars => LinkType'
    /\ TableType /\ UNCHANGED tableVars => TableType'
    /\ LockType /\ UNCHANGED lockVars => LockType'
    /\ CallType /\ UNCHANGED callVars => CallType'
    /\ GuestType /\ UNCHANGED guestVars => GuestType'
    /\ WaitType /\ UNCHANGED waitVars => WaitType'
  <1>1. LinkType /\ UNCHANGED linkVars => LinkType'
    BY DEF LinkType, linkVars
  <1>2. TableType /\ UNCHANGED tableVars => TableType'
    BY DEF TableType, tableVars
  <1>3. LockType /\ UNCHANGED lockVars => LockType'
    BY DEF LockType, lockVars
  <1>4. CallType /\ UNCHANGED callVars => CallType'
    BY DEF CallType, callVars
  <1>5. GuestType /\ UNCHANGED guestVars => GuestType'
    BY DEF GuestType, guestVars
  <1>6. WaitType /\ UNCHANGED waitVars => WaitType'
    BY DEF WaitType, waitVars
  <1> QED
    BY <1>1, <1>2, <1>3, <1>4, <1>5, <1>6

LEMMA Frames2 ==
    /\ SocketType /\ UNCHANGED <<nSock, reader, wtask, outq>> => SocketType'
    /\ LineType /\ UNCHANGED <<rxBuffer, half>> => LineType'
  BY DEF SocketType, LineType

LEMMA ResolveType ==
    ASSUME CallType, NEW S, NEW v \in Verdicts, Resolve(S, v)
    PROVE  outcome' \in [Calls -> Verdicts \cup {"none"}]
  BY DEF CallType, Resolve

LEMMA FailAllType ==
    ASSUME TypeOK, FailAll
    PROVE  LinkType' /\ TableType' /\ CallType' /\ GuestType' /\ WaitType'
  <1>1. CallType'
    <2>1. outcome' \in [Calls -> Verdicts \cup {"none"}]
      BY ResolveType DEF FailAll, TypeOK, Verdicts
    <2> QED
      BY <2>1 DEF FailAll, TypeOK, CallType
  <1>2. TableType'
    BY DEF FailAll, DropHandlers, TypeOK, TableType
  <1>3. LinkType'
    BY DEF FailAll, DropWriter, TypeOK, LinkType
  <1>4. GuestType' /\ WaitType'
    BY Frames1 DEF FailAll, TypeOK
  <1> QED
    BY <1>1, <1>2, <1>3, <1>4

LEMMA InitType == Init => TypeInv
  <1> SUFFICES ASSUME Init PROVE TypeInv
    OBVIOUS
  <1> USE BoundsAssumption, ShapeAssumption DEF Init
  <1>1a. LinkType
    BY DEF LinkType
  <1>1b. LockType
    <2>1. attempt \in 0 .. MaxAttempts
      OBVIOUS
    <2> QED
      BY <2>1 DEF LockType
  <1>1c. SocketType
    BY DEF SocketType
  <1>2. TableType /\ LineType
    BY DEF TableType, LineType
  <1>3. CallType
    BY DEF CallType, Verdicts
  <1>4. GuestType /\ WaitType
    BY DEF GuestType, WaitType
  <1> QED
    BY <1>1a, <1>1b, <1>1c, <1>2, <1>3, <1>4 DEF TypeInv, TypeOK, Dialed, TaskStates

\* What the steps of a task leave alone.
LEMMA TaskFrameType ==
    ASSUME TypeOK, TaskFrame
    PROVE  /\ TableType' /\ SocketType' /\ LineType' /\ CallType' /\ GuestType'
           /\ WaitType'
  BY Frames1, Frames2 DEF TypeOK, TaskFrame, socketVars

LEMMA MoveType ==
    ASSUME TypeOK, NEW t \in Tasks, NEW from, NEW to \in TaskStates,
           Move(t, from, to)
    PROVE  pc' \in [Tasks -> TaskStates]
  BY DEF TypeOK, Move

LEMMA ConnectType ==
    ASSUME TypeInv, NEW t \in Tasks, ConnectStep(t)
    PROVE  TypeInv'
  <1> USE BoundsAssumption
  <1>0. TypeOK /\ Dialed
    BY DEF TypeInv
  <1>a. ASSUME TaskFrame, NEW from, NEW to \in TaskStates \ {"install"},
               Move(t, from, to), LinkType', LockType'
        PROVE  TypeInv'
    <2>1. pc' \in [Tasks -> TaskStates]
      BY <1>0, <1>a, MoveType
    <2>2. Dialed'
      BY <1>0, <1>a DEF Dialed, Move, TaskFrame, socketVars, TypeOK
    <2> QED
      BY <1>0, <1>a, <2>1, <2>2, TaskFrameType DEF TypeInv, TypeOK
  <1>1. CASE Connect(t)
    BY <1>0, <1>1, <1>a, Frames1 DEF Connect, TypeOK, TaskStates
  <1>2. CASE Reconnect(t)
    BY <1>0, <1>2, <1>a, Frames1 DEF Reconnect, TypeOK, TaskStates
  <1>3. CASE ReconnectStore(t)
    <2>1. LinkType' /\ LockType'
      BY <1>0, <1>3, Frames1 DEF ReconnectStore, TypeOK, LockType
    <2> QED
      BY <1>3, <1>a, <2>1 DEF ReconnectStore, TaskStates
  <1>4. CASE LeaveQueue(t)
    BY <1>0, <1>4, <1>a, Frames1 DEF LeaveQueue, TypeOK, TaskStates
  <1>5. CASE Lock(t)
    <2>1. LinkType'
      BY <1>0, <1>5 DEF Lock, TypeOK, LinkType, linkVars
    <2>2. LockType'
      BY <1>0, <1>5 DEF Lock, TypeOK, LockType, lockVars
    <2> QED
      BY <1>5, <1>a, <2>1, <2>2 DEF Lock, TaskStates
  <1>6. CASE DialOk(t)
    <2>1. pc' \in [Tasks -> TaskStates]
      BY <1>0, <1>6, MoveType DEF DialOk, TaskStates
    <2>2. SocketType'
      BY <1>0, <1>6 DEF DialOk, TypeOK, SocketType, Sockets
    <2>3. Dialed'
      BY <1>0, <1>6 DEF DialOk, TypeOK, SocketType, Dialed
    <2> QED
      BY <1>0, <1>6, <2>1, <2>2, <2>3, Frames1, Frames2
      DEF DialOk, TypeInv, TypeOK, innerVars
  <1>7. CASE DialFail(t)
    <2>1. LinkType' /\ LockType'
      BY <1>0, <1>7, Frames1
      DEF DialFail, GiveUp, Unlock, MayRetry, TypeOK, LockType
    <2>2. CASE MayRetry
      <3>1. UNCHANGED pc
        BY <1>7, <2>2 DEF DialFail
      <3> QED
        BY <1>0, <1>7, <2>1, <3>1, TaskFrameType
        DEF DialFail, TypeInv, TypeOK, Dialed, TaskFrame, socketVars
    <2>3. CASE ~MayRetry
      BY <1>7, <1>a, <2>1, <2>3 DEF DialFail, GiveUp, TaskStates
    <2> QED
      BY <2>2, <2>3
  <1>8. CASE DialTimeout(t)
    <2>1. LinkType' /\ LockType'
      BY <1>0, <1>8, Frames1 DEF DialTimeout, GiveUp, Unlock, TypeOK, LockType
    <2> QED
      BY <1>8, <1>a, <2>1 DEF DialTimeout, GiveUp, TaskStates
  <1>9. CASE Install(t)
    <2>0. nSock \in Sockets
      BY <1>0, <1>9 DEF Install, Move, Dialed, TypeOK, SocketType, Sockets
    <2>1. LinkType'
      BY <2>0, <1>9 DEF Install, LinkType
    <2>2. LockType'
      BY <1>0, <1>9, Frames1 DEF Install, TypeOK
    <2> QED
      BY <1>9, <1>a, <2>1, <2>2 DEF Install, TaskStates
  <1>10. CASE StoreFlag(t)
    <2>1. LinkType' /\ LockType'
      BY <1>0, <1>10, Frames1 DEF StoreFlag, GiveUp, Unlock, TypeOK, LockType
    <2> QED
      BY <1>10, <1>a, <2>1 DEF StoreFlag, GiveUp, TaskStates
  <1> QED
    BY <1>1, <1>2, <1>3, <1>4, <1>5, <1>6, <1>7, <1>8, <1>9, <1>10
    DEF ConnectStep

LEMMA CloseType ==
    ASSUME TypeInv, NEW t \in Tasks, CloseStep(t)
    PROVE  TypeInv'
  <1>0. TypeOK /\ Dialed
    BY DEF TypeInv
  <1>1. ASSUME NEW from, NEW to \in TaskStates \ {"install"}, Move(t, from, to),
               UNCHANGED nSock
        PROVE  pc' \in [Tasks -> TaskStates] /\ Dialed'
    BY <1>0, <1>1, MoveType DEF Dialed, Move, TypeOK
  <1>2. CASE CloseFlag(t)
    <2>1. LinkType' /\ LockType'
      BY <1>0, <1>2, Frames1 DEF CloseFlag, TypeOK, LockType
    <2> QED
      BY <1>0, <1>1, <1>2, <2>1, TaskFrameType
      DEF CloseFlag, TaskFrame, TypeInv, TypeOK, TaskStates, socketVars
  <1>3. CASE CloseMark(t)
    <2>1. LinkType' /\ LockType'
      BY <1>0, <1>3, Frames1 DEF CloseMark, TypeOK, LinkType
    <2> QED
      BY <1>0, <1>1, <1>3, <2>1, TaskFrameType
      DEF CloseMark, TaskFrame, TypeInv, TypeOK, TaskStates, socketVars
  <1>4. CASE CloseFailAll(t)
    <2>1. LockType' /\ SocketType' /\ LineType'
      BY <1>0, <1>4, Frames1, Frames2
      DEF CloseFailAll, FailAll, TypeOK, socketVars
    <2> QED
      BY <1>0, <1>1, <1>4, <2>1, FailAllType
      DEF CloseFailAll, TypeInv, TypeOK, TaskStates, socketVars
  <1> QED
    BY <1>2, <1>3, <1>4 DEF CloseStep

\* What the guest says is a line, and so is a line cut in two.
LEMMA EndOfLineType ==
    ASSUME TypeInv, NEW s \in Sockets, NEW m \in Lines, EndOfLine(s, m)
    PROVE  TypeInv'
  <1>0. TypeOK /\ Dialed
    BY DEF TypeInv
  <1>1. m.call \in Calls /\ m.kind \in {"ok", "error", "frame"}
        /\ (m.kind = "frame" => m.n \in Frames)
    BY DEF Lines
  <1>2. GuestType'
    BY <1>0, <1>1 DEF EndOfLine, GuestSays, TypeOK, GuestType, Frames
  <1>3. LineType'
    BY <1>0 DEF EndOfLine, TypeOK, LineType
  <1>4. TableType' /\ CallType' /\ WaitType'
    <2>1. CASE rxBuffer # half[s]
      BY <1>0, <2>1, Frames1
      DEF EndOfLine, TypeOK, tableVars, callVars, waitVars
    <2>2. CASE rxBuffer = half[s] /\ m.kind = "frame"
      <3>1. DispatchFrame(m)
        BY <2>2 DEF EndOfLine, Dispatch
      <3>2. TableType'
        <4>0. Append(orphans[m.call], m.n) \in Seq(Frames)
          BY <1>0, <1>1, <2>2 DEF TypeOK, TableType
        <4>1. orphans' \in [Calls -> Seq(Frames)]
          BY <1>0, <1>1, <3>1, <4>0 DEF DispatchFrame, TypeOK, TableType
        <4>2. orphanCount' \in Int
          BY <1>0, <3>1 DEF DispatchFrame, TypeOK, TableType
        <4> QED
          BY <1>0, <3>1, <4>1, <4>2
          DEF EndOfLine, DispatchFrame, TypeOK, TableType
      <3>3. WaitType'
        <4>0. Append(inbox[m.call], m.n) \in Seq(Frames)
          BY <1>0, <1>1, <2>2 DEF TypeOK, WaitType
        <4>1. inbox' \in [Calls -> Seq(Frames)]
          BY <1>0, <1>1, <3>1, <4>0 DEF DispatchFrame, TypeOK, WaitType
        <4> QED
          BY <1>0, <4>1 DEF EndOfLine, TypeOK, WaitType
      <3>4. CallType'
        BY <1>0, <3>1, Frames1 DEF EndOfLine, DispatchFrame, TypeOK, callVars
      <3> QED
        BY <3>2, <3>3, <3>4
    <2>3. CASE rxBuffer = half[s] /\ m.kind # "frame"
      <3>1. DispatchReply(m)
        BY <2>3 DEF EndOfLine, Dispatch
      <3>2. TableType' /\ WaitType'
        BY <1>0, <3>1 DEF EndOfLine, DispatchReply, TypeOK, TableType, WaitType
      <3>3. outcome' \in [Calls -> Verdicts \cup {"none"}]
        BY <1>0, <1>1, <2>3, <3>1, ResolveType
        DEF DispatchReply, TypeOK, Verdicts
      <3> QED
        BY <1>0, <3>2, <3>3 DEF EndOfLine, TypeOK, CallType
    <2> QED
      BY <2>1, <2>2, <2>3
  <1>5. LinkType' /\ LockType' /\ SocketType' /\ UNCHANGED pc /\ UNCHANGED nSock
    BY <1>0, Frames1, Frames2 DEF EndOfLine, TypeOK
  <1> QED
    BY <1>0, <1>2, <1>3, <1>4, <1>5 DEF TypeInv, TypeOK, Dialed

LEMMA SocketStepType ==
    ASSUME TypeInv, NEW s \in Sockets, SocketStep(s)
    PROVE  TypeInv'
  <1>0. TypeOK /\ Dialed
    BY DEF TypeInv
  <1>1. CASE FeedLine(s)
    BY <1>1, EndOfLineType DEF FeedLine, Sayable
  <1>2. CASE FeedTail(s)
    <2>1. half[s] \in Lines
      BY <1>0, <1>2 DEF FeedTail, TypeOK, LineType
    <2> QED
      BY <1>2, <2>1, EndOfLineType DEF FeedTail
  <1>3. CASE FeedHead(s)
    <2>1. PICK m \in Lines : /\ half' = [half EXCEPT ![s] = m]
                             /\ rxBuffer' \in {m, Junk}
      BY <1>3 DEF FeedHead, Sayable
    <2>2. LineType'
      BY <1>0, <2>1 DEF TypeOK, LineType
    <2> QED
      BY <1>0, <1>3, <2>2, Frames1, Frames2 DEF FeedHead, TypeInv, TypeOK, Dialed
  <1>4. CASE ReaderEnd(s)
    <2>1. SocketType' /\ LineType' /\ LockType'
      BY <1>0, <1>4
      DEF ReaderEnd, TypeOK, SocketType, LineType, LockType, innerVars
    <2> QED
      BY <1>0, <1>4, <2>1, Frames1
      DEF ReaderEnd, TypeInv, TypeOK, Dialed, innerVars
  <1>5. CASE ReaderFailAll(s)
    <2>1. SocketType'
      BY <1>0, <1>5 DEF ReaderFailAll, TypeOK, SocketType
    <2>2. LineType' /\ LockType'
      BY <1>0, <1>5, Frames1, Frames2 DEF ReaderFailAll, FailAll, TypeOK
    <2> QED
      BY <1>0, <1>5, <2>1, <2>2, FailAllType
      DEF ReaderFailAll, TypeInv, TypeOK, Dialed
  <1>6. ASSUME WriterFrame, SocketType', GuestType'
        PROVE  TypeInv'
    BY <1>0, <1>6, Frames1, Frames2
    DEF WriterFrame, TypeInv, TypeOK, Dialed, innerVars
  <1>7. CASE WriterSend(s)
    <2>1. SocketType'
      BY <1>0, <1>7 DEF WriterSend, WriterFrame, TypeOK, SocketType
    <2>2. GuestType'
      BY <1>0, <1>7 DEF WriterSend, WriterFrame, TypeOK, SocketType, GuestType
    <2> QED
      BY <1>6, <1>7, <2>1, <2>2 DEF WriterSend
  <1>8. CASE WriterFail(s)
    <2>1. SocketType' /\ GuestType'
      BY <1>0, <1>8
      DEF WriterFail, WriterFrame, TypeOK, SocketType, GuestType
    <2> QED
      BY <1>6, <1>8, <2>1 DEF WriterFail
  <1>9. CASE WriterStop(s)
    <2>1. SocketType' /\ GuestType'
      BY <1>0, <1>9
      DEF WriterStop, WriterFrame, TypeOK, SocketType, GuestType
    <2> QED
      BY <1>6, <1>9, <2>1 DEF WriterStop
  <1> QED
    BY <1>1, <1>2, <1>3, <1>4, <1>5, <1>7, <1>8, <1>9 DEF SocketStep

LEMMA CallStepType ==
    ASSUME TypeInv, NEW c \in Calls, CallStep(c)
    PROVE  TypeInv'
  <1>0. TypeOK /\ Dialed
    BY DEF TypeInv
  <1>1. ASSUME CallFrame, SocketType', CallType',
               nextId' \in Nat, pending' \subseteq Calls
        PROVE  TypeInv'
    <2>1. TableType'
      BY <1>0, <1>1 DEF CallFrame, TypeOK, TableType
    <2>2. LineType' /\ LinkType' /\ LockType' /\ GuestType' /\ WaitType'
      BY <1>0, <1>1, Frames1, Frames2 DEF CallFrame, TypeOK
    <2> QED
      BY <1>0, <1>1, <2>1, <2>2 DEF CallFrame, TypeInv, TypeOK, Dialed
  <1>2. ASSUME CallFrame, UNCHANGED outq
        PROVE  SocketType'
    BY <1>0, <1>2 DEF CallFrame, TypeOK, SocketType
  <1>3. ASSUME NEW from, NEW to \in {"prepared", "waiting", "returned"},
               Advance(c, from, to)
        PROVE  call' \in [Calls -> {"unused", "prepared", "waiting", "returned"}]
    BY <1>0, <1>3 DEF Advance, TypeOK, CallType
  <1>4. CASE CallPrepare(c)
    <2>1. CallType'
      BY <1>0, <1>3, <1>4
      DEF CallPrepare, TypeOK, CallType, LinkType, TableType
    <2> QED
      BY <1>0, <1>1, <1>2, <1>4, <2>1
      DEF CallPrepare, NextId, TypeOK, TableType
  <1>5. CASE CallSend(c)
    <2>1. CallType'
      BY <1>0, <1>3, <1>5 DEF CallSend, TypeOK, CallType
    <2>2. SocketType'
      <3>1. \A s \in Sockets : Append(outq[s], c) \in Seq(Calls)
        BY <1>0 DEF TypeOK, SocketType
      <3>2. outq' \in [Sockets -> Seq(Calls)]
        BY <1>0, <1>5, <3>1 DEF CallSend, TypeOK, SocketType
      <3> QED
        BY <1>0, <1>5, <3>2 DEF CallSend, CallFrame, TypeOK, SocketType
    <2> QED
      BY <1>0, <1>1, <1>5, <2>1, <2>2 DEF CallSend, TypeOK, TableType
  <1>6. ASSUME NEW from, NEW v \in Verdicts, Advance(c, from, "returned"),
               Withdraw(c, v)
        PROVE  TypeInv'
    <2>1. CallType'
      BY <1>0, <1>3, <1>6, ResolveType DEF Withdraw, TypeOK, CallType
    <2> QED
      BY <1>0, <1>1, <1>2, <1>6, <2>1 DEF Withdraw, TypeOK, TableType
  <1>7. CASE CallSendFails(c)
    BY <1>6, <1>7 DEF CallSendFails, Verdicts
  <1>8. CASE CallTimeout(c)
    BY <1>6, <1>8 DEF CallTimeout, Verdicts
  <1>9. CASE CallReturn(c)
    <2>1. CallType'
      BY <1>0, <1>3, <1>9 DEF CallReturn, TypeOK, CallType
    <2> QED
      BY <1>0, <1>1, <1>2, <1>9, <2>1 DEF CallReturn, TypeOK, TableType
  <1>10. CASE CallDrop(c)
    <2>1. CallType'
      BY <1>0, <1>3, <1>10, ResolveType
      DEF CallDrop, TypeOK, CallType, Verdicts
    <2> QED
      BY <1>0, <1>1, <1>2, <1>10, <2>1 DEF CallDrop, TypeOK, TableType
  <1> QED
    BY <1>4, <1>5, <1>7, <1>8, <1>9, <1>10 DEF CallStep

LEMMA WaitStepType ==
    ASSUME TypeInv, NEW c \in Calls, WaitStep(c)
    PROVE  TypeInv'
  <1>0. TypeOK /\ Dialed
    BY DEF TypeInv
  <1>1. ASSUME WaitFrame, WaitType', handlers' \subseteq StartCalls,
               orphans' \in [Calls -> Seq(Frames)], orphanCount' \in Int
        PROVE  TypeInv'
    <2>1. TableType'
      BY <1>0, <1>1 DEF WaitFrame, TypeOK, TableType
    <2>2. LineType' /\ LinkType' /\ LockType' /\ GuestType' /\ CallType'
          /\ SocketType'
      BY <1>0, <1>1, Frames1, Frames2 DEF WaitFrame, TypeOK, socketVars
    <2> QED
      BY <1>0, <1>1, <2>1, <2>2
      DEF WaitFrame, TypeInv, TypeOK, Dialed, socketVars
  <1>2. CASE RegisterCommand(c)
    <2>1. WaitType'
      BY <1>0, <1>2
      DEF RegisterCommand, MoveWait, Flush, Orphans, TypeOK, WaitType, TableType
    <2>2. orphans' \in [Calls -> Seq(Frames)]
      BY <1>0, <1>2 DEF RegisterCommand, Flush, TypeOK, TableType
    <2>3. orphanCount' \in Int
      BY <1>0, <1>2 DEF RegisterCommand, Flush, CountWithout, TypeOK, TableType
    <2> QED
      BY <1>0, <1>1, <1>2, <2>1, <2>2, <2>3
      DEF RegisterCommand, TypeOK, TableType
  <1>3. CASE WaitExit(c)
    <2>1. WaitType'
      BY <1>0, <1>3 DEF WaitExit, MoveWait, TypeOK, WaitType
    <2> QED
      BY <1>0, <1>1, <1>3, <2>1 DEF WaitExit, Unregister, TypeOK, TableType
  <1>4. CASE WaitClosed(c)
    <2>1. WaitType'
      BY <1>0, <1>4 DEF WaitClosed, MoveWait, Discard, TypeOK, WaitType
    <2> QED
      BY <1>0, <1>1, <1>4, <2>1 DEF WaitClosed, TypeOK, TableType
  <1>5. CASE WaitDeadline(c)
    <2>1. WaitType'
      BY <1>0, <1>5 DEF WaitDeadline, MoveWait, TypeOK, WaitType
    <2> QED
      BY <1>0, <1>1, <1>5, <2>1 DEF WaitDeadline, TypeOK, TableType
  <1>6. CASE WaitKilled(c)
    <2>1. WaitType'
      BY <1>0, <1>6 DEF WaitKilled, MoveWait, Discard, TypeOK, WaitType
    <2> QED
      BY <1>0, <1>1, <1>6, <2>1 DEF WaitKilled, Unregister, TypeOK, TableType
  <1>7. CASE WaitDrop(c)
    <2>1. WaitType'
      BY <1>0, <1>7 DEF WaitDrop, MoveWait, Discard, TypeOK, WaitType
    <2> QED
      BY <1>0, <1>1, <1>7, <2>1 DEF WaitDrop, TypeOK, TableType
  <1> QED
    BY <1>2, <1>3, <1>4, <1>5, <1>6, <1>7 DEF WaitStep

LEMMA StutterType == TypeInv /\ UNCHANGED vars => TypeInv'
  BY Frames1, Frames2
  DEF vars, innerVars, socketVars, TypeInv, TypeOK, Dialed

LEMMA NextType == TypeInv /\ [Next]_vars => TypeInv'
  BY ConnectType, CloseType, SocketStepType, CallStepType, WaitStepType,
     StutterType
  DEF Next

LEMMA Typing == Spec => []TypeInv
  BY InitType, NextType, PTL DEF Spec

\* Every variable keeps its type in every behaviour, with any number of tasks,
\* sockets, calls and commands.
THEOREM TypeCorrect == Spec => []TypeOK
  BY Typing, PTL DEF TypeInv

-----------------------------------------------------------------------------
(***************************************************************************)
(* Nobody waits on a channel that is torn down.  The invariant says where  *)
(* the waiters are: the tables are empty while the socket is not open, and *)
(* a call in flight without a verdict is in the table that fail_all drains. *)
(***************************************************************************)
QuietInv ==
    /\ wsOpen \/ (pending = {} /\ handlers = {})
    /\ \A c \in Calls : InFlight(c) /\ outcome[c] = "none" => c \in pending

LEMMA QuietImplied == QuietInv => TornDownIsQuiet
  BY DEF QuietInv, TornDownIsQuiet

LEMMA QuietFrame ==
    ASSUME QuietInv, UNCHANGED <<wsOpen, pending, handlers, call, outcome>>
    PROVE  QuietInv'
  BY DEF QuietInv, InFlight

LEMMA FailAllQuiet ==
    ASSUME TypeOK, QuietInv, FailAll
    PROVE  QuietInv'
  <1>1. pending' = {} /\ handlers' = {}
    BY DEF FailAll, DropHandlers
  <1>2. ASSUME NEW c \in Calls, InFlight(c)', outcome'[c] = "none"
        PROVE  FALSE
    <2>1. outcome[c] = "none" /\ c \notin pending
      BY <1>2 DEF FailAll, Resolve
    <2>2. InFlight(c)
      BY <1>2 DEF FailAll, InFlight
    <2> QED
      BY <2>1, <2>2 DEF QuietInv
  <1> QED
    BY <1>1, <1>2 DEF QuietInv

LEMMA EndOfLineQuiet ==
    ASSUME TypeOK, QuietInv, NEW s \in Sockets, NEW m \in Lines, EndOfLine(s, m)
    PROVE  QuietInv'
  <1>1. UNCHANGED <<wsOpen, handlers, call>>
    BY DEF EndOfLine, linkVars
  <1>2. CASE rxBuffer # half[s] \/ m.kind = "frame"
    <2>1. UNCHANGED <<pending, outcome>>
      BY <1>2 DEF EndOfLine, Dispatch, DispatchFrame
    <2> QED
      BY <1>1, <2>1, QuietFrame
  <1>3. CASE rxBuffer = half[s] /\ m.kind # "frame"
    <2>1. DispatchReply(m)
      BY <1>3 DEF EndOfLine, Dispatch
    <2>2. PICK hit : pending' = pending \ hit /\ Resolve(hit, m.kind)
      BY <2>1 DEF DispatchReply
    <2>3. m.kind # "none"
      BY DEF Lines
    <2>4. ASSUME NEW c \in Calls, InFlight(c)', outcome'[c] = "none"
          PROVE  c \in pending'
      <3>1. outcome[c] = "none" /\ c \notin hit
        BY <2>2, <2>3, <2>4 DEF Resolve
      <3>2. InFlight(c)
        BY <1>1, <2>4 DEF InFlight
      <3> QED
        BY <2>2, <3>1, <3>2 DEF QuietInv
    <2> QED
      BY <1>1, <2>2, <2>4 DEF QuietInv
  <1> QED
    BY <1>2, <1>3

LEMMA CallStepQuiet ==
    ASSUME TypeOK, QuietInv, NEW c \in Calls, CallStep(c)
    PROVE  QuietInv'
  <1>1. UNCHANGED <<wsOpen, handlers>>
    BY DEF CallStep, CallPrepare, CallSend, CallSendFails, CallReturn,
           CallTimeout, CallDrop, Withdraw, CallFrame, linkVars
  <1>2. CASE CallPrepare(c)
    <2>1. wsOpen /\ pending' = pending \cup {c} /\ UNCHANGED outcome
      BY <1>2 DEF CallPrepare, MayCall
    <2>2. \A d \in Calls : InFlight(d)' => InFlight(d) \/ d = c
      BY <1>2 DEF CallPrepare, Advance, InFlight, TypeOK, CallType
    <2> QED
      BY <1>1, <2>1, <2>2 DEF QuietInv
  <1>3. ASSUME NEW from \in {"prepared", "waiting"}, NEW to, Advance(c, from, to)
        PROVE  \A d \in Calls : InFlight(d)' => InFlight(d)
    BY <1>3 DEF Advance, InFlight, TypeOK, CallType
  <1>4. CASE CallSend(c) \/ CallReturn(c)
    BY <1>1, <1>3, <1>4 DEF CallSend, CallReturn, QuietInv
  <1>5. CASE CallDrop(c)
    <2>1. \A d \in Calls : outcome'[d] = "none" => outcome[d] = "none"
      BY <1>5 DEF CallDrop, Resolve
    <2> QED
      BY <1>1, <1>3, <1>5, <2>1 DEF CallDrop, QuietInv
  <1>6. ASSUME NEW from \in {"prepared", "waiting"}, Advance(c, from, "returned"),
               NEW v \in Verdicts, Withdraw(c, v)
        PROVE  QuietInv'
    <2>1. \A d \in Calls : outcome'[d] = "none" => outcome[d] = "none" /\ d # c
      BY <1>6 DEF Withdraw, Resolve, Verdicts
    <2>2. \A d \in Calls : InFlight(d)' => InFlight(d)
      BY <1>3, <1>6
    <2> QED
      BY <1>1, <1>6, <2>1, <2>2 DEF Withdraw, QuietInv
  <1>7. CASE CallSendFails(c) \/ CallTimeout(c)
    BY <1>6, <1>7 DEF CallSendFails, CallTimeout, Verdicts
  <1> QED
    BY <1>2, <1>4, <1>5, <1>7 DEF CallStep

LEMMA NextQuiet == TypeOK /\ QuietInv /\ [Next]_vars => QuietInv'
  <1> SUFFICES ASSUME TypeOK, QuietInv, [Next]_vars
               PROVE  QuietInv'
    OBVIOUS
  <1>1. ASSUME NEW t \in Tasks, ConnectStep(t)
        PROVE  QuietInv'
    <2>1. UNCHANGED <<pending, handlers, call, outcome>>
      BY <1>1
      DEF ConnectStep, Connect, Reconnect, ReconnectStore, LeaveQueue, Lock,
          DialOk, DialFail, DialTimeout, Install, StoreFlag, TaskFrame,
          innerVars, tableVars, callVars
    <2>2. wsOpen' = wsOpen \/ wsOpen' = TRUE
      BY <1>1
      DEF ConnectStep, Connect, Reconnect, ReconnectStore, LeaveQueue, Lock,
          DialOk, DialFail, DialTimeout, Install, StoreFlag, innerVars, linkVars
    <2> QED
      BY <2>1, <2>2 DEF QuietInv, InFlight
  <1>2. ASSUME NEW t \in Tasks, CloseStep(t)
        PROVE  QuietInv'
    <2>1. CASE CloseFlag(t) \/ CloseMark(t)
      BY <2>1, QuietFrame
      DEF CloseFlag, CloseMark, TaskFrame, linkVars, tableVars, callVars
    <2>2. CASE CloseFailAll(t)
      BY <2>2, FailAllQuiet DEF CloseFailAll
    <2> QED
      BY <1>2, <2>1, <2>2 DEF CloseStep
  <1>3. ASSUME NEW s \in Sockets, SocketStep(s)
        PROVE  QuietInv'
    <2>1. CASE FeedLine(s)
      BY <2>1, EndOfLineQuiet DEF FeedLine, Sayable
    <2>2. CASE FeedTail(s)
      BY <2>2, EndOfLineQuiet DEF FeedTail, TypeOK, LineType
    <2>3. CASE ReaderFailAll(s)
      BY <2>3, FailAllQuiet DEF ReaderFailAll
    <2>4. CASE \/ FeedHead(s) \/ ReaderEnd(s) \/ WriterSend(s) \/ WriterFail(s)
               \/ WriterStop(s)
      BY <2>4, QuietFrame
      DEF FeedHead, ReaderEnd, WriterSend, WriterFail, WriterStop, WriterFrame,
          innerVars, linkVars, tableVars, callVars
    <2> QED
      BY <1>3, <2>1, <2>2, <2>3, <2>4 DEF SocketStep
  <1>4. ASSUME NEW c \in Calls, WaitStep(c)
        PROVE  QuietInv'
    <2>1. UNCHANGED <<wsOpen, pending, call, outcome>>
      BY <1>4
      DEF WaitStep, RegisterCommand, WaitExit, WaitClosed, WaitDeadline,
          WaitKilled, WaitDrop, WaitFrame, linkVars, callVars
    <2>2. handlers' \subseteq handlers \/ wsOpen
      BY <1>4
      DEF WaitStep, RegisterCommand, WaitExit, WaitClosed, WaitDeadline,
          WaitKilled, WaitDrop, Unregister, Alive
    <2> QED
      BY <2>1, <2>2 DEF QuietInv, InFlight
  <1>5. CASE UNCHANGED vars
    BY <1>5, QuietFrame DEF vars, innerVars, linkVars, tableVars, callVars
  <1> QED
    BY <1>1, <1>2, <1>3, <1>4, <1>5, CallStepQuiet DEF Next

LEMMA InitQuiet == Init => QuietInv
  BY DEF Init, QuietInv, InFlight

\* While the socket is not open, no call is without a verdict and no wait for a
\* command blocks: a tear-down misses nobody, however it races callers.
THEOREM TornDownQuiet == Spec => []TornDownIsQuiet
  <1>1. Spec => []QuietInv
    BY TypeCorrect, InitQuiet, NextQuiet, PTL DEF Spec
  <1> QED
    BY <1>1, QuietImplied, PTL

=============================================================================
