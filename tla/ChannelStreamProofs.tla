------------------------- MODULE ChannelStreamProofs -------------------------
(***************************************************************************)
(* Proofs about ControlChannel: the frames of a command.  They come in     *)
(* order, the buffer of the early ones counts what it holds, and none is   *)
(* missing on the connection its command was started over.                 *)
(***************************************************************************)
EXTENDS ChannelReplyProofs, InductionLemmas

(***************************************************************************)
(* The frames of a command.  What is kept of them, before and after the    *)
(* registration, rises and is no further than the guest has come; the line *)
(* a reader is in the middle of is the next.                               *)
(***************************************************************************)
Rising(q, n) ==
    /\ \A i \in 1 .. Len(q) : q[i] <= n
    /\ \A i \in 1 .. Len(q) - 1 : q[i] < q[i + 1]

NextFrame(m) == m.kind = "frame" => m.n = emitted[m.call] + 1

StreamInv ==
    /\ \A c \in Calls : /\ Rising(orphans[c], emitted[c])
                       /\ Rising(inbox[c], emitted[c])
    /\ \A s \in Sockets : NextFrame(half[s])

LEMMA FramesOf ==
    ASSUME NEW q \in Seq(Frames)  PROVE  \A i \in 1 .. Len(q) : q[i] \in Int
  <1>1. \A i \in 1 .. Len(q) : q[i] \in Frames
    OBVIOUS
  <1>2. Frames \subseteq Int
    BY DEF Frames
  <1> QED
    BY <1>1, <1>2

LEMMA RisingAppend ==
    ASSUME NEW q \in Seq(Frames), NEW n \in Nat, Rising(q, n), n + 1 \in Frames
    PROVE  Append(q, n + 1) \in Seq(Frames) /\ Rising(Append(q, n + 1), n + 1)
  <1>1. Append(q, n + 1) \in Seq(Frames) /\ Len(Append(q, n + 1)) = Len(q) + 1
    OBVIOUS
  <1>2. \A i \in 1 .. Len(q) + 1 :
           Append(q, n + 1)[i] = IF i <= Len(q) THEN q[i] ELSE n + 1
    <2>1. Len(q) \in Nat
      OBVIOUS
    <2>2. SUFFICES ASSUME NEW i \in 1 .. Len(q) + 1
                   PROVE  Append(q, n + 1)[i] =
                             IF i <= Len(q) THEN q[i] ELSE n + 1
      OBVIOUS
    <2>3. i = Len(q) + 1 \/ i \in 1 .. Len(q)
      BY <2>1
    <2>4. CASE i = Len(q) + 1
      BY <2>1, <2>4
    <2>5. CASE i \in 1 .. Len(q)
      BY <2>1, <2>5
    <2> QED
      BY <2>3, <2>4, <2>5
  <1>3. \A i \in 1 .. Len(q) : q[i] \in Int
    BY FramesOf
  <1>4. Len(q) \in Nat
    OBVIOUS
  <1>5. \A i \in 1 .. Len(q) + 1 : Append(q, n + 1)[i] <= n + 1
    BY <1>2, <1>3, <1>4 DEF Rising
  <1>6. ASSUME NEW i \in 1 .. Len(q)
        PROVE  Append(q, n + 1)[i] < Append(q, n + 1)[i + 1]
    <2>1. CASE i = Len(q)
      BY <1>2, <1>3, <1>4, <2>1 DEF Rising
    <2>2. CASE i < Len(q)
      BY <1>2, <1>3, <1>4, <2>2 DEF Rising
    <2> QED
      BY <1>4, <2>1, <2>2
  <1> QED
    BY <1>1, <1>4, <1>5, <1>6 DEF Rising

LEMMA RisingGrows ==
    ASSUME NEW q \in Seq(Frames), NEW n \in Nat, Rising(q, n)
    PROVE  Rising(q, n + 1)
  <1>1. \A i \in 1 .. Len(q) : q[i] \in Int
    BY FramesOf
  <1>2. \A i \in 1 .. Len(q) : q[i] <= n + 1
    BY <1>1 DEF Rising
  <1> QED
    BY <1>2 DEF Rising

LEMMA RisingEmpty == \A n : Rising(<<>>, n)
  BY DEF Rising

\* The reader of s feeds m, the next line of its call.
LEMMA EndOfLineStream ==
    ASSUME TypeInv, ReplyInv, StreamInv, NEW s \in Sockets, NEW m \in Lines,
           EndOfLine(s, m), callSock[m.call] = s, NextFrame(m)
    PROVE  StreamInv'
  <1>0. TypeOK /\ m.call \in Calls /\ m.n \in Int
    BY DEF TypeInv, Lines, Frames
  <1>1. \A r \in Sockets : NextFrame(half[r])'
    <2>1. ASSUME NEW r \in Sockets, r # s, half[r] # Blank
          PROVE  NextFrame(half[r])'
      <3>1. callSock[half[r].call] = r /\ half'[r] = half[r]
        BY <1>0, <2>1 DEF ReplyInv, HalfInv, EndOfLine, TypeOK, LineType
      <3>2. half[r].call \in Calls
        BY <1>0, <2>1 DEF TypeOK, LineType, Lines
      <3>3. emitted'[half[r].call] = emitted[half[r].call]
        BY <1>0, <2>1, <3>1, <3>2 DEF EndOfLine, GuestSays, TypeOK, GuestType
      <3> QED
        BY <3>1, <3>3 DEF StreamInv, NextFrame
    <2>2. ASSUME NEW r \in Sockets, half'[r] = Blank
          PROVE  NextFrame(half[r])'
      BY <2>2 DEF NextFrame, Blank, Line
    <2>3. \A r \in Sockets : half'[r] = Blank \/ (r # s /\ half'[r] = half[r])
      BY <1>0 DEF EndOfLine, TypeOK, LineType
    <2> QED
      BY <2>1, <2>2, <2>3
  <1>2. CASE m.kind # "frame"
    <2>1. emitted' = emitted /\ orphans' = orphans /\ inbox' = inbox
      BY <1>2 DEF EndOfLine, GuestSays, Dispatch, DispatchReply
    <2> QED
      BY <1>1, <2>1 DEF StreamInv
  <1>3. CASE m.kind = "frame"
    <2> DEFINE n == emitted[m.call]
    <2>1. m.n = n + 1 /\ m.n \in Frames /\ n \in Nat
      BY <1>0, <1>3 DEF NextFrame, Lines, TypeOK, GuestType
    <2>2. /\ emitted'[m.call] = n + 1
          /\ \A c \in Calls : c # m.call => emitted'[c] = emitted[c]
      BY <1>0, <1>3, <2>1 DEF EndOfLine, GuestSays, TypeOK, GuestType
    <2>3. /\ \/ orphans' = orphans
             \/ orphans' = [orphans EXCEPT ![m.call] = Append(@, m.n)]
          /\ \/ inbox' = inbox
             \/ inbox' = [inbox EXCEPT ![m.call] = Append(@, m.n)]
      BY <1>3 DEF EndOfLine, Dispatch, DispatchFrame
    <2>4. orphans \in [Calls -> Seq(Frames)] /\ inbox \in [Calls -> Seq(Frames)]
      BY <1>0 DEF TypeOK, TableType, WaitType
    <2>5. ASSUME NEW c \in Calls, c # m.call
          PROVE  Rising(orphans[c], emitted[c])' /\ Rising(inbox[c], emitted[c])'
      <3>1. orphans'[c] = orphans[c] /\ inbox'[c] = inbox[c] /\ emitted'[c] = emitted[c]
        BY <2>2, <2>3, <2>4, <2>5
      <3> QED
        BY <3>1 DEF StreamInv
    <2>6. Rising(orphans'[m.call], n + 1)
      <3>1. orphans'[m.call] \in {orphans[m.call],
                                  Append(orphans[m.call], n + 1)}
        BY <1>0, <2>1, <2>3, <2>4
      <3>2. orphans[m.call] \in Seq(Frames) /\ Rising(orphans[m.call], n)
        BY <1>0, <2>4 DEF StreamInv
      <3> QED
        BY <2>1, <3>1, <3>2, RisingAppend, RisingGrows
    <2>7. Rising(inbox'[m.call], n + 1)
      <3>1. inbox'[m.call] \in {inbox[m.call],
                                Append(inbox[m.call], n + 1)}
        BY <1>0, <2>1, <2>3, <2>4
      <3>2. inbox[m.call] \in Seq(Frames) /\ Rising(inbox[m.call], n)
        BY <1>0, <2>4 DEF StreamInv
      <3> QED
        BY <2>1, <3>1, <3>2, RisingAppend, RisingGrows
    <2>8. \A c \in Calls : /\ Rising(orphans[c], emitted[c])'
                            /\ Rising(inbox[c], emitted[c])'
      BY <2>2, <2>5, <2>6, <2>7
    <2> QED
      BY <1>1, <2>8 DEF StreamInv
  <1> QED
    BY <1>2, <1>3

\* What empties a sequence, hands one over or lets it be.
LEMMA StreamFrame ==
    ASSUME StreamInv, UNCHANGED emitted,
           \A c \in Calls : /\ orphans'[c] \in {orphans[c], <<>>}
                            /\ inbox'[c] \in {inbox[c], orphans[c], <<>>},
           \A s \in Sockets : half'[s] \in {half[s], Blank}
    PROVE  StreamInv'
  <1>1. ASSUME NEW c \in Calls
        PROVE  Rising(orphans[c], emitted[c])' /\ Rising(inbox[c], emitted[c])'
    BY RisingEmpty DEF StreamInv
  <1>2. ASSUME NEW s \in Sockets
        PROVE  NextFrame(half[s])'
    BY DEF StreamInv, NextFrame, Blank, Line
  <1> QED
    BY <1>1, <1>2 DEF StreamInv

LEMMA SocketStepStream ==
    ASSUME TypeInv, ReplyInv, StreamInv, NEW s \in Sockets, SocketStep(s)
    PROVE  StreamInv'
  <1>0. TypeOK
    BY DEF TypeInv
  <1>1. CASE FeedLine(s)
    <2>1. PICK m \in Sayable(s) : EndOfLine(s, m)
      BY <1>1 DEF FeedLine
    <2>2. m \in Lines /\ callSock[m.call] = s /\ NextFrame(m)
      BY <2>1 DEF Sayable, NextFrame
    <2> QED
      BY <2>1, <2>2, EndOfLineStream
  <1>2. CASE FeedTail(s)
    <2>1. half[s] \in Lines /\ HalfInv(s) /\ NextFrame(half[s])
      BY <1>0, <1>2 DEF FeedTail, TypeOK, LineType, ReplyInv, StreamInv
    <2> QED
      BY <1>2, <2>1, EndOfLineStream DEF FeedTail, HalfInv
  <1>3. CASE FeedHead(s)
    <2>1. PICK m \in Sayable(s) : half' = [half EXCEPT ![s] = m]
      BY <1>3 DEF FeedHead
    <2>2. UNCHANGED <<emitted, orphans, inbox>> /\ NextFrame(m)
      BY <1>3, <2>1 DEF FeedHead, guestVars, tableVars, waitVars, Sayable, NextFrame
    <2>3. \A r \in Sockets : half'[r] = half[r] \/ half'[r] = m
      BY <1>0, <2>1 DEF TypeOK, LineType
    <2>4. \A r \in Sockets : NextFrame(half[r])'
      BY <2>2, <2>3 DEF StreamInv, NextFrame
    <2> QED
      BY <2>2, <2>4 DEF StreamInv
  <1>4. CASE ReaderEnd(s)
    <2>1. /\ UNCHANGED <<emitted, orphans, inbox>>
          /\ \A r \in Sockets : half'[r] \in {half[r], Blank}
      BY <1>0, <1>4
      DEF ReaderEnd, guestVars, innerVars, tableVars, waitVars, TypeOK, LineType
    <2> QED
      BY <2>1, StreamFrame
  <1>5. CASE ReaderFailAll(s)
    <2>1. /\ UNCHANGED <<emitted, inbox, half>>
          /\ \A c \in Calls : orphans'[c] = <<>>
      BY <1>5 DEF ReaderFailAll, FailAll, guestVars, waitVars
    <2> QED
      BY <2>1, StreamFrame
  <1>6. CASE WriterSend(s) \/ WriterFail(s) \/ WriterStop(s)
    <2>1. UNCHANGED <<emitted, orphans, inbox, half>>
      BY <1>6
      DEF WriterSend, WriterFail, WriterStop, WriterFrame, innerVars, tableVars,
          waitVars
    <2> QED
      BY <2>1, StreamFrame
  <1> QED
    BY <1>1, <1>2, <1>3, <1>4, <1>5, <1>6 DEF SocketStep

LEMMA NextStream ==
    ASSUME TypeInv, ReplyInv, StreamInv, [Next]_vars
    PROVE  StreamInv'
  <1>0. TypeOK
    BY DEF TypeInv
  <1>1. CASE \E t \in Tasks : ConnectStep(t) \/ CloseFlag(t) \/ CloseMark(t)
    <2>1. UNCHANGED <<emitted, orphans, inbox, half>>
      BY <1>1
      DEF ConnectStep, Connect, Reconnect, ReconnectStore, LeaveQueue, Lock,
          DialOk, DialFail, DialTimeout, Install, StoreFlag, TaskFrame,
          CloseFlag, CloseMark, socketVars, guestVars, tableVars, waitVars,
          innerVars
    <2> QED
      BY <2>1, StreamFrame
  <1>2. CASE \E t \in Tasks : CloseFailAll(t)
    <2>1. /\ UNCHANGED <<emitted, inbox, half>>
          /\ \A c \in Calls : orphans'[c] = <<>>
      BY <1>2 DEF CloseFailAll, FailAll, guestVars, waitVars, socketVars
    <2> QED
      BY <2>1, StreamFrame
  <1>3. CASE \E c \in Calls : CallStep(c)
    <2>1. UNCHANGED <<emitted, orphans, inbox, half>>
      BY <1>3
      DEF CallStep, CallPrepare, CallSend, CallSendFails, CallReturn,
          CallTimeout, CallDrop, Withdraw, CallFrame, guestVars, waitVars
    <2> QED
      BY <2>1, StreamFrame
  <1>4. ASSUME NEW c \in Calls, WaitStep(c)
        PROVE  StreamInv'
    <2>1. UNCHANGED <<emitted, half>>
      BY <1>4
      DEF WaitStep, RegisterCommand, WaitExit, WaitClosed, WaitDeadline,
          WaitKilled, WaitDrop, WaitFrame, guestVars, socketVars
    <2>2. \/ UNCHANGED orphans
             /\ (inbox' = inbox \/ inbox' = [inbox EXCEPT ![c] = <<>>])
          \/ Flush(c)
      BY <1>4
      DEF WaitStep, RegisterCommand, WaitExit, WaitClosed, WaitDeadline,
          WaitKilled, WaitDrop, Unregister, Discard
    <2>3. \A d \in Calls : /\ orphans'[d] \in {orphans[d], <<>>}
                           /\ inbox'[d] \in {inbox[d], orphans[d], <<>>}
      BY <1>0, <2>2 DEF Flush, Orphans, TypeOK, TableType, WaitType
    <2> QED
      BY <2>1, <2>3, StreamFrame
  <1>5. CASE UNCHANGED vars
    <2>1. UNCHANGED <<emitted, orphans, inbox, half>>
      BY <1>5 DEF vars, innerVars, tableVars, socketVars, guestVars, waitVars
    <2> QED
      BY <2>1, StreamFrame
  <1> QED
    BY <1>1, <1>2, <1>3, <1>4, <1>5, SocketStepStream DEF Next, CloseStep

\* No wait sees a frame twice or before an earlier one, for any number of
\* sockets, commands and frames and any orphan limit, lines cut over messages
\* included.
THEOREM StreamsInOrder == Spec => []StreamInOrder
  <1>1. Init => ReplyInv
    BY DEF Init, ReplyInv, QueueInv, HalfInv, OwnReply
  <1>2. Init => StreamInv
    BY RisingEmpty DEF Init, StreamInv, NextFrame, Blank, Line
  <1>3. StreamInv => StreamInOrder
    BY ShapeAssumption DEF StreamInv, Rising, StreamInOrder
  <1> QED
    BY <1>1, <1>2, <1>3, Typing, Ids, NextReply, NextStream, PTL DEF Spec

-----------------------------------------------------------------------------
(***************************************************************************)
(* The buffer of early frames.  Its count is a sum over the table, and a    *)
(* sum follows its addends: OrphansAccounted is inductive as it stands.     *)
(***************************************************************************)
Lengths(table) == [c \in Calls |-> Len(table[c])]

LEMMA CallsAreFinite == IsFiniteSet(Calls)
  BY FS_Interval, BoundsAssumption DEF Calls

LEMMA LengthsType ==
    ASSUME NEW table \in [Calls -> Seq(Frames)]
    PROVE  Lengths(table) \in [Calls -> Nat]
  BY DEF Lengths

\* One sequence of the table replaced.
LEMMA CountFollows ==
    ASSUME NEW table \in [Calls -> Seq(Frames)], NEW c \in Calls,
           NEW q \in Seq(Frames)
    PROVE  SumFunction(Lengths([table EXCEPT ![c] = q])) =
              SumFunction(Lengths(table)) - Len(table[c]) + Len(q)
  <1>1. Lengths([table EXCEPT ![c] = q]) = [Lengths(table) EXCEPT ![c] = Len(q)]
    BY DEF Lengths
  <1>2. Lengths(table) \in [Calls -> Int] /\ Lengths(table)[c] = Len(table[c])
    BY LengthsType DEF Lengths
  <1>3. Len(q) \in Int
    OBVIOUS
  <1>4. SumFunction([Lengths(table) EXCEPT ![c] = Len(q)]) =
           SumFunction(Lengths(table)) - Lengths(table)[c] + Len(q)
    BY <1>2, <1>3, CallsAreFinite, SumUpdate
  <1> QED
    BY <1>1, <1>2, <1>4

\* An empty table.
LEMMA CountOfNone ==
    ASSUME NEW table, \A c \in Calls : table[c] = <<>>
    PROVE  SumFunction(Lengths(table)) = 0
  <1>1. Lengths(table) = [c \in Calls |-> 0]
    BY DEF Lengths
  <1> QED
    BY <1>1, CallsAreFinite, SumZero

OrphanInv ==
    /\ orphanCount = SumFunction(Lengths(orphans))
    /\ orphanCount <= MaxOrphans
    /\ \A c \in handlers : orphans[c] = <<>>

LEMMA OrphansImplied == OrphanInv <=> OrphansAccounted
  BY DEF OrphanInv, OrphansAccounted, Lengths

LEMMA OrphanFrame ==
    ASSUME OrphanInv, UNCHANGED <<orphans, orphanCount>>,
           handlers' \subseteq handlers
    PROVE  OrphanInv'
  BY DEF OrphanInv, Lengths

LEMMA FailAllOrphans ==
    ASSUME FailAll
    PROVE  OrphanInv'
  <1>1. /\ \A c \in Calls : orphans'[c] = <<>>
        /\ orphanCount' = 0 /\ handlers' = {}
    BY DEF FailAll, DropHandlers
  <1>2. SumFunction(Lengths(orphans')) = 0
    BY <1>1, CountOfNone
  <1> QED
    BY <1>1, <1>2, BoundsAssumption DEF OrphanInv, Lengths

LEMMA EndOfLineOrphans ==
    ASSUME TypeOK, OrphanInv, NEW s \in Sockets, NEW m \in Lines,
           EndOfLine(s, m)
    PROVE  OrphanInv'
  <1>1. handlers' = handlers
    BY DEF EndOfLine
  <1>2. CASE UNCHANGED <<orphans, orphanCount>>
    BY <1>1, <1>2, OrphanFrame
  <1>3. CASE /\ m.kind = "frame" /\ m.call \notin handlers
             /\ orphanCount < MaxOrphans
             /\ orphans' = [orphans EXCEPT ![m.call] = Append(@, m.n)]
             /\ orphanCount' = orphanCount + 1
    <2>1. m.call \in Calls /\ m.n \in Frames
      BY <1>3 DEF Lines
    <2>2. orphans \in [Calls -> Seq(Frames)] /\ orphanCount \in Int
      BY DEF TypeOK, TableType
    <2> DEFINE q == Append(orphans[m.call], m.n)
    <2>3. q \in Seq(Frames) /\ Len(q) = Len(orphans[m.call]) + 1
          /\ Len(orphans[m.call]) \in Int
      BY <2>1, <2>2
    <2>4. orphans' = [orphans EXCEPT ![m.call] = q]
      BY <1>3
    <2> HIDE DEF q
    <2>5. SumFunction(Lengths(orphans')) =
             SumFunction(Lengths(orphans)) - Len(orphans[m.call]) + Len(q)
      BY <2>1, <2>2, <2>3, <2>4, CountFollows
    <2>6. orphanCount' = SumFunction(Lengths(orphans'))
      BY <1>3, <2>2, <2>3, <2>5 DEF OrphanInv
    <2>7. orphanCount' <= MaxOrphans
      BY <1>3, <2>2, BoundsAssumption
    <2>8. \A c \in handlers' : orphans'[c] = <<>>
      BY <1>1, <1>3, <2>2 DEF OrphanInv
    <2> QED
      BY <2>6, <2>7, <2>8 DEF OrphanInv, Lengths
  <1> QED
    BY <1>2, <1>3 DEF EndOfLine, Dispatch, DispatchReply, DispatchFrame

\* The registration takes what is held for the command, and what is counted.
LEMMA RegisterOrphans ==
    ASSUME TypeOK, OrphanInv, NEW c \in Calls, RegisterCommand(c)
    PROVE  OrphanInv'
  <1>1. /\ orphans' = [orphans EXCEPT ![c] = <<>>]
        /\ orphanCount' = orphanCount - Len(orphans[c])
        /\ handlers' \subseteq handlers \cup {c}
    BY DEF RegisterCommand, Flush, CountWithout
  <1>2. orphans \in [Calls -> Seq(Frames)] /\ orphanCount \in Int
        /\ Len(orphans[c]) \in Nat /\ handlers \subseteq Calls
    BY ShapeAssumption DEF TypeOK, TableType
  <1>3. SumFunction(Lengths(orphans')) =
           SumFunction(Lengths(orphans)) - Len(orphans[c]) + Len(<<>>)
    <2>1. <<>> \in Seq(Frames)
      OBVIOUS
    <2> QED
      BY <1>1, <1>2, <2>1, CountFollows
  <1>4. Len(<<>>) = 0
    OBVIOUS
  <1>5. orphanCount' = SumFunction(Lengths(orphans'))
    BY <1>1, <1>2, <1>3, <1>4 DEF OrphanInv
  <1>6. orphanCount' <= MaxOrphans
    BY <1>1, <1>2, BoundsAssumption DEF OrphanInv
  <1>7. \A d \in handlers' : orphans'[d] = <<>>
    BY <1>1, <1>2 DEF OrphanInv
  <1> QED
    BY <1>5, <1>6, <1>7 DEF OrphanInv, Lengths

LEMMA NextOrphans ==
    ASSUME TypeOK, OrphanInv, [Next]_vars
    PROVE  OrphanInv'
  <1>1. CASE \E t \in Tasks : ConnectStep(t) \/ CloseFlag(t) \/ CloseMark(t)
    <2>1. UNCHANGED <<orphans, orphanCount, handlers>>
      BY <1>1
      DEF ConnectStep, Connect, Reconnect, ReconnectStore, LeaveQueue, Lock,
          DialOk, DialFail, DialTimeout, Install, StoreFlag, TaskFrame,
          CloseFlag, CloseMark, tableVars, innerVars
    <2> QED
      BY <2>1, OrphanFrame
  <1>2. CASE \E t \in Tasks : CloseFailAll(t)
    BY <1>2, FailAllOrphans DEF CloseFailAll
  <1>3. ASSUME NEW s \in Sockets, SocketStep(s)
        PROVE  OrphanInv'
    <2>1. CASE FeedLine(s)
      BY <2>1, EndOfLineOrphans DEF FeedLine, Sayable
    <2>2. CASE FeedTail(s)
      BY <2>2, EndOfLineOrphans DEF FeedTail, TypeOK, LineType
    <2>3. CASE ReaderFailAll(s)
      BY <2>3, FailAllOrphans DEF ReaderFailAll
    <2>4. CASE \/ FeedHead(s) \/ ReaderEnd(s) \/ WriterSend(s) \/ WriterFail(s)
               \/ WriterStop(s)
      <3>1. UNCHANGED <<orphans, orphanCount, handlers>>
        BY <2>4
        DEF FeedHead, ReaderEnd, WriterSend, WriterFail, WriterStop,
            WriterFrame, innerVars, tableVars
      <3> QED
        BY <3>1, OrphanFrame
    <2> QED
      BY <1>3, <2>1, <2>2, <2>3, <2>4 DEF SocketStep
  <1>4. CASE \E c \in Calls : CallStep(c)
    <2>1. UNCHANGED <<orphans, orphanCount, handlers>>
      BY <1>4
      DEF CallStep, CallPrepare, CallSend, CallSendFails, CallReturn,
          CallTimeout, CallDrop, Withdraw, CallFrame
    <2> QED
      BY <2>1, OrphanFrame
  <1>5. ASSUME NEW c \in Calls, WaitStep(c)
        PROVE  OrphanInv'
    <2>1. CASE RegisterCommand(c)
      BY <2>1, RegisterOrphans
    <2>2. CASE ~RegisterCommand(c)
      <3>1. UNCHANGED <<orphans, orphanCount>> /\ handlers' \subseteq handlers
        BY <1>5, <2>2
        DEF WaitStep, WaitExit, WaitClosed, WaitDeadline, WaitKilled, WaitDrop,
            Unregister
      <3> QED
        BY <3>1, OrphanFrame
    <2> QED
      BY <2>1, <2>2
  <1>6. CASE UNCHANGED vars
    <2>1. UNCHANGED <<orphans, orphanCount, handlers>>
      BY <1>6 DEF vars, innerVars, tableVars
    <2> QED
      BY <2>1, OrphanFrame
  <1> QED
    BY <1>1, <1>2, <1>3, <1>4, <1>5, <1>6 DEF Next, CloseStep

LEMMA InitOrphans == Init => OrphanInv
  <1> SUFFICES ASSUME Init PROVE OrphanInv
    OBVIOUS
  <1>1. /\ \A c \in Calls : orphans[c] = <<>>
        /\ orphanCount = 0 /\ handlers = {}
    BY DEF Init
  <1>2. SumFunction(Lengths(orphans)) = 0
    BY <1>1, CountOfNone
  <1> QED
    BY <1>1, <1>2, BoundsAssumption DEF OrphanInv

\* The count of the orphan buffer is the number of frames in it, at most the
\* limit, and no frame lies there for a command that has its handlers, for any
\* number of commands, frames and sockets and any limit.
THEOREM OrphansAreAccounted == Spec => []OrphansAccounted
  <1>1. Spec => []OrphanInv
    BY InitOrphans, TypeCorrect, NextOrphans, PTL DEF Spec
  <1> QED
    BY <1>1, OrphansImplied, PTL

-----------------------------------------------------------------------------
(***************************************************************************)
(* Where the frames of a command come from, and go.  A socket about to be   *)
(* installed is nobody's yet: so a command whose socket is the channel's    *)
(* has had that one socket under it, and no tear-down, since it was asked   *)
(* for, and what the guest sent is in its orphans until it is registered    *)
(* and in its inbox from then on.                                           *)
(***************************************************************************)
LineInv == ~SplitFrames => rxBuffer = Blank /\ \A s \in Sockets : half[s] = Blank

SeatInv ==
    /\ \A c \in Calls : Used(c) => callSock[c] \in 1 .. nSock
    /\ writer # None => writer \in 1 .. nSock
    /\ \A t \in Tasks : pc[t] = "install" =>
          writer # nSock /\ \A c \in Calls : Used(c) => callSock[c] # nSock

OwnerInv ==
    /\ \A c \in Calls : ~Used(c) => waiter[c] = "none" /\ emitted[c] = 0
    /\ \A c \in handlers : waiter[c] # "none"

Roomy   == ~SplitFrames /\ Cardinality(StartCalls) * LastFrame <= MaxOrphans
Upto(n) == [i \in 1 .. n |-> i]

WholeInv ==
    Roomy =>
       /\ \A c \in Calls \ StartCalls : orphans[c] = <<>>
       /\ \A c \in StartCalls : Used(c) /\ writer = callSock[c] =>
             /\ waiter[c] = "none" => orphans[c] = Upto(emitted[c])
             /\ waiter[c] = "waiting" /\ c \in handlers =>
                   inbox[c] = Upto(emitted[c])

LEMMA WholeImplied == OwnerInv /\ WholeInv => StreamIsWhole
  <1>1. ASSUME OwnerInv, WholeInv, Roomy, NEW c \in StartCalls,
               waiter[c] = "waiting", c \in handlers, writer = callSock[c]
        PROVE  inbox[c] = [i \in 1 .. emitted[c] |-> i]
    <2>1. Used(c)
      BY <1>1, ShapeAssumption DEF OwnerInv
    <2> QED
      BY <1>1, <2>1 DEF WholeInv, Upto
  <1> QED
    BY <1>1 DEF StreamIsWhole, Roomy

\* Lines.
LEMMA NextLines ==
    ASSUME TypeOK, LineInv, [Next]_vars
    PROVE  LineInv'
  <1>1. CASE UNCHANGED <<rxBuffer, half>>
    BY <1>1 DEF LineInv
  <1>2. ASSUME NEW s \in Sockets, half' = [half EXCEPT ![s] = Blank],
               rxBuffer' \in {rxBuffer, Blank}
        PROVE  LineInv'
    BY <1>2 DEF LineInv, TypeOK, LineType
  <1>3. ASSUME NEW s \in Sockets, SocketStep(s)
        PROVE  LineInv'
    <2>1. CASE FeedLine(s) \/ FeedTail(s)
      BY <1>2, <2>1 DEF FeedLine, FeedTail, EndOfLine
    <2>2. CASE FeedHead(s)
      BY <2>2 DEF FeedHead, LineInv
    <2>3. CASE ReaderEnd(s)
      BY <1>2, <2>3 DEF ReaderEnd, innerVars
    <2>4. CASE ReaderFailAll(s)
      BY <1>1, <2>4 DEF ReaderFailAll, FailAll
    <2>5. CASE WriterSend(s) \/ WriterFail(s) \/ WriterStop(s)
      BY <1>1, <2>5
      DEF WriterSend, WriterFail, WriterStop, WriterFrame, innerVars
    <2> QED
      BY <1>3, <2>1, <2>2, <2>3, <2>4, <2>5 DEF SocketStep
  <1>4. ASSUME NEW t \in Tasks, ConnectStep(t) \/ CloseStep(t)
        PROVE  UNCHANGED <<rxBuffer, half>>
    BY <1>4
    DEF ConnectStep, Connect, Reconnect, ReconnectStore, LeaveQueue, Lock,
        DialOk, DialFail, DialTimeout, Install, StoreFlag, TaskFrame,
        CloseStep, CloseFlag, CloseMark, CloseFailAll, FailAll, socketVars,
        innerVars
  <1>5. ASSUME NEW c \in Calls, CallStep(c)
        PROVE  UNCHANGED <<rxBuffer, half>>
    BY <1>5
    DEF CallStep, CallPrepare, CallSend, CallSendFails, CallReturn,
        CallTimeout, CallDrop, Withdraw, CallFrame
  <1>6. ASSUME NEW c \in Calls, WaitStep(c)
        PROVE  UNCHANGED <<rxBuffer, half>>
    BY <1>6
    DEF WaitStep, RegisterCommand, WaitExit, WaitClosed, WaitDeadline,
        WaitKilled, WaitDrop, WaitFrame, socketVars
  <1>7. CASE UNCHANGED vars
    BY <1>1, <1>7 DEF vars, innerVars, socketVars
  <1> QED
    BY <1>1, <1>3, <1>4, <1>5, <1>6, <1>7 DEF Next

\* Sockets.
LEMMA SeatFrame ==
    ASSUME TypeInv, SeatInv, UNCHANGED <<nSock, callSock>>,
           writer' \in {writer, None}, \A c \in Calls : Used(c)' <=> Used(c),
           \A t \in Tasks : pc'[t] = "install" => pc[t] = "install"
    PROVE  SeatInv'
  <1>1. \A t \in Tasks : pc'[t] = "install" => nSock \in Sockets
    BY BoundsAssumption DEF TypeInv, Dialed, TypeOK, SocketType, Sockets
  <1>2. \A t \in Tasks : pc'[t] = "install" => writer' # nSock'
    BY <1>1, ShapeAssumption DEF SeatInv
  <1> QED
    BY <1>2 DEF SeatInv

LEMMA ConnectSeat ==
    ASSUME TypeInv, LockInv, SeatInv, NEW t \in Tasks, ConnectStep(t)
    PROVE  SeatInv'
  <1>0. /\ TypeOK /\ Dialed /\ nSock \in Nat
        /\ pc \in [Tasks -> TaskStates]
    BY BoundsAssumption DEF TypeInv, TypeOK, SocketType
  <1>1. UNCHANGED <<call, callSock>> /\ \A c \in Calls : Used(c)' <=> Used(c)
    BY DEF ConnectStep, Connect, Reconnect, ReconnectStore, LeaveQueue, Lock,
           DialOk, DialFail, DialTimeout, Install, StoreFlag, TaskFrame,
           callVars, Used
  <1>2. CASE DialOk(t)
    <2>1. nSock' = nSock + 1 /\ writer' = writer /\ nSock + 1 \in Sockets
      BY <1>0, <1>2, BoundsAssumption DEF DialOk, innerVars, linkVars, Sockets
    <2>2. \A n \in 1 .. nSock : n \in 1 .. nSock + 1 /\ n # nSock + 1
      BY <1>0
    <2>3. writer # nSock + 1
      BY <2>1, <2>2, ShapeAssumption DEF SeatInv
    <2>4. \A c \in Calls : Used(c) => callSock[c] \in 1 .. nSock
      BY DEF SeatInv
    <2>5. \A c \in Calls : Used(c)' =>
             callSock'[c] \in 1 .. nSock' /\ callSock'[c] # nSock'
      BY <1>1, <2>1, <2>2, <2>4
    <2>6. writer' # None => writer' \in 1 .. nSock'
      BY <2>1, <2>2 DEF SeatInv
    <2> QED
      BY <2>1, <2>3, <2>5, <2>6 DEF SeatInv
  <1>3. CASE Install(t)
    <2>1. /\ pc[t] = "install" /\ pc' = [pc EXCEPT ![t] = "flag"]
          /\ writer' = nSock /\ nSock' = nSock
      BY <1>3 DEF Install, Move, TaskFrame, socketVars
    <2>2. \A u \in Tasks : pc'[u] # "install"
      BY <1>0, <2>1 DEF LockInv, Holding
    <2>3. nSock \in 1 .. nSock
      BY <1>0, <2>1 DEF Dialed
    <2> QED
      BY <1>1, <2>1, <2>2, <2>3 DEF SeatInv
  <1>4. CASE ~DialOk(t) /\ ~Install(t)
    <2>1. UNCHANGED <<nSock, writer>>
      BY <1>4
      DEF ConnectStep, Connect, Reconnect, ReconnectStore, LeaveQueue, Lock,
          DialFail, DialTimeout, StoreFlag, TaskFrame, linkVars, socketVars
    <2>2. \/ UNCHANGED pc
          \/ \E from, to \in TaskStates \ {"install"} : Move(t, from, to)
      BY <1>4
      DEF ConnectStep, Connect, Reconnect, ReconnectStore, LeaveQueue, Lock,
          DialFail, DialTimeout, StoreFlag, GiveUp, TaskStates
    <2>3. \A u \in Tasks : pc'[u] = "install" => pc[u] = "install"
      BY <1>0, <2>2 DEF Move
    <2> QED
      BY <1>1, <2>1, <2>3, SeatFrame
  <1> QED
    BY <1>2, <1>3, <1>4

LEMMA NextSeats ==
    ASSUME TypeInv, LockInv, SeatInv, [Next]_vars
    PROVE  SeatInv'
  <1>0. TypeOK /\ pc \in [Tasks -> TaskStates]
    BY DEF TypeInv, TypeOK
  <1>1. ASSUME NEW t \in Tasks, CloseStep(t)
        PROVE  SeatInv'
    <2>1. UNCHANGED <<nSock, call, callSock>> /\ writer' \in {writer, None}
      BY <1>1
      DEF CloseStep, CloseFlag, CloseMark, CloseFailAll, FailAll, DropWriter,
          TaskFrame, linkVars, callVars, socketVars
    <2>2. \E from, to \in TaskStates \ {"install"} : Move(t, from, to)
      BY <1>1
      DEF CloseStep, CloseFlag, CloseMark, CloseFailAll, TaskStates
    <2>3. \A u \in Tasks : pc'[u] = "install" => pc[u] = "install"
      BY <1>0, <2>2 DEF Move
    <2> QED
      BY <2>1, <2>3, SeatFrame DEF Used
  <1>2. ASSUME NEW s \in Sockets, SocketStep(s)
        PROVE  SeatInv'
    <2>1. UNCHANGED <<nSock, pc, call, callSock>> /\ writer' \in {writer, None}
      BY <1>2
      DEF SocketStep, FeedLine, FeedTail, FeedHead, EndOfLine, ReaderEnd,
          ReaderFailAll, FailAll, DropWriter, WriterSend, WriterFail,
          WriterStop, WriterFrame, linkVars, innerVars, callVars
    <2> QED
      BY <2>1, SeatFrame DEF Used
  <1>3. ASSUME NEW c \in Calls, CallPrepare(c)
        PROVE  SeatInv'
    <2>1. /\ callSock' = [callSock EXCEPT ![c] = writer] /\ writer # None
          /\ UNCHANGED <<nSock, writer, pc>>
      BY <1>3 DEF CallPrepare, MayCall, CallFrame, linkVars
    <2>2. \A d \in Calls : Used(d)' <=> Used(d) \/ d = c
      BY <1>0, <1>3 DEF CallPrepare, Advance, Used, TypeOK, CallType
    <2>3. \A d \in Calls : callSock'[d] = IF d = c THEN writer ELSE callSock[d]
      BY <1>0, <2>1 DEF TypeOK, CallType
    <2> QED
      BY <2>1, <2>2, <2>3 DEF SeatInv
  <1>4. CASE /\ UNCHANGED <<nSock, pc, writer>>
             /\ \A c \in Calls : ~CallPrepare(c)
    BY <1>0, <1>4, IdQuietStep, SeatFrame
  <1>5. ASSUME NEW c \in Calls, CallStep(c) \/ WaitStep(c)
        PROVE  UNCHANGED <<nSock, pc, writer>>
    BY <1>5
    DEF CallStep, CallPrepare, CallSend, CallSendFails, CallReturn,
        CallTimeout, CallDrop, Withdraw, CallFrame, WaitStep, RegisterCommand,
        WaitExit, WaitClosed, WaitDeadline, WaitKilled, WaitDrop, WaitFrame,
        linkVars, socketVars
  <1>6. CASE UNCHANGED vars
    <2>1. UNCHANGED <<nSock, pc, writer, call, callSock>>
      BY <1>6 DEF vars, innerVars, linkVars, socketVars, callVars
    <2> QED
      BY <2>1, SeatFrame DEF Used
  <1> QED
    BY <1>1, <1>2, <1>3, <1>4, <1>5, <1>6, ConnectSeat DEF Next

\* Owners.
LEMMA OwnerFrame ==
    ASSUME OwnerInv, UNCHANGED <<waiter, emitted>>, handlers' \subseteq handlers,
           \A c \in Calls : Used(c) => Used(c)'
    PROVE  OwnerInv'
  BY DEF OwnerInv

LEMMA EndOfLineOwner ==
    ASSUME TypeOK, ReplyInv, OwnerInv, NEW s \in Sockets, NEW m \in Lines,
           EndOfLine(s, m), m.call \in received
    PROVE  OwnerInv'
  <1>1. UNCHANGED <<waiter, handlers, call>>
    BY DEF EndOfLine
  <1>2. Used(m.call) /\ m.call \in Calls
    BY DEF ReplyInv, TypeOK, GuestType
  <1>3. \A c \in Calls : c # m.call => emitted'[c] = emitted[c]
    BY <1>2 DEF EndOfLine, GuestSays, TypeOK, GuestType
  <1> QED
    BY <1>1, <1>2, <1>3 DEF OwnerInv, Used

LEMMA WaitStepOwner ==
    ASSUME TypeOK, OwnerInv, NEW c \in Calls, WaitStep(c)
    PROVE  /\ OwnerInv' /\ Used(c)
           /\ handlers' \subseteq handlers \cup {c}
           /\ UNCHANGED <<emitted, call, callSock, writer>>
           /\ \A d \in Calls : d # c => waiter'[d] = waiter[d]
           /\ waiter'[c] # "none"
  <1>1. UNCHANGED <<emitted, call, callSock, writer>>
    BY DEF WaitStep, RegisterCommand, WaitExit, WaitClosed, WaitDeadline,
           WaitKilled, WaitDrop, WaitFrame, guestVars, callVars, linkVars
  <1>2. PICK from, to : /\ MoveWait(c, from, to) /\ to # "none"
                        /\ from = "none" => call[c] = "returned"
    BY DEF WaitStep, RegisterCommand, WaitExit, WaitClosed, WaitDeadline,
           WaitKilled, WaitDrop
  <1>3. Used(c)
    BY <1>2 DEF MoveWait, OwnerInv, Used
  <1>4. /\ \A d \in Calls : d # c => waiter'[d] = waiter[d]
        /\ waiter'[c] # "none"
    BY <1>2 DEF MoveWait, TypeOK, WaitType
  <1>5. handlers' \subseteq handlers \cup {c}
    BY DEF WaitStep, RegisterCommand, WaitExit, WaitClosed, WaitDeadline,
           WaitKilled, WaitDrop, Unregister
  <1>6. handlers \subseteq Calls
    BY ShapeAssumption DEF TypeOK, TableType
  <1> QED
    BY <1>1, <1>3, <1>4, <1>5, <1>6 DEF OwnerInv, Used

LEMMA NextOwners ==
    ASSUME TypeOK, ReplyInv, OwnerInv, [Next]_vars
    PROVE  OwnerInv'
  <1>1. ASSUME NEW t \in Tasks, ConnectStep(t) \/ CloseStep(t)
        PROVE  OwnerInv'
    <2>1. UNCHANGED <<waiter, emitted, call>> /\ handlers' \subseteq handlers
      BY <1>1
      DEF ConnectStep, Connect, Reconnect, ReconnectStore, LeaveQueue, Lock,
          DialOk, DialFail, DialTimeout, Install, StoreFlag, TaskFrame,
          CloseStep, CloseFlag, CloseMark, CloseFailAll, FailAll,
          DropHandlers, innerVars, tableVars, callVars, guestVars, waitVars
    <2> QED
      BY <2>1, OwnerFrame DEF Used
  <1>2. ASSUME NEW s \in Sockets, SocketStep(s)
        PROVE  OwnerInv'
    <2>1. CASE FeedLine(s)
      BY <2>1, EndOfLineOwner DEF FeedLine, Sayable
    <2>2. CASE FeedTail(s)
      <3>1. half[s] \in Lines /\ half[s].call \in received
        BY <2>2 DEF FeedTail, TypeOK, LineType, ReplyInv, HalfInv
      <3> QED
        BY <2>2, <3>1, EndOfLineOwner DEF FeedTail
    <2>3. CASE \/ FeedHead(s) \/ ReaderEnd(s) \/ ReaderFailAll(s)
               \/ WriterSend(s) \/ WriterFail(s) \/ WriterStop(s)
      <3>1. UNCHANGED <<waiter, emitted, call>> /\ handlers' \subseteq handlers
        BY <2>3
        DEF FeedHead, ReaderEnd, ReaderFailAll, FailAll, DropHandlers,
            WriterSend, WriterFail, WriterStop, WriterFrame, innerVars,
            tableVars, callVars, guestVars, waitVars
      <3> QED
        BY <3>1, OwnerFrame DEF Used
    <2> QED
      BY <1>2, <2>1, <2>2, <2>3 DEF SocketStep
  <1>3. ASSUME NEW c \in Calls, CallStep(c)
        PROVE  OwnerInv'
    <2>1. UNCHANGED <<waiter, emitted, handlers>>
      BY <1>3
      DEF CallStep, CallPrepare, CallSend, CallSendFails, CallReturn,
          CallTimeout, CallDrop, Withdraw, CallFrame, guestVars, waitVars
    <2>2. \E from, to \in {"unused", "prepared", "waiting", "returned"} :
             Advance(c, from, to) /\ to # "unused"
      BY <1>3
      DEF CallStep, CallPrepare, CallSend, CallSendFails, CallReturn,
          CallTimeout, CallDrop
    <2>3. \A d \in Calls : Used(d) => Used(d)'
      BY <2>2 DEF Advance, Used, TypeOK, CallType
    <2> QED
      BY <2>1, <2>3, OwnerFrame
  <1>4. CASE UNCHANGED vars
    <2>1. UNCHANGED <<waiter, emitted, call, handlers>>
      BY <1>4 DEF vars, innerVars, tableVars, callVars, guestVars, waitVars
    <2> QED
      BY <2>1, OwnerFrame DEF Used
  <1> QED
    BY <1>1, <1>2, <1>3, <1>4, WaitStepOwner DEF Next

-----------------------------------------------------------------------------
(***************************************************************************)
(* Sequences of frames: that the n-th frame of a rising sequence is the     *)
(* n-th at the least is an induction, and bounds its length.               *)
(***************************************************************************)
LEMMA RisingLength ==
    ASSUME NEW q \in Seq(Frames), NEW n \in Nat, Rising(q, n)
    PROVE  Len(q) \in Nat /\ Len(q) <= n
  <1> DEFINE S == {i \in Nat : i \in 1 .. Len(q) => i <= q[i]}
  <1>1. 0 \in S
    OBVIOUS
  <1>2. /\ Len(q) \in Nat /\ \A i \in 1 .. Len(q) : q[i] \in Int
        /\ \A i \in 1 .. Len(q) : q[i] <= n
        /\ \A i \in 1 .. Len(q) - 1 : q[i] < q[i + 1]
    BY FramesOf DEF Rising
  <1>3. ASSUME NEW i \in Nat, i \in S
        PROVE  i + 1 \in S
    <2>1. CASE i = 0
      <3>1. 1 \in 1 .. Len(q) => q[1] \in Frames
        OBVIOUS
      <3> QED
        BY <1>2, <2>1, <3>1 DEF Frames
    <2>2. CASE i # 0
      BY <1>2, <1>3, <2>2
    <2> QED
      BY <2>1, <2>2
  <1>4. Nat \subseteq S
    <2> HIDE DEF S
    <2> QED
      BY <1>1, <1>3, InductOnNat
  <1>5. Len(q) \in 1 .. Len(q) => Len(q) <= q[Len(q)]
    BY <1>2, <1>4
  <1> QED
    BY <1>2, <1>5

LEMMA UptoZero == Upto(0) = <<>>
  BY DEF Upto

LEMMA UptoAppend ==
    ASSUME NEW n \in Nat
    PROVE  Append(Upto(n), n + 1) = Upto(n + 1)
  <1>1. Upto(n) \in Seq(Nat) /\ Len(Upto(n)) = n
    BY DEF Upto
  <1>2. \A i \in 1 .. n + 1 : Append(Upto(n), n + 1)[i] = i
    <2>1. ASSUME NEW i \in 1 .. n + 1
          PROVE  Append(Upto(n), n + 1)[i] = i
      <3>1. CASE i = n + 1
        BY <1>1, <3>1
      <3>2. CASE i \in 1 .. n
        <4>1. Upto(n)[i] = i
          BY <3>2 DEF Upto
        <4> QED
          BY <1>1, <3>2, <4>1
      <3>3. i = n + 1 \/ i \in 1 .. n
        OBVIOUS
      <3> QED
        BY <3>1, <3>2, <3>3
    <2> QED
      BY <2>1
  <1>3. Append(Upto(n), n + 1) \in Seq(Nat) /\ Len(Append(Upto(n), n + 1)) = n + 1
    BY <1>1
  <1> QED
    BY <1>2, <1>3 DEF Upto

\* While a command has frames to come there is room for the next: every frame
\* held is one of some command's, and each command's are no more than it sent.
LEMMA RoomForFrame ==
    ASSUME TypeOK, StreamInv, OrphanInv, Roomy, NEW c \in StartCalls,
           \A d \in Calls \ StartCalls : orphans[d] = <<>>,
           emitted[c] + 1 \in Frames
    PROVE  orphanCount < MaxOrphans
  <1> DEFINE f == Lengths(orphans)
             v == f[c] + 1
             g == [f EXCEPT ![c] = v]
  <1>1. /\ c \in Calls /\ StartCalls \in SUBSET Calls
        /\ orphans \in [Calls -> Seq(Frames)] /\ emitted \in [Calls -> 0 .. LastFrame]
        /\ LastFrame \in Nat /\ MaxOrphans \in Nat /\ orphanCount \in Int
    BY ShapeAssumption, BoundsAssumption DEF TypeOK, TableType, GuestType
  <1>2. \A d \in Calls : f[d] \in Nat /\ f[d] <= emitted[d] /\ emitted[d] <= LastFrame
    <2>1. ASSUME NEW d \in Calls
          PROVE  Len(orphans[d]) \in Nat /\ Len(orphans[d]) <= emitted[d]
                 /\ emitted[d] <= LastFrame
      <3>1. orphans[d] \in Seq(Frames) /\ Rising(orphans[d], emitted[d])
        BY <1>1 DEF StreamInv
      <3>2. emitted[d] \in Nat /\ emitted[d] <= LastFrame
        BY <1>1
      <3> QED
        BY <3>1, <3>2, RisingLength
    <2> QED
      BY <2>1 DEF Lengths
  <1>3. emitted[c] + 1 <= LastFrame
    BY <1>1 DEF Frames
  <1>4. \A d \in Calls \ StartCalls : f[d] = 0
    BY DEF Lengths
  <1>5. f \in [Calls -> Int] /\ v \in Int /\ v = f[c] + 1
    BY <1>1, <1>2, LengthsType
  <1> HIDE DEF f, v
  <1>6. g \in [Calls -> Int] /\ \A d \in Calls : g[d] = IF d = c THEN v ELSE f[d]
    BY <1>5
  <1>7. \A d \in Calls : g[d] <= IF d \in StartCalls THEN LastFrame ELSE 0
    BY <1>1, <1>2, <1>3, <1>4, <1>5, <1>6
  <1>8. SumFunction(g) = SumFunction(f) - f[c] + v
    <2>1. c \in Calls /\ IsFiniteSet(Calls)
      BY <1>1, CallsAreFinite
    <2> QED
      BY <1>5, <2>1, SumUpdate DEF g
  <1> HIDE DEF g
  <1>9. SumFunction(g) <= Cardinality(StartCalls) * LastFrame
    BY <1>1, <1>6, <1>7, CallsAreFinite, SumBound
  <1>10. orphanCount = SumFunction(f)
    BY DEF OrphanInv, f
  <1>11. Cardinality(StartCalls) * LastFrame \in Int
    <2>1. IsFiniteSet(StartCalls)
      BY <1>1, CallsAreFinite, FS_Subset
    <2>2. Cardinality(StartCalls) \in Nat
      BY <2>1, FS_CardinalityType
    <2> QED
      BY <1>1, <2>2
  <1>12. SumFunction(g) = orphanCount + 1
    BY <1>1, <1>2, <1>5, <1>8, <1>10
  <1> QED
    BY <1>1, <1>9, <1>11, <1>12 DEF Roomy

-----------------------------------------------------------------------------
(***************************************************************************)
(* WholeInv, step by step.                                                 *)
(***************************************************************************)

\* c is where WholeInv wants it, its commands' frames all there.
Whole(c) ==
    Used(c) /\ writer = callSock[c] =>
       /\ waiter[c] = "none" => orphans[c] = Upto(emitted[c])
       /\ waiter[c] = "waiting" /\ c \in handlers => inbox[c] = Upto(emitted[c])

\* What does not touch c leaves it whole.
LEMMA WholeKept ==
    ASSUME NEW c, Whole(c), Used(c)' <=> Used(c), UNCHANGED <<writer, callSock>>,
           waiter'[c] = waiter[c], emitted'[c] = emitted[c],
           orphans'[c] = orphans[c], inbox'[c] = inbox[c],
           c \in handlers' => c \in handlers
    PROVE  Whole(c)'
  BY DEF Whole

\* So does a step after which the socket of c is not the channel's.
LEMMA WholeAway ==
    ASSUME NEW c, Used(c)' => writer' # callSock'[c]
    PROVE  Whole(c)'
  BY DEF Whole

LEMMA WholeFailAll ==
    ASSUME TypeOK, SeatInv', TypeOK', FailAll
    PROVE  WholeInv'
  <1>1. writer' = None /\ \A c \in Calls : orphans'[c] = <<>>
    BY DEF FailAll, DropWriter
  <1>2. ASSUME NEW c \in Calls, Used(c)'
        PROVE  writer' # callSock'[c]
    BY <1>1, <1>2, ShapeAssumption, BoundsAssumption
    DEF SeatInv, Sockets, TypeOK, SocketType
  <1>3. \A c \in Calls : Whole(c)'
    BY <1>2, WholeAway
  <1> QED
    BY <1>1, <1>3, ShapeAssumption DEF WholeInv, Whole

LEMMA WholeEndOfLine ==
    ASSUME TypeInv, ReplyInv, StreamInv, OrphanInv, OwnerInv, LineInv,
           Roomy, WholeInv, NEW s \in Sockets, NEW m \in Sayable(s),
           EndOfLine(s, m)
    PROVE  WholeInv'
  <1> DEFINE c == m.call
             n == emitted[c]
  <1>0. /\ TypeOK /\ m \in Lines /\ c \in Calls /\ Used(c)
        /\ emitted \in [Calls -> 0 .. LastFrame] /\ n \in Nat
        /\ orphans \in [Calls -> Seq(Frames)] /\ inbox \in [Calls -> Seq(Frames)]
        /\ StartCalls \subseteq Calls
    BY ShapeAssumption
    DEF TypeInv, TypeOK, GuestType, TableType, WaitType, Sayable, ReplyInv
  <1>1. /\ UNCHANGED <<writer, call, callSock, waiter, handlers>>
        /\ \A d \in Calls : Used(d)' <=> Used(d)
    BY DEF EndOfLine, linkVars, Used
  <1>2. /\ \A d \in Calls \ StartCalls : orphans[d] = <<>>
        /\ \A d \in StartCalls : Whole(d)
    BY DEF WholeInv, Whole
  <1>3. Dispatch(m)
    BY DEF EndOfLine, LineInv, Roomy
  <1>4. CASE m.kind # "frame"
    <2>1. UNCHANGED <<emitted, orphans, inbox>>
      BY <1>3, <1>4 DEF EndOfLine, GuestSays, Dispatch, DispatchReply
    <2>2. \A d \in StartCalls : Whole(d)'
      BY <1>0, <1>1, <1>2, <2>1, WholeKept
    <2> QED
      BY <1>2, <2>1, <2>2 DEF WholeInv, Whole
  <1>5. CASE m.kind = "frame"
    <2>1. /\ c \in StartCalls /\ m.n = n + 1 /\ n + 1 \in Frames
          /\ DispatchFrame(m) /\ emitted' = [emitted EXCEPT ![c] = n + 1]
      BY <1>0, <1>3, <1>5 DEF Sayable, Lines, Dispatch, EndOfLine, GuestSays
    <2> HIDE DEF c, n
    <2>2. orphanCount < MaxOrphans
      BY <1>0, <1>2, <2>1, RoomForFrame DEF n
    <2>3. /\ c \in handlers => UNCHANGED orphans
          /\ c \in handlers /\ Listening(c) =>
                inbox' = [inbox EXCEPT ![c] = Append(inbox[c], n + 1)]
          /\ c \in handlers /\ ~Listening(c) => UNCHANGED inbox
          /\ c \notin handlers => UNCHANGED inbox /\
                orphans' = [orphans EXCEPT ![c] = Append(orphans[c], n + 1)]
      <3>1. orphanCount \in Int /\ MaxOrphans \in Int
        BY <1>0, BoundsAssumption DEF TypeOK, TableType
      <3> QED
        BY <2>1, <2>2, <3>1 DEF DispatchFrame, c
    <2>4. /\ emitted'[c] = n + 1
          /\ \A d \in Calls : d # c => emitted'[d] = emitted[d]
                 /\ orphans'[d] = orphans[d] /\ inbox'[d] = inbox[d]
      BY <1>0, <2>1, <2>3
    <2>5. ASSUME NEW d \in StartCalls, d # c
          PROVE  Whole(d)'
      BY <1>0, <1>1, <1>2, <2>4, <2>5, WholeKept
    <2>6. Append(Upto(n), n + 1) = Upto(n + 1)
      BY <1>0, UptoAppend
    <2>7. ASSUME writer = callSock[c], waiter[c] = "none"
          PROVE  orphans'[c] = Upto(n + 1)
      <3>1. c \notin handlers
        BY <2>7 DEF OwnerInv
      <3>2. orphans[c] = Upto(n)
        BY <1>0, <1>2, <2>1, <2>7 DEF Whole, n
      <3> QED
        BY <1>0, <2>3, <2>6, <3>1, <3>2
    <2>8. ASSUME writer = callSock[c], waiter[c] = "waiting", c \in handlers
          PROVE  inbox'[c] = Upto(n + 1)
      <3>1. inbox[c] = Upto(n)
        BY <1>0, <1>2, <2>1, <2>8 DEF Whole, n
      <3> QED
        BY <1>0, <2>3, <2>6, <2>8, <3>1 DEF Listening
    <2>9. Whole(c)'
      BY <1>1, <2>4, <2>7, <2>8 DEF Whole
    <2>10. \A d \in Calls \ StartCalls : orphans'[d] = <<>>
      BY <1>2, <2>1, <2>4
    <2> QED
      BY <2>5, <2>9, <2>10 DEF WholeInv, Whole
  <1> QED
    BY <1>4, <1>5

LEMMA WholePrepare ==
    ASSUME TypeInv, StreamInv, OwnerInv, WholeInv, Roomy, NEW c \in Calls,
           CallPrepare(c)
    PROVE  WholeInv'
  <1>0. /\ TypeOK /\ StartCalls \subseteq Calls
        /\ callSock \in [Calls -> Sockets \cup {None}]
        /\ orphans[c] \in Seq(Frames)
    BY ShapeAssumption DEF TypeInv, TypeOK, CallType, TableType
  <1>1. /\ UNCHANGED <<writer, waiter, handlers, orphans, inbox, emitted>>
        /\ callSock' = [callSock EXCEPT ![c] = writer]
        /\ call' = [call EXCEPT ![c] = "prepared"] /\ ~Used(c)
    BY DEF CallPrepare, CallFrame, Advance, Used, linkVars, guestVars, waitVars
  <1>2. \A d \in Calls \ {c} : Used(d)' <=> Used(d)
    BY <1>0, <1>1 DEF Used, TypeOK, CallType
  <1>3. \A d \in StartCalls \ {c} : Whole(d)'
    BY <1>0, <1>1, <1>2 DEF WholeInv, Whole
  <1>4. Whole(c)'
    <2>1. waiter[c] = "none" /\ emitted[c] = 0
      BY <1>1 DEF OwnerInv
    <2>2. Len(orphans[c]) = 0
      <3>1. Rising(orphans[c], 0)
        BY <2>1 DEF StreamInv
      <3>2. Len(orphans[c]) \in Nat /\ Len(orphans[c]) <= 0
        BY <1>0, <3>1, RisingLength
      <3> QED
        BY <3>2
    <2>3. orphans[c] = <<>>
      BY <1>0, <2>2
    <2> QED
      BY <1>1, <2>1, <2>3, UptoZero DEF Whole
  <1>5. \A d \in Calls \ StartCalls : orphans'[d] = <<>>
    BY <1>1 DEF WholeInv
  <1> QED
    BY <1>3, <1>4, <1>5 DEF WholeInv, Whole

LEMMA WholeWait ==
    ASSUME TypeOK, OwnerInv, WholeInv, Roomy, NEW c \in Calls, WaitStep(c)
    PROVE  WholeInv'
  <1>0. /\ StartCalls \subseteq Calls /\ handlers \subseteq Calls
        /\ orphans \in [Calls -> Seq(Frames)] /\ inbox \in [Calls -> Seq(Frames)]
    BY ShapeAssumption DEF TypeOK, TableType, WaitType
  <1>1. /\ Used(c) /\ handlers' \subseteq handlers \cup {c}
        /\ UNCHANGED <<emitted, call, callSock, writer>>
        /\ \A d \in Calls : d # c => waiter'[d] = waiter[d]
        /\ waiter'[c] # "none"
    BY WaitStepOwner
  <1>2. \/ Flush(c)
        \/ UNCHANGED orphans /\ inbox' \in {inbox, [inbox EXCEPT ![c] = <<>>]}
    BY DEF WaitStep, RegisterCommand, WaitExit, WaitClosed, WaitDeadline,
           WaitKilled, WaitDrop, Unregister, Discard
  <1>3. /\ \A d \in Calls : d # c =>
              orphans'[d] = orphans[d] /\ inbox'[d] = inbox[d]
        /\ orphans'[c] \in {orphans[c], <<>>}
    BY <1>0, <1>2 DEF Flush
  <1>4. ASSUME NEW d \in StartCalls, d # c
        PROVE  Whole(d)'
    BY <1>0, <1>1, <1>3, <1>4, WholeKept DEF WholeInv, Whole, Used
  <1>5. ASSUME c \in StartCalls
        PROVE  Whole(c)'
    <2>1. CASE RegisterCommand(c)
      <3>1. waiter[c] = "none" /\ inbox'[c] = orphans[c]
        BY <1>0, <2>1 DEF RegisterCommand, MoveWait, Flush, Orphans
      <3> QED
        BY <1>1, <1>5, <3>1 DEF WholeInv, Whole
    <2>2. CASE ~RegisterCommand(c)
      <3>1. PICK from, to : MoveWait(c, from, to) /\ to \notin {"none", "waiting"}
        BY <2>2
        DEF WaitStep, WaitExit, WaitClosed, WaitDeadline, WaitKilled, WaitDrop
      <3>2. waiter'[c] \notin {"none", "waiting"}
        BY <3>1 DEF MoveWait, TypeOK, WaitType
      <3> QED
        BY <3>2 DEF Whole
    <2> QED
      BY <2>1, <2>2
  <1>6. \A d \in Calls \ StartCalls : orphans'[d] = <<>>
    BY <1>3 DEF WholeInv
  <1> QED
    BY <1>4, <1>5, <1>6 DEF WholeInv, Whole

\* What the steps of WholeInv rest on, each part of it inductive by itself or
\* with those before it.
StreamParts ==
    /\ TypeInv /\ LockInv /\ ReplyInv /\ StreamInv
    /\ OrphanInv /\ LineInv /\ SeatInv /\ OwnerInv

LEMMA NextWhole ==
    ASSUME StreamParts, TypeInv', SeatInv', WholeInv, [Next]_vars
    PROVE  WholeInv'
  <1> SUFFICES ASSUME Roomy PROVE WholeInv'
    BY DEF WholeInv, Roomy
  <1>0. /\ TypeOK /\ TypeOK' /\ TypeInv /\ LockInv /\ ReplyInv /\ StreamInv
        /\ OrphanInv /\ LineInv /\ SeatInv /\ OwnerInv /\ StartCalls \subseteq Calls
    BY ShapeAssumption DEF StreamParts, TypeInv
  <1>1. CASE /\ UNCHANGED <<waiter, emitted, orphans, inbox, handlers, callSock>>
             /\ UNCHANGED writer /\ \A c \in Calls : Used(c)' <=> Used(c)
    <2>1. \A c \in StartCalls : Whole(c)'
      BY <1>0, <1>1, WholeKept DEF WholeInv, Whole
    <2> QED
      BY <1>1, <2>1 DEF WholeInv, Whole
  <1>2. ASSUME NEW t \in Tasks, ConnectStep(t)
        PROVE  WholeInv'
    <2>1. UNCHANGED <<waiter, emitted, orphans, inbox, handlers, call, callSock>>
      BY <1>2
      DEF ConnectStep, Connect, Reconnect, ReconnectStore, LeaveQueue, Lock,
          DialOk, DialFail, DialTimeout, Install, StoreFlag, TaskFrame,
          innerVars, tableVars, callVars, guestVars, waitVars
    <2>2. CASE Install(t)
      <3>1. pc[t] = "install" /\ writer' = nSock
        BY <2>2 DEF Install, Move
      <3>2. \A c \in Calls : Used(c)' => writer' # callSock'[c]
        BY <1>0, <2>1, <3>1 DEF SeatInv, Used
      <3>3. \A c \in StartCalls : Whole(c)'
        BY <1>0, <3>2, WholeAway
      <3> QED
        BY <2>1, <3>3 DEF WholeInv, Whole
    <2>3. CASE ~Install(t)
      <3>1. UNCHANGED writer
        BY <1>2, <2>3
        DEF ConnectStep, Connect, Reconnect, ReconnectStore, LeaveQueue, Lock,
            DialOk, DialFail, DialTimeout, StoreFlag, innerVars, linkVars
      <3> QED
        BY <1>1, <2>1, <3>1 DEF Used
    <2> QED
      BY <2>2, <2>3
  <1>3. ASSUME NEW t \in Tasks, CloseFlag(t) \/ CloseMark(t)
        PROVE  WholeInv'
    <2>1. UNCHANGED <<waiter, emitted, orphans, inbox, handlers, call, callSock,
                      writer>>
      BY <1>3
      DEF CloseFlag, CloseMark, TaskFrame, linkVars, tableVars, callVars,
          guestVars, waitVars
    <2> QED
      BY <1>1, <2>1 DEF Used
  <1>4. CASE \E t \in Tasks : CloseFailAll(t)
    BY <1>0, <1>4, WholeFailAll DEF CloseFailAll
  <1>5. ASSUME NEW s \in Sockets, SocketStep(s)
        PROVE  WholeInv'
    <2>1. CASE FeedLine(s)
      BY <1>0, <2>1, WholeEndOfLine DEF FeedLine
    <2>2. ~FeedTail(s) /\ ~FeedHead(s)
      BY <1>0 DEF FeedTail, FeedHead, LineInv, Roomy
    <2>3. CASE ReaderFailAll(s)
      BY <1>0, <2>3, WholeFailAll DEF ReaderFailAll
    <2>4. CASE \/ ReaderEnd(s) \/ WriterSend(s) \/ WriterFail(s)
               \/ WriterStop(s)
      <3>1. UNCHANGED <<waiter, emitted, orphans, inbox, handlers, call,
                        callSock, writer>>
        BY <2>4
        DEF ReaderEnd, WriterSend, WriterFail, WriterStop, WriterFrame,
            innerVars, linkVars, tableVars, callVars, guestVars, waitVars
      <3> QED
        BY <1>1, <3>1 DEF Used
    <2> QED
      BY <1>5, <2>1, <2>2, <2>3, <2>4 DEF SocketStep
  <1>6. ASSUME NEW c \in Calls, CallStep(c), \A d \in Calls : ~CallPrepare(d)
        PROVE  WholeInv'
    <2>1. UNCHANGED <<waiter, emitted, orphans, inbox, handlers, writer>>
      BY <1>6
      DEF CallStep, CallPrepare, CallSend, CallSendFails, CallReturn,
          CallTimeout, CallDrop, Withdraw, CallFrame, linkVars, guestVars,
          waitVars
    <2>2. UNCHANGED callSock /\ \A d \in Calls : Used(d)' <=> Used(d)
      BY <1>0, <1>6, IdQuietStep
    <2> QED
      BY <1>1, <2>1, <2>2
  <1>7. CASE UNCHANGED vars
    <2>1. UNCHANGED <<waiter, emitted, orphans, inbox, handlers, call, callSock,
                      writer>>
      BY <1>7
      DEF vars, innerVars, linkVars, tableVars, callVars, guestVars, waitVars
    <2> QED
      BY <1>1, <2>1 DEF Used
  <1>8. ASSUME NEW c \in Calls, CallPrepare(c) \/ WaitStep(c)
        PROVE  WholeInv'
    BY <1>0, <1>8, WholePrepare, WholeWait
  <1> QED
    BY <1>2, <1>3, <1>4, <1>5, <1>6, <1>7, <1>8 DEF Next, CloseStep

\* A wait on the connection its command was started over has every frame the
\* guest sent, in order and once, for any number of commands, frames, sockets
\* and tasks: on the condition that is in the property itself, that lines are
\* not cut and the orphan buffer is no smaller than what may come early.
THEOREM StreamsAreWhole == Spec => []StreamIsWhole
  <1>1. Init => ReplyInv
    BY DEF Init, ReplyInv, QueueInv, HalfInv, OwnReply
  <1>2. Init => StreamInv
    BY RisingEmpty DEF Init, StreamInv, NextFrame, Blank, Line
  <1>3. Init => LineInv /\ SeatInv /\ OwnerInv /\ WholeInv
    BY ShapeAssumption
    DEF Init, LineInv, SeatInv, OwnerInv, WholeInv, Used
  <1>4. TypeInv => TypeOK
    BY DEF TypeInv
  <1>5. OwnerInv /\ WholeInv => StreamIsWhole
    BY WholeImplied
  <1>6. Spec => [](TypeInv /\ IdInv /\ LockInv)
    BY Ids, Locking, PTL
  <1>7. Spec => []StreamParts
    BY <1>1, <1>2, <1>3, <1>4, <1>6, InitOrphans, NextReply, NextStream,
       NextOrphans, NextLines, NextSeats, NextOwners, PTL DEF Spec, StreamParts
  <1>8. Spec => []WholeInv
    <2>1. StreamParts => TypeInv /\ SeatInv
      BY DEF StreamParts
    <2> QED
      BY <1>3, <1>7, <2>1, NextWhole, PTL DEF Spec
  <1>9. StreamParts => OwnerInv
    BY DEF StreamParts
  <1> QED
    BY <1>5, <1>7, <1>8, <1>9, PTL

=============================================================================
