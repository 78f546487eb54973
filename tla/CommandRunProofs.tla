-------------------------- MODULE CommandRunProofs --------------------------
(***************************************************************************)
(* Proofs about CommandRun.  No run reads what belongs to another one, so   *)
(* the invariants are about one run, and a step of a run keeps those of    *)
(* all the others (Elsewhere).                                             *)
(***************************************************************************)
EXTENDS CommandRun, TLAPS

\* A process of r begins where its /exec request is taken or its cmd.start is
\* obeyed, and one of the two ways is closed before the other is gone.
StartInv(r) ==
    /\ procs[r] = (IF request[r] = "taken" THEN 1 ELSE 0)
                  + (IF start[r] = "started" THEN 1 ELSE 0)
    /\ request[r] # "none" => start[r] \in {"none", "refused"}
    /\ pc[r] \in {"idle", "connect", "call", "start"} => request[r] = "none"
    /\ pc[r] \in {"idle", "rest", "connect", "call"} =>
          start[r] = "none" /\ told[r] = "none"
    /\ told[r] = "refused" => start[r] = "refused"

Over(r) == proc[r] \in {"exited", "killed"}

\* What a run is told, and what it returns, is what happened at the guest.
ResultInv(r) ==
    /\ procs[r] = 0 <=> proc[r] = "none"
    /\ told[r] \in {"started", "exit"} => start[r] = "started"
    /\ told[r] = "exit" => Over(r)
    /\ result[r] # "none" => pc[r] = "done"
    /\ result[r] = "ok" => procs[r] = 1 /\ Over(r)

\* What a run has of the channel: a wait that blocks is in its table, and a run
\* has none before it is registered.
LinkInv(r) ==
    /\ wait[r] = "blocked" => up
    /\ pc[r] \in {"wait", "kill"} =>
          /\ wait[r] \in {"blocked", "woken"} /\ told[r] \in {"started", "exit"}
          /\ kind[r] # "background"
    /\ pc[r] \in {"idle", "rest", "again", "connect", "call", "start"} =>
          wait[r] = "none"

\* A run was given up: by its caller, or at its deadline.
Abandoned(r) ==
    \/ pc[r] = "dropped"
    \/ r \in limited /\ (pc[r] = "kill" \/ result[r] = "timedout")

\* Only such a run has a SIGKILL under way, a deadline at which one is sent, or
\* a guard that fired.
KillInv(r) ==
    /\ r \in sigkill \/ proc[r] = "killed" => Abandoned(r)
    /\ pc[r] = "kill" => r \in limited
    /\ guard[r] = "armed" => pc[r] \in {"wait", "kill"}
    /\ guard[r] \in {"fired", "spent", "outside"} => pc[r] = "dropped"

RunInv == \A r \in Runs : StartInv(r) /\ ResultInv(r) /\ LinkInv(r)

-----------------------------------------------------------------------------
(***************************************************************************)
(* Types.                                                                  *)
(***************************************************************************)
LEMMA RunStepType ==
    ASSUME TypeOK, NEW r \in Runs, RunStep(r)
    PROVE  TypeOK'
  <1>1. CASE ChooseRest(r) \/ ChooseChannel(r)
    BY <1>1
    DEF ChooseRest, ChooseChannel, Goto, Post, TypeOK, optVars, holdVars,
        chanVars, startVars, guestVars
  <1>2. CASE ExecOk(r) \/ ExecUnavailable(r) \/ ExecFails(r)
    BY <1>2
    DEF ExecOk, ExecUnavailable, ExecFails, Return, Goto, ExecFrame, TypeOK,
        optVars, holdVars, chanVars, startVars, guestVars
  <1>3. CASE ConnectOk(r)
    <2>1. up' \in BOOLEAN
      BY <1>3 DEF ConnectOk
    <2> QED
      BY <1>3, <2>1
      DEF ConnectOk, Goto, TypeOK, optVars, holdVars, startVars, guestVars
  <1>4. CASE ConnectFails(r)
    BY <1>4
    DEF ConnectFails, Return, Goto, TypeOK, optVars, holdVars, chanVars,
        startVars, guestVars
  <1>5. CASE Call(r)
    <2>1. CASE MayCall
      <3>1. tied' = [tied EXCEPT ![r] = TRUE]
        BY <1>5, <2>1 DEF Call
      <3>2. tied' \in [Runs -> BOOLEAN]
        BY <3>1 DEF TypeOK
      <3> QED
        BY <1>5, <2>1, <3>2
        DEF Call, Goto, TypeOK, optVars, holdVars, chanVars, guestVars
    <2>2. CASE ~MayCall
      BY <1>5, <2>2
      DEF Call, Return, Goto, TypeOK, optVars, holdVars, chanVars, startVars,
          guestVars
    <2> QED
      BY <2>1, <2>2
  <1>6. CASE Reply(r) \/ TimesOut(r)
    BY <1>6
    DEF Reply, TimesOut, Tell, TypeOK, optVars, holdVars, chanVars, runVars,
        guestVars
  <1>7. CASE Started(r)
    BY <1>7
    DEF Started, Register, Return, Goto, TypeOK, optVars, chanVars, startVars,
        guestVars
  <1>8. CASE Refused(r)
    <2>1. shared' \in BOOLEAN
      BY <1>8 DEF Refused
    <2> QED
      BY <1>8, <2>1
      DEF Refused, Post, Return, Goto, TypeOK, optVars, holdVars, chanVars,
          startVars, guestVars
  <1>9. CASE StartFails(r)
    BY <1>9
    DEF StartFails, Return, Goto, TypeOK, optVars, holdVars, chanVars,
        startVars, guestVars
  <1>10. CASE WaitExit(r) \/ WaitClosed(r) \/ WaitDeadline(r) \/ WaitKilled(r)
    <2>1. CASE WaitExit(r) \/ WaitClosed(r)
      BY <2>1
      DEF WaitExit, WaitClosed, ChannelClosed, Disarm, EndWait, Return, Goto,
          WaitFrame, TypeOK, optVars, chanVars, startVars
    <2>2. CASE WaitDeadline(r) \/ WaitKilled(r)
      BY <2>2
      DEF WaitDeadline, WaitKilled, Disarm, EndWait, KillNow, SendKill, Return,
          Goto, WaitFrame, TypeOK, optVars, holdVars, chanVars, startVars
    <2> QED
      BY <1>10, <2>1, <2>2
  <1>11. CASE Drop(r)
    BY <1>11
    DEF Drop, DropGuard, Goto, TypeOK, optVars, chanVars, guestVars
  <1>12. CASE BackgroundEnds(r) \/ GuardKill(r)
    BY <1>12
    DEF BackgroundEnds, EndWait, GuardKill, GuardInsists, SendKill, WaitFrame,
        TypeOK, optVars, chanVars, runVars, startVars
  <1> QED
    BY <1>1, <1>2, <1>3, <1>4, <1>5, <1>6, <1>7, <1>8, <1>9, <1>10,
       <1>11, <1>12
    DEF RunStep

LEMMA GuestStepType ==
    ASSUME TypeOK, NEW r \in Runs, GuestStep(r)
    PROVE  TypeOK'
  <1>1. CASE ExecRuns(r) \/ GuestStarts(r)
    BY <1>1
    DEF ExecRuns, GuestStarts, Begins, TypeOK, optVars, holdVars, chanVars,
        runVars, startVars, guestVars
  <1>2. CASE Exit(r) \/ ExitFrame(r) \/ GuestKills(r)
    BY <1>2
    DEF Exit, ExitFrame, GuestKills, TypeOK, optVars, holdVars, chanVars,
        runVars, startVars, guestVars
  <1> QED
    BY <1>1, <1>2 DEF GuestStep

LEMMA ChannelStepType ==
    ASSUME TypeOK, GoDown \/ GoUp
    PROVE  TypeOK'
  <1>1. CASE GoDown
    <2>1. drops' \in 0 .. MaxDrops
      BY <1>1, DropsAssumption DEF GoDown, TypeOK
    <2>2. sigkill' \subseteq Runs
      BY <1>1 DEF GoDown, TypeOK
    <2>3. told' \in [Runs -> {"none", "started", "refused", "failed", "closed",
                             "timeout", "dropped", "exit"}]
      BY <1>1 DEF GoDown, TypeOK
    <2>4. wait' \in [Runs -> {"none", "blocked", "woken", "exited", "closed",
                             "expired", "dropped"}]
      BY <1>1 DEF GoDown, TypeOK
    <2> QED
      BY <1>1, <2>1, <2>2, <2>3, <2>4
      DEF GoDown, Each, TypeOK, optVars, runVars
  <1>2. CASE GoUp
    BY <1>2 DEF GoUp, TypeOK, optVars, holdVars, runVars, startVars, guestVars
  <1> QED
    BY <1>1, <1>2

LEMMA NextType == TypeOK /\ [Next]_vars => TypeOK'
  <1>1. CASE UNCHANGED vars
    BY <1>1
    DEF vars, optVars, holdVars, chanVars, runVars, startVars, guestVars,
        TypeOK
  <1> QED
    BY <1>1, RunStepType, GuestStepType, ChannelStepType DEF Next

LEMMA InitType == Init => TypeOK
  <1> SUFFICES ASSUME Init
               PROVE  TypeOK
    OBVIOUS
  <1>1. drops \in 0 .. MaxDrops /\ sigkill \subseteq Runs
        /\ limited \subseteq Runs
    BY DropsAssumption DEF Init
  <1>2. procs \in [Runs -> Nat] /\ tied \in [Runs -> BOOLEAN]
    BY DEF Init, Each
  <1> QED
    BY <1>1, <1>2 DEF Init, Each, TypeOK

\* Every variable keeps its type, however many runs there are.
THEOREM RunTypeCorrect == Spec => []TypeOK
  BY InitType, NextType, PTL DEF Spec

-----------------------------------------------------------------------------
(***************************************************************************)
(* A step of one run and the others.                                       *)
(***************************************************************************)
Mine(r) == <<kind[r], r \in limited, pc[r], result[r], request[r], start[r],
             told[r], wait[r], guard[r], procs[r], proc[r], r \in sigkill>>

LEMMA Elsewhere ==
    ASSUME TypeOK, NEW r \in Runs, RunStep(r) \/ GuestStep(r)
    PROVE  /\ up' = up \/ up' = TRUE
           /\ \A q \in Runs \ {r} : UNCHANGED Mine(q)
  <1>1. CASE ChooseRest(r) \/ ChooseChannel(r)
    BY <1>1
    DEF ChooseRest, ChooseChannel, Goto, Post, TypeOK, Mine, optVars,
        holdVars, chanVars, startVars, guestVars
  <1>2. CASE ExecOk(r) \/ ExecUnavailable(r) \/ ExecFails(r)
    BY <1>2
    DEF ExecOk, ExecUnavailable, ExecFails, Return, Goto, ExecFrame, TypeOK,
        Mine, optVars, holdVars, chanVars, startVars, guestVars
  <1>3. CASE ConnectOk(r) \/ ConnectFails(r)
    BY <1>3
    DEF ConnectOk, ConnectFails, Return, Goto, TypeOK, Mine, optVars,
        holdVars, chanVars, startVars, guestVars
  <1>4. CASE Call(r)
    BY <1>4
    DEF Call, Return, Goto, TypeOK, Mine, optVars, holdVars, chanVars,
        startVars, guestVars
  <1>5. CASE Reply(r) \/ TimesOut(r)
    BY <1>5
    DEF Reply, TimesOut, Tell, TypeOK, Mine, optVars, holdVars, chanVars,
        runVars, guestVars
  <1>6. CASE Started(r) \/ Refused(r) \/ StartFails(r)
    BY <1>6
    DEF Started, Register, Refused, StartFails, Post, Return, Goto, TypeOK,
        Mine, optVars, holdVars, chanVars, startVars, guestVars
  <1>7. CASE WaitExit(r) \/ WaitClosed(r) \/ WaitDeadline(r) \/ WaitKilled(r)
    BY <1>7
    DEF WaitExit, WaitClosed, WaitDeadline, WaitKilled, Disarm, EndWait,
        KillNow, SendKill, Return, Goto, WaitFrame, TypeOK, Mine, optVars,
        holdVars, chanVars, startVars
  <1>8. CASE Drop(r) \/ BackgroundEnds(r) \/ GuardKill(r)
    BY <1>8
    DEF Drop, DropGuard, BackgroundEnds, EndWait, GuardKill, GuardInsists,
        SendKill, Goto, WaitFrame, TypeOK, Mine, optVars, chanVars, runVars,
        startVars, guestVars
  <1>9. CASE ExecRuns(r) \/ GuestStarts(r)
    BY <1>9
    DEF ExecRuns, GuestStarts, Begins, TypeOK, Mine, optVars, holdVars,
        chanVars, runVars, startVars, guestVars
  <1>10. CASE Exit(r) \/ ExitFrame(r) \/ GuestKills(r)
    BY <1>10
    DEF Exit, ExitFrame, GuestKills, TypeOK, Mine, optVars, holdVars,
        chanVars, runVars, startVars, guestVars
  <1> QED
    BY <1>1, <1>2, <1>3, <1>4, <1>5, <1>6, <1>7, <1>8, <1>9, <1>10
    DEF RunStep, GuestStep

\* What the end of a connection does to a run.
Severed(r) ==
    /\ UNCHANGED <<kind[r], r \in limited, pc[r], result[r], request[r],
                   start[r], guard[r], procs[r], proc[r]>>
    /\ r \in sigkill' => r \in sigkill
    /\ wait'[r] = IF wait[r] = "blocked" THEN "woken" ELSE wait[r]
    /\ \/ told'[r] = "closed" /\ pc[r] = "start" /\ told[r] = "none"
       \/ told'[r] = "started" /\ pc[r] = "start" /\ told[r] = "exit"
       \/ told'[r] = told[r]

LEMMA ChannelStepMine ==
    ASSUME TypeOK, NEW r \in Runs, GoDown \/ GoUp
    PROVE  UNCHANGED Mine(r) \/ Severed(r)
  <1>1. CASE GoDown
    <2>1. told'[r] = IF pc[r] # "start" THEN told[r]
                     ELSE IF told[r] = "none" THEN "closed"
                     ELSE IF told[r] = "exit" THEN "started" ELSE told[r]
      BY <1>1 DEF GoDown
    <2>2. wait'[r] = IF wait[r] = "blocked" THEN "woken" ELSE wait[r]
      BY <1>1 DEF GoDown
    <2>3. /\ UNCHANGED <<kind, limited, pc, result, request, start, guard,
                         procs, proc>>
          /\ r \in sigkill' => r \in sigkill
      BY <1>1 DEF GoDown, optVars, runVars
    <2> QED
      BY <2>1, <2>2, <2>3 DEF Severed
  <1>2. CASE GoUp
    BY <1>2 DEF GoUp, Mine, optVars, holdVars, runVars, startVars, guestVars
  <1> QED
    BY <1>1, <1>2

-----------------------------------------------------------------------------
(***************************************************************************)
(* At most one process for a run.                                          *)
(***************************************************************************)
LEMMA RunStepStart ==
    ASSUME TypeOK, NEW r \in Runs, StartInv(r), RunStep(r)
    PROVE  StartInv(r)'
  <1>1. CASE ChooseRest(r) \/ ChooseChannel(r)
    BY <1>1
    DEF ChooseRest, ChooseChannel, Goto, Post, TypeOK, StartInv, startVars,
        guestVars
  <1>2. CASE ExecOk(r) \/ ExecUnavailable(r) \/ ExecFails(r)
    BY <1>2
    DEF ExecOk, ExecUnavailable, RouteUnavailable, ExecFails, Return, Goto,
        ExecFrame, TypeOK, StartInv, startVars, guestVars
  <1>3. CASE ConnectOk(r) \/ ConnectFails(r) \/ Call(r)
    BY <1>3
    DEF ConnectOk, ConnectFails, Call, Return, Goto, TypeOK, StartInv,
        startVars, guestVars
  <1>4. CASE Reply(r) \/ TimesOut(r)
    BY <1>4
    DEF Reply, TimesOut, Tell, TypeOK, StartInv, runVars, guestVars
  <1>5. CASE Started(r) \/ Refused(r) \/ StartFails(r)
    BY <1>5
    DEF Started, Refused, StartFails, Post, Return, Goto, TypeOK, StartInv,
        startVars, guestVars
  <1>6. CASE WaitExit(r) \/ WaitClosed(r) \/ WaitDeadline(r) \/ WaitKilled(r)
    BY <1>6
    DEF WaitExit, WaitClosed, WaitDeadline, WaitKilled, Return, Goto,
        WaitFrame, TypeOK, StartInv, startVars
  <1>7. CASE BackgroundEnds(r) \/ Drop(r) \/ GuardKill(r)
    BY <1>7
    DEF BackgroundEnds, Drop, GuardKill, Goto, WaitFrame, TypeOK, StartInv,
        runVars, startVars, guestVars
  <1> QED
    BY <1>1, <1>2, <1>3, <1>4, <1>5, <1>6, <1>7 DEF RunStep

LEMMA GuestStepStart ==
    ASSUME TypeOK, NEW r \in Runs, StartInv(r), GuestStep(r)
    PROVE  StartInv(r)'
  <1>1. CASE ExecRuns(r)
    BY <1>1 DEF ExecRuns, Begins, TypeOK, StartInv, runVars, startVars
  <1>2. CASE GuestStarts(r)
    BY <1>2 DEF GuestStarts, Begins, TypeOK, StartInv, runVars, guestVars
  <1>3. CASE Exit(r) \/ ExitFrame(r) \/ GuestKills(r)
    BY <1>3
    DEF Exit, ExitFrame, GuestKills, TypeOK, StartInv, runVars, startVars,
        guestVars
  <1> QED
    BY <1>1, <1>2, <1>3 DEF GuestStep

LEMMA ChannelStepStart ==
    ASSUME TypeOK, NEW r \in Runs, StartInv(r), GoDown \/ GoUp
    PROVE  StartInv(r)'
  <1>1. UNCHANGED Mine(r) \/ Severed(r)
    BY ChannelStepMine
  <1> QED
    BY <1>1 DEF Mine, Severed, StartInv

-----------------------------------------------------------------------------
(***************************************************************************)
(* Results.                                                                *)
(***************************************************************************)
LEMMA RunStepResult ==
    ASSUME TypeOK, NEW r \in Runs, StartInv(r), ResultInv(r), RunStep(r)
    PROVE  ResultInv(r)'
  <1>1. CASE ChooseRest(r) \/ ChooseChannel(r)
    BY <1>1
    DEF ChooseRest, ChooseChannel, Goto, Post, TypeOK, StartInv, ResultInv,
        Over, optVars, holdVars, startVars, guestVars
  <1>2. CASE ExecOk(r)
    BY <1>2
    DEF ExecOk, Return, Goto, ExecFrame, TypeOK, StartInv, ResultInv, Over,
        optVars, holdVars, startVars, guestVars
  <1>3. CASE ExecUnavailable(r) \/ ExecFails(r)
    BY <1>3
    DEF ExecUnavailable, RouteUnavailable, ExecFails, Return, Goto, ExecFrame,
        TypeOK, StartInv, ResultInv, Over, optVars, holdVars, startVars,
        guestVars
  <1>4. CASE ConnectOk(r) \/ ConnectFails(r) \/ Call(r)
    BY <1>4
    DEF ConnectOk, ConnectFails, Call, Return, Goto, TypeOK, StartInv,
        ResultInv, Over, optVars, holdVars, startVars, guestVars
  <1>5. CASE Reply(r) \/ TimesOut(r)
    BY <1>5
    DEF Reply, TimesOut, Tell, TypeOK, StartInv, ResultInv, Over, optVars,
        holdVars, runVars, guestVars
  <1>6. CASE Started(r) \/ StartFails(r)
    BY <1>6
    DEF Started, StartFails, Return, Goto, TypeOK, StartInv, ResultInv, Over,
        optVars, holdVars, startVars, guestVars
  <1>7. CASE Refused(r)
    BY <1>7
    DEF Refused, MayRunAgain, Post, Return, Goto, TypeOK, StartInv, ResultInv,
        Over, optVars, holdVars, startVars, guestVars
  <1>8. CASE WaitExit(r)
    BY <1>8
    DEF WaitExit, Return, Goto, WaitFrame, TypeOK, StartInv, ResultInv, Over,
        optVars, holdVars, startVars
  <1>9. CASE WaitClosed(r) \/ WaitDeadline(r) \/ WaitKilled(r)
    BY <1>9
    DEF WaitClosed, ChannelClosed, WaitDeadline, WaitKilled, Return, Goto,
        WaitFrame, TypeOK, StartInv, ResultInv, Over, optVars, holdVars,
        startVars
  <1>10. CASE BackgroundEnds(r) \/ Drop(r) \/ GuardKill(r)
    BY <1>10
    DEF BackgroundEnds, Drop, GuardKill, Goto, WaitFrame, TypeOK, StartInv,
        ResultInv, Over, optVars, holdVars, runVars, startVars, guestVars
  <1> QED
    BY <1>1, <1>2, <1>3, <1>4, <1>5, <1>6, <1>7, <1>8, <1>9, <1>10 DEF RunStep

\* A second process would be the only way to undo a result.
LEMMA GuestStepResult ==
    ASSUME TypeOK, NEW r \in Runs, StartInv(r), ResultInv(r), GuestStep(r)
    PROVE  ResultInv(r)'
  <1>1. CASE ExecRuns(r)
    BY <1>1
    DEF ExecRuns, Begins, TypeOK, StartInv, ResultInv, Over, optVars,
        holdVars, runVars, startVars
  <1>2. CASE GuestStarts(r)
    BY <1>2
    DEF GuestStarts, Begins, TypeOK, StartInv, ResultInv, Over, optVars,
        holdVars, runVars, guestVars
  <1>3. CASE Exit(r) \/ ExitFrame(r) \/ GuestKills(r)
    BY <1>3
    DEF Exit, ExitFrame, GuestKills, TypeOK, StartInv, ResultInv, Over,
        optVars, holdVars, runVars, startVars, guestVars
  <1> QED
    BY <1>1, <1>2, <1>3 DEF GuestStep

LEMMA ChannelStepResult ==
    ASSUME TypeOK, NEW r \in Runs, ResultInv(r), GoDown \/ GoUp
    PROVE  ResultInv(r)'
  <1>1. UNCHANGED Mine(r) \/ Severed(r)
    BY ChannelStepMine
  <1> QED
    BY <1>1 DEF Mine, Severed, ResultInv, Over

-----------------------------------------------------------------------------
(***************************************************************************)
(* All runs, all steps.                                                    *)
(***************************************************************************)
RunsInv == \A r \in Runs : StartInv(r) /\ ResultInv(r)

LEMMA NextRuns == TypeOK /\ RunsInv /\ [Next]_vars => RunsInv'
  <1> SUFFICES ASSUME TypeOK, RunsInv, [Next]_vars, NEW q \in Runs
               PROVE  (StartInv(q) /\ ResultInv(q))'
    BY DEF RunsInv
  <1>1. ASSUME UNCHANGED Mine(q)
        PROVE  (StartInv(q) /\ ResultInv(q))'
    BY <1>1 DEF Mine, RunsInv, StartInv, ResultInv, Over
  <1>2. CASE UNCHANGED vars
    BY <1>1, <1>2
    DEF Mine, vars, optVars, holdVars, chanVars, runVars, startVars, guestVars
  <1>3. CASE GoDown \/ GoUp
    BY <1>3, ChannelStepStart, ChannelStepResult DEF RunsInv
  <1>4. ASSUME NEW r \in Runs, RunStep(r) \/ GuestStep(r)
        PROVE  (StartInv(q) /\ ResultInv(q))'
    <2>1. CASE q = r
      BY <1>4, <2>1, RunStepStart, GuestStepStart, RunStepResult,
         GuestStepResult DEF RunsInv
    <2>2. CASE q # r
      BY <1>1, <1>4, <2>2, Elsewhere
    <2> QED
      BY <2>1, <2>2
  <1> QED
    BY <1>2, <1>3, <1>4 DEF Next

LEMMA InitRuns == Init => RunsInv
  <1> SUFFICES ASSUME Init, NEW r \in Runs
               PROVE  StartInv(r) /\ ResultInv(r)
    BY DEF RunsInv
  <1>1. /\ pc[r] = "idle" /\ result[r] = "none" /\ request[r] = "none"
        /\ start[r] = "none" /\ told[r] = "none"
        /\ procs[r] = 0 /\ proc[r] = "none"
    BY DEF Init, Each
  <1>2. StartInv(r)
    BY <1>1 DEF StartInv
  <1>3. ResultInv(r)
    BY <1>1 DEF ResultInv, Over
  <1> QED
    BY <1>2, <1>3

LEMMA RunsHold == Spec => [](TypeOK /\ RunsInv)
  BY InitType, NextType, InitRuns, NextRuns, PTL DEF Spec

\* Whatever is lost, refused or late on either route, and whatever the channel
\* does meanwhile, a run starts at most one process.
THEOREM OneProcess == Spec => []StartedOnce
  <1>1. TypeOK /\ RunsInv => StartedOnce
    <2>1. ASSUME NEW r \in Runs, StartInv(r)
          PROVE  procs[r] <= 1
      <3>1. ~(request[r] = "taken" /\ start[r] = "started")
        BY <2>1 DEF StartInv
      <3>2. procs[r] \in {0, 1}
        BY <2>1, <3>1 DEF StartInv
      <3> QED
        BY <3>2
    <2> QED
      BY <2>1 DEF RunsInv, StartedOnce
  <1> QED
    BY <1>1, RunsHold, PTL

\* An Ok with an exit code is that of the run's one process, which is over.
THEOREM OkMeansOver == Spec => []OkIsOver
  <1>1. TypeOK /\ RunsInv => OkIsOver
    BY DEF RunsInv, ResultInv, Over, OkIsOver
  <1> QED
    BY <1>1, RunsHold, PTL

-----------------------------------------------------------------------------
(***************************************************************************)
(* Who is killed.                                                          *)
(***************************************************************************)
LEMMA RunStepKill ==
    ASSUME TypeOK, NEW r \in Runs, ResultInv(r), KillInv(r), RunStep(r)
    PROVE  KillInv(r)'
  <1>1. CASE ChooseRest(r) \/ ChooseChannel(r)
    BY <1>1
    DEF ChooseRest, ChooseChannel, Goto, Post, TypeOK, KillInv, Abandoned,
        optVars, holdVars, guestVars
  <1>2. CASE ExecOk(r) \/ ExecUnavailable(r) \/ ExecFails(r)
    BY <1>2
    DEF ExecOk, ExecUnavailable, ExecFails, Return, Goto, ExecFrame, TypeOK,
        KillInv, ResultInv, Abandoned, optVars, holdVars, guestVars
  <1>3. CASE ConnectOk(r) \/ ConnectFails(r) \/ Call(r)
    BY <1>3
    DEF ConnectOk, ConnectFails, Call, Return, Goto, TypeOK, KillInv,
        ResultInv, Abandoned, optVars, holdVars, guestVars
  <1>4. CASE Reply(r) \/ TimesOut(r)
    BY <1>4
    DEF Reply, TimesOut, Tell, TypeOK, KillInv, Abandoned, optVars, holdVars,
        runVars, guestVars
  <1>5. CASE Started(r)
    BY <1>5
    DEF Started, Return, Goto, TypeOK, KillInv, ResultInv, Abandoned, optVars,
        guestVars
  <1>6. CASE Refused(r) \/ StartFails(r)
    BY <1>6
    DEF Refused, StartFails, Return, Goto, TypeOK, KillInv, ResultInv,
        Abandoned, optVars, holdVars, guestVars
  <1>7. CASE WaitExit(r) \/ WaitClosed(r) \/ WaitKilled(r)
    BY <1>7
    DEF WaitExit, WaitClosed, WaitKilled, Disarm, Return, Goto, WaitFrame,
        TypeOK, KillInv, ResultInv, Abandoned, optVars
  <1>8. CASE WaitDeadline(r)
    BY <1>8
    DEF WaitDeadline, Elapses, KillNow, SendKill, Goto, WaitFrame, TypeOK,
        KillInv, ResultInv, Abandoned, optVars, holdVars
  <1>9. CASE Drop(r)
    BY <1>9
    DEF Drop, DropGuard, Goto, TypeOK, KillInv, Abandoned, optVars, guestVars
  <1>10. CASE BackgroundEnds(r)
    BY <1>10
    DEF BackgroundEnds, WaitFrame, TypeOK, KillInv, Abandoned, optVars,
        runVars
  <1>11. CASE GuardKill(r)
    BY <1>11
    DEF GuardKill, GuardInsists, SendKill, WaitFrame, TypeOK, KillInv,
        Abandoned, optVars, runVars
  <1> QED
    BY <1>1, <1>2, <1>3, <1>4, <1>5, <1>6, <1>7, <1>8, <1>9, <1>10, <1>11
    DEF RunStep

LEMMA GuestStepKill ==
    ASSUME TypeOK, NEW r \in Runs, KillInv(r), GuestStep(r)
    PROVE  KillInv(r)'
  <1>1. CASE ExecRuns(r) \/ GuestStarts(r)
    BY <1>1
    DEF ExecRuns, GuestStarts, Begins, TypeOK, KillInv, Abandoned, optVars,
        holdVars, runVars, guestVars
  <1>2. CASE Exit(r) \/ ExitFrame(r) \/ GuestKills(r)
    BY <1>2
    DEF Exit, ExitFrame, GuestKills, TypeOK, KillInv, Abandoned, optVars,
        holdVars, runVars, guestVars
  <1> QED
    BY <1>1, <1>2 DEF GuestStep

KillsInv == \A r \in Runs : KillInv(r)

LEMMA NextKills ==
    TypeOK /\ RunsInv /\ KillsInv /\ [Next]_vars => KillsInv'
  <1> SUFFICES ASSUME TypeOK, RunsInv, KillsInv, [Next]_vars, NEW q \in Runs
               PROVE  KillInv(q)'
    BY DEF KillsInv
  <1>1. ASSUME UNCHANGED Mine(q) \/ Severed(q)
        PROVE  KillInv(q)'
    BY <1>1 DEF Mine, Severed, KillsInv, KillInv, Abandoned
  <1>2. CASE UNCHANGED vars
    BY <1>1, <1>2
    DEF Mine, vars, optVars, holdVars, chanVars, runVars, startVars, guestVars
  <1>3. CASE GoDown \/ GoUp
    BY <1>1, <1>3, ChannelStepMine
  <1>4. ASSUME NEW r \in Runs, RunStep(r) \/ GuestStep(r)
        PROVE  KillInv(q)'
    <2>1. CASE q = r
      BY <1>4, <2>1, RunStepKill, GuestStepKill DEF RunsInv, KillsInv
    <2>2. CASE q # r
      BY <1>1, <1>4, <2>2, Elsewhere
    <2> QED
      BY <2>1, <2>2
  <1> QED
    BY <1>2, <1>3, <1>4 DEF Next

LEMMA InitKills == Init => KillsInv
  BY DEF Init, Each, KillsInv, KillInv, Abandoned

\* A SIGKILL is only sent to, and only ends, the command of a run that its
\* caller dropped or whose own deadline passed, whatever the guards and
\* deadlines of the others do and however late it arrives.
THEOREM OnlyAbandonedDie == Spec => []OnlyAbandonedKilled
  <1>1. KillsInv => OnlyAbandonedKilled
    BY DEF KillsInv, KillInv, Abandoned, OnlyAbandonedKilled
  <1> QED
    BY <1>1, InitType, NextType, InitRuns, NextRuns, InitKills, NextKills, PTL
    DEF Spec

-----------------------------------------------------------------------------
(***************************************************************************)
(* What a run does with the channel.                                       *)
(***************************************************************************)
LEMMA RunStepLink ==
    ASSUME TypeOK, NEW r \in Runs, LinkInv(r), RunStep(r)
    PROVE  LinkInv(r)'
  <1>1. CASE ChooseRest(r) \/ ChooseChannel(r)
    BY <1>1
    DEF ChooseRest, ChooseChannel, Goto, TypeOK, LinkInv, optVars, chanVars,
        holdVars, startVars
  <1>2. CASE ExecOk(r) \/ ExecUnavailable(r) \/ ExecFails(r)
    BY <1>2
    DEF ExecOk, ExecUnavailable, ExecFails, Return, Goto, ExecFrame, TypeOK,
        LinkInv, optVars, chanVars, holdVars, startVars
  <1>3. CASE ConnectOk(r) \/ ConnectFails(r)
    BY <1>3
    DEF ConnectOk, ConnectFails, Return, Goto, TypeOK, LinkInv, optVars,
        chanVars, holdVars, startVars
  <1>4. CASE Call(r)
    BY <1>4
    DEF Call, Return, Goto, TypeOK, LinkInv, optVars, chanVars, holdVars,
        startVars
  <1>5. CASE Reply(r) \/ TimesOut(r)
    BY <1>5
    DEF Reply, TimesOut, Tell, TypeOK, LinkInv, optVars, chanVars, holdVars,
        runVars
  <1>6. CASE Started(r)
    BY <1>6
    DEF Started, Register, Return, Goto, TypeOK, LinkInv, optVars, chanVars,
        startVars
  <1>7. CASE Refused(r) \/ StartFails(r)
    BY <1>7
    DEF Refused, StartFails, Return, Goto, TypeOK, LinkInv, optVars, chanVars,
        holdVars, startVars
  <1>8. CASE WaitExit(r) \/ WaitClosed(r) \/ WaitKilled(r)
    BY <1>8
    DEF WaitExit, WaitClosed, WaitKilled, EndWait, Return, Goto, WaitFrame,
        TypeOK, LinkInv, optVars, chanVars, startVars
  <1>9. CASE WaitDeadline(r)
    BY <1>9
    DEF WaitDeadline, Goto, WaitFrame, TypeOK, LinkInv, optVars, chanVars,
        holdVars, startVars
  <1>10. CASE BackgroundEnds(r)
    BY <1>10
    DEF BackgroundEnds, EndWait, WaitFrame, TypeOK, LinkInv, optVars,
        chanVars, runVars, startVars
  <1>11. CASE Drop(r)
    BY <1>11 DEF Drop, Goto, TypeOK, LinkInv, optVars, chanVars
  <1>12. CASE GuardKill(r)
    BY <1>12
    DEF GuardKill, WaitFrame, TypeOK, LinkInv, optVars, chanVars, runVars,
        startVars
  <1> QED
    BY <1>1, <1>2, <1>3, <1>4, <1>5, <1>6, <1>7, <1>8, <1>9, <1>10, <1>11,
       <1>12
    DEF RunStep

LEMMA GuestStepLink ==
    ASSUME TypeOK, NEW r \in Runs, LinkInv(r), GuestStep(r)
    PROVE  LinkInv(r)'
  <1>1. CASE ExecRuns(r) \/ GuestStarts(r)
    BY <1>1
    DEF ExecRuns, GuestStarts, TypeOK, LinkInv, optVars, holdVars, chanVars,
        runVars, startVars
  <1>2. CASE Exit(r) \/ ExitFrame(r) \/ GuestKills(r)
    BY <1>2
    DEF Exit, ExitFrame, GuestKills, TypeOK, LinkInv, optVars, holdVars,
        chanVars, runVars, startVars
  <1> QED
    BY <1>1, <1>2 DEF GuestStep

LEMMA ChannelStepLink ==
    ASSUME TypeOK, NEW r \in Runs, LinkInv(r), GoDown \/ GoUp
    PROVE  LinkInv(r)'
  <1>1. CASE GoUp
    BY <1>1 DEF GoUp, LinkInv, optVars, holdVars, runVars, startVars
  <1>2. CASE GoDown
    <2>1. /\ UNCHANGED <<kind, pc>>
          /\ wait'[r] = IF wait[r] = "blocked" THEN "woken" ELSE wait[r]
          /\ pc[r] # "start" => told'[r] = told[r]
      BY <1>2 DEF GoDown, optVars, runVars
    <2> QED
      BY <2>1 DEF LinkInv
  <1> QED
    BY <1>1, <1>2

LEMMA NextRun == TypeOK /\ RunInv /\ [Next]_vars => RunInv'
  <1> SUFFICES ASSUME TypeOK, RunInv, [Next]_vars, NEW q \in Runs
               PROVE  LinkInv(q)'
    BY NextRuns DEF RunInv, RunsInv
  <1>1. ASSUME UNCHANGED Mine(q), up' = up \/ up' = TRUE
        PROVE  LinkInv(q)'
    BY <1>1 DEF Mine, RunInv, LinkInv
  <1>2. CASE UNCHANGED vars
    BY <1>1, <1>2
    DEF Mine, vars, optVars, holdVars, chanVars, runVars, startVars, guestVars
  <1>3. CASE GoDown \/ GoUp
    BY <1>3, ChannelStepLink DEF RunInv
  <1>4. ASSUME NEW r \in Runs, RunStep(r) \/ GuestStep(r)
        PROVE  LinkInv(q)'
    <2>1. CASE q = r
      BY <1>4, <2>1, RunStepLink, GuestStepLink DEF RunInv
    <2>2. CASE q # r
      BY <1>1, <1>4, <2>2, Elsewhere
    <2> QED
      BY <2>1, <2>2
  <1> QED
    BY <1>2, <1>3, <1>4 DEF Next

LEMMA InitRun == Init => RunInv
  <1> SUFFICES ASSUME Init, NEW r \in Runs
               PROVE  LinkInv(r)
    BY InitRuns DEF RunInv, RunsInv
  <1>1. pc[r] = "idle" /\ wait[r] = "none"
    BY DEF Init, Each
  <1> QED
    BY <1>1 DEF LinkInv

LEMMA RunHolds == Spec => [](TypeOK /\ RunInv)
  BY InitType, NextType, InitRun, NextRun, PTL DEF Spec

-----------------------------------------------------------------------------
(***************************************************************************)
(* Every step is one ChannelPromise allows.                                *)
(***************************************************************************)
Same(r) == Verdict(r)' = Verdict(r)

LEMMA MineSame ==
    ASSUME NEW r \in Runs, UNCHANGED Mine(r)
    PROVE  Same(r)
  BY DEF Mine, Same, Verdict

LEMMA Stutter ==
    ASSUME UNCHANGED <<up, wait>>, \A r \in Runs : Same(r)
    PROVE  UNCHANGED Channel!vars
  BY DEF Same, Channel!vars

LEMMA OpenStep ==
    ASSUME up' = TRUE, UNCHANGED wait, \A r \in Runs : Same(r)
    PROVE  Channel!Next
  <1>1. Channel!Open
    BY DEF Same, Channel!Open
  <1> QED
    BY <1>1 DEF Channel!Next

\* One run's verdict, or its wait, moves.
LEMMA VerdictMoves ==
    ASSUME UNCHANGED <<up, wait>>, NEW r \in Runs,
           \A q \in Runs \ {r} : Same(q),
           \/ up /\ Verdict(r) = "unused" /\ Verdict(r)' = "inflight"
           \/ Verdict(r) = "inflight" /\ Verdict(r)' \in Channel!Settled
    PROVE  Channel!Next
  <1>1. \A q \in Runs : Verdict(q)' = IF q = r THEN Verdict(r)' ELSE Verdict(q)
    BY DEF Same
  <1>2. CASE up /\ Verdict(r) = "unused" /\ Verdict(r)' = "inflight"
    <2>1. Channel!Begin(r)
      BY <1>1, <1>2 DEF Channel!Begin
    <2> QED
      BY <2>1 DEF Channel!Next
  <1>3. CASE Verdict(r) = "inflight" /\ Verdict(r)' \in Channel!Settled
    <2>1. Channel!Settle(r)
      BY <1>1, <1>3 DEF Channel!Settle
    <2> QED
      BY <2>1 DEF Channel!Next
  <1> QED
    BY <1>2, <1>3

LEMMA WaitMoves ==
    ASSUME UNCHANGED up, \A q \in Runs : Same(q), NEW r \in Runs, NEW w,
           wait' = [wait EXCEPT ![r] = w],
           \/ /\ Verdict(r) = "ok" /\ wait[r] = "none"
              /\ (w = "blocked" /\ up) \/ w = "woken"
           \/ wait[r] \in {"blocked", "woken"} /\ w \in Channel!Ended
           \/ wait[r] = "woken" /\ w = "closed"
    PROVE  Channel!Next
  <1>1. UNCHANGED [q \in Runs |-> Verdict(q)]
    BY DEF Same
  <1>2. CASE /\ Verdict(r) = "ok" /\ wait[r] = "none"
             /\ (w = "blocked" /\ up) \/ w = "woken"
    <2>1. Channel!Attach(r)
      BY <1>1, <1>2 DEF Channel!Attach
    <2> QED
      BY <2>1 DEF Channel!Next
  <1>3. CASE \/ wait[r] \in {"blocked", "woken"} /\ w \in Channel!Ended
             \/ wait[r] = "woken" /\ w = "closed"
    <2>1. Channel!Finish(r)
      BY <1>1, <1>3 DEF Channel!Finish
    <2> QED
      BY <2>1 DEF Channel!Next
  <1> QED
    BY <1>2, <1>3

LEMMA GoDownStep ==
    ASSUME TypeOK, GoDown
    PROVE  Channel!Next
  <1>1. ASSUME NEW r \in Runs
        PROVE  Verdict(r)' = IF Verdict(r) = "inflight" THEN "closed"
                             ELSE Verdict(r)
    <2>1. /\ pc'[r] = pc[r]
          /\ told'[r] = IF pc[r] # "start" THEN told[r]
                        ELSE IF told[r] = "none" THEN "closed"
                        ELSE IF told[r] = "exit" THEN "started" ELSE told[r]
      BY DEF GoDown, runVars
    <2>2. told[r] \in {"none", "started", "refused", "failed", "closed",
                      "timeout", "dropped", "exit"}
      BY DEF TypeOK
    <2> QED
      BY <2>1, <2>2 DEF Verdict
  <1>2. wait' = [r \in Runs |->
                   IF wait[r] = "blocked" THEN "woken" ELSE wait[r]]
    BY DEF GoDown
  <1>3. Channel!GoDown
    BY <1>1, <1>2 DEF GoDown, Channel!GoDown
  <1> QED
    BY <1>3 DEF Channel!Next

\* Steps that the channel does not see.
LEMMA UnseenStep ==
    ASSUME TypeOK, RunInv, NEW r \in Runs,
           \/ ChooseRest(r) \/ ChooseChannel(r)
           \/ ExecOk(r) \/ ExecUnavailable(r) \/ ExecFails(r)
           \/ ConnectFails(r) \/ Refused(r) \/ StartFails(r)
           \/ WaitDeadline(r) \/ GuardKill(r) \/ GuestStep(r)
    PROVE  UNCHANGED <<up, wait>> /\ Same(r)
  <1>1. CASE \/ ChooseRest(r) \/ ChooseChannel(r)
             \/ ExecOk(r) \/ ExecUnavailable(r) \/ ExecFails(r)
    BY <1>1
    DEF ChooseRest, ChooseChannel, ExecOk, ExecUnavailable, ExecFails, Return,
        Goto, ExecFrame, TypeOK, Same, Verdict, chanVars, startVars, holdVars
  <1>2. CASE ConnectFails(r) \/ Refused(r) \/ StartFails(r)
    BY <1>2
    DEF ConnectFails, Refused, StartFails, Return, Goto, TypeOK, Same,
        Verdict, chanVars, startVars, holdVars
  <1>3. CASE WaitDeadline(r) \/ GuardKill(r)
    BY <1>3
    DEF WaitDeadline, GuardKill, Goto, WaitFrame, TypeOK, Same, Verdict,
        chanVars, runVars, startVars, holdVars
  <1>4. CASE ExecRuns(r) \/ GuestStarts(r) \/ Exit(r) \/ GuestKills(r)
    BY <1>4
    DEF ExecRuns, GuestStarts, Exit, GuestKills, Same, Verdict, chanVars,
        runVars, startVars, holdVars
  <1>5. CASE ExitFrame(r)
    BY <1>5
    DEF ExitFrame, TypeOK, Same, Verdict, chanVars, runVars, holdVars
  <1> QED
    BY <1>1, <1>2, <1>3, <1>4, <1>5 DEF GuestStep

LEMMA RunStepPromise ==
    ASSUME TypeOK, RunInv, NEW r \in Runs, RunStep(r) \/ GuestStep(r)
    PROVE  [Channel!Next]_(Channel!vars)
  <1>0. StartInv(r) /\ LinkInv(r)
    BY DEF RunInv
  <1>1. \A q \in Runs \ {r} : Same(q)
    BY Elsewhere, MineSame
  <1>2. CASE \/ ChooseRest(r) \/ ChooseChannel(r)
             \/ ExecOk(r) \/ ExecUnavailable(r) \/ ExecFails(r)
             \/ ConnectFails(r) \/ Refused(r) \/ StartFails(r)
             \/ WaitDeadline(r) \/ GuardKill(r) \/ GuestStep(r)
    <2>1. UNCHANGED <<up, wait>> /\ Same(r)
      BY <1>2, UnseenStep
    <2> QED
      BY <1>1, <2>1, Stutter
  <1>3. CASE ConnectOk(r)
    <2>1. Same(r) /\ up' = TRUE /\ UNCHANGED wait
      BY <1>3
      DEF ConnectOk, Goto, TypeOK, Same, Verdict, startVars, holdVars
    <2> QED
      BY <1>1, <2>1, OpenStep
  <1>4. CASE Call(r)
    <2>1. UNCHANGED <<up, wait>> /\ told[r] = "none" /\ told'[r] = "none"
          /\ pc[r] = "call"
      BY <1>0, <1>4
      DEF Call, Return, Goto, TypeOK, StartInv, chanVars, startVars, holdVars
    <2>2. CASE MayCall
      <3>1. pc'[r] = "start" /\ up
        BY <1>4, <2>2 DEF Call, MayCall, Goto, TypeOK
      <3>2. Verdict(r) = "unused" /\ Verdict(r)' = "inflight"
        BY <2>1, <3>1 DEF Verdict
      <3> QED
        BY <1>1, <2>1, <3>1, <3>2, VerdictMoves
    <2>3. CASE ~MayCall
      <3>1. pc'[r] = "done"
        BY <1>4, <2>3 DEF Call, Return, Goto, TypeOK
      <3>2. Same(r)
        BY <2>1, <3>1 DEF Same, Verdict
      <3> QED
        BY <1>1, <2>1, <3>2, Stutter
    <2> QED
      BY <2>2, <2>3
  <1>5. CASE Reply(r) \/ TimesOut(r)
    <2>1. /\ UNCHANGED <<up, wait, pc>>
          /\ pc[r] = "start" /\ told[r] = "none"
          /\ told'[r] \in {"started", "refused", "failed", "timeout"}
      BY <1>5
      DEF Reply, TimesOut, Tell, TypeOK, chanVars, runVars, holdVars
    <2>2. Verdict(r) = "inflight" /\ Verdict(r)' \in Channel!Settled
      BY <2>1 DEF Verdict, Channel!Settled
    <2> QED
      BY <1>1, <2>1, <2>2, VerdictMoves
  <1>6. CASE Started(r)
    <2>1. /\ UNCHANGED <<up, told>> /\ told[r] \in {"started", "exit"}
          /\ pc[r] = "start"
          /\ wait' = [wait EXCEPT ![r] = IF up THEN "blocked" ELSE "woken"]
      BY <1>6
      DEF Started, Register, Return, Goto, chanVars, startVars
    <2>2. Same(r) /\ Verdict(r) = "ok" /\ wait[r] = "none"
      BY <1>0, <2>1 DEF Same, Verdict, LinkInv
    <2> QED
      BY <1>1, <2>1, <2>2, WaitMoves
  <1>7. CASE WaitExit(r) \/ WaitClosed(r) \/ WaitKilled(r) \/ BackgroundEnds(r)
    <2>1. /\ UNCHANGED <<up, told>>
          /\ wait[r] \in {"blocked", "woken"}
          /\ \/ wait' = [wait EXCEPT ![r] = "exited"]
             \/ wait' = [wait EXCEPT ![r] = "expired"]
             \/ wait' = [wait EXCEPT ![r] = "dropped"]
             \/ wait[r] = "woken" /\ wait' = [wait EXCEPT ![r] = "closed"]
      BY <1>0, <1>7
      DEF WaitExit, WaitClosed, WaitKilled, BackgroundEnds, EndWait, Return,
          Goto, WaitFrame, LinkInv, chanVars, startVars
    <2>2. Same(r)
      <3>1. told[r] # "none" \/ UNCHANGED pc
        BY <1>0, <1>7
        DEF WaitExit, WaitClosed, WaitKilled, BackgroundEnds, Return, Goto,
            LinkInv, runVars
      <3> QED
        BY <2>1, <3>1 DEF Same, Verdict
    <2> QED
      BY <1>1, <2>1, <2>2, WaitMoves DEF Channel!Ended
  <1>8. CASE Drop(r)
    <2>1. /\ UNCHANGED up /\ pc'[r] = "dropped"
          /\ pc[r] \in {"rest", "again", "connect", "start", "wait", "kill"}
          /\ told'[r] = IF pc[r] = "start" /\ told[r] = "none" THEN "dropped"
                        ELSE told[r]
          /\ wait' = [wait EXCEPT ![r] =
                        IF wait[r] = "none" THEN wait[r] ELSE "dropped"]
      BY <1>8 DEF Drop, Goto, TypeOK, chanVars
    <2>2. CASE pc[r] \in {"wait", "kill"}
      <3>1. Same(r)
        BY <1>0, <2>1, <2>2 DEF Same, Verdict, LinkInv
      <3>2. /\ wait[r] \in {"blocked", "woken"}
            /\ wait' = [wait EXCEPT ![r] = "dropped"]
        BY <1>0, <2>1, <2>2 DEF LinkInv
      <3> QED
        BY <1>1, <2>1, <3>1, <3>2, WaitMoves DEF Channel!Ended
    <2>3. CASE pc[r] \notin {"wait", "kill"}
      <3>1. UNCHANGED wait
        BY <1>0, <2>1, <2>3 DEF LinkInv, TypeOK
      <3>2. CASE pc[r] = "start" /\ told[r] = "none"
        <4>1. Verdict(r) = "inflight" /\ Verdict(r)' \in Channel!Settled
          BY <2>1, <3>2 DEF Verdict, Channel!Settled
        <4> QED
          BY <1>1, <2>1, <3>1, <4>1, VerdictMoves
      <3>3. CASE ~(pc[r] = "start" /\ told[r] = "none")
        <4>1. Same(r)
          BY <2>1, <3>3 DEF Same, Verdict
        <4> QED
          BY <1>1, <2>1, <3>1, <4>1, Stutter
      <3> QED
        BY <3>2, <3>3
    <2> QED
      BY <2>2, <2>3
  <1> QED
    BY <1>2, <1>3, <1>4, <1>5, <1>6, <1>7, <1>8 DEF RunStep

LEMMA NextPromise ==
    TypeOK /\ RunInv /\ [Next]_vars => [Channel!Next]_(Channel!vars)
  <1> SUFFICES ASSUME TypeOK, RunInv, [Next]_vars
               PROVE  [Channel!Next]_(Channel!vars)
    OBVIOUS
  <1>1. CASE UNCHANGED vars
    <2>1. UNCHANGED <<up, wait>> /\ \A r \in Runs : UNCHANGED Mine(r)
      BY <1>1
      DEF Mine, vars, optVars, holdVars, chanVars, runVars, startVars,
          guestVars
    <2> QED
      BY <2>1, MineSame, Stutter
  <1>2. CASE GoUp
    <2>1. /\ up' = TRUE /\ UNCHANGED wait
          /\ \A r \in Runs : UNCHANGED Mine(r)
      BY <1>2 DEF GoUp, Mine, optVars, holdVars, runVars, startVars, guestVars
    <2> QED
      BY <2>1, MineSame, OpenStep
  <1> QED
    BY <1>1, <1>2, GoDownStep, RunStepPromise DEF Next

LEMMA InitPromise == Init => Channel!Init
  <1> SUFFICES ASSUME Init
               PROVE  Channel!Init
    OBVIOUS
  <1>1. ASSUME NEW r \in Runs
        PROVE  Verdict(r) = "unused"
    BY <1>1 DEF Init, Each, Verdict
  <1>2. up = FALSE /\ wait = [r \in Runs |-> "none"]
    BY DEF Init, Each
  <1> QED
    BY <1>1, <1>2 DEF Channel!Init

\* The runs, and the channel under them, do what ChannelPromise allows: a run
\* uses the channel only as it may, also one whose command was started over one
\* connection and registered on the next.
THEOREM PromiseUsed == Spec => UsesPromise
  BY RunHolds, InitPromise, NextPromise, PTL
  DEF Spec, UsesPromise, Channel!Spec

=============================================================================
