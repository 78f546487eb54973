--------------------------- MODULE RequestProofs ----------------------------
(***************************************************************************)
(* Proofs about HttpTransport and SandboxSession, which share no state:    *)
(* what the retry loop and the key together guarantee, for any number of   *)
(* requests and retries, and what exclusive borrowing and the order of the *)
(* two steps of pause guarantee, for any number of tasks and slots.        *)
(***************************************************************************)
EXTENDS HttpTransport, SandboxSession, TLAPS

-----------------------------------------------------------------------------
(***************************************************************************)
(* HttpTransport.                                                          *)
(***************************************************************************)


Begun(q) == phase[q] # "idle"

\* The loop: attempts are counted, and only an idempotent request is repeated.
LoopInv(q) ==
    /\ Begun(q) => sent[q] = attempt[q] + 1
    /\ ~Begun(q) => sent[q] = 0 /\ attempt[q] = 0 /\ made[q] = 0
                    /\ reply[q] = "none" /\ result[q] = "none"
    /\ made[q] + net[q] <= sent[q]
    /\ attempt[q] > 0 \/ phase[q] = "backoff" => Idempotent(q)
    /\ phase[q] = "backoff" => attempt[q] < MaxRetries
    /\ result[q] # "none" => phase[q] = "done"
    /\ Idempotent(q) /\ result[q] \in {"network", "transient", "hinted"} =>
          attempt[q] = MaxRetries
    /\ reply[q] = "ok" \/ result[q] \in {"ok", "decode"} => made[q] >= 1

\* The keys: one for each request, and the gateway knows those that are done.
KeyInv ==
    /\ \A k \in known : k <= counter
    /\ \A q \in Requests :
          kind[q] = "keyed" /\ Begun(q) =>
             /\ key[q] \in 1 .. counter
             /\ made[q] = IF key[q] \in known THEN 1 ELSE 0
    /\ \A p, q \in Requests :
          /\ p # q /\ kind[p] = "keyed" /\ kind[q] = "keyed"
          /\ Begun(p) /\ Begun(q)
          => key[p] # key[q]

HttpInv == KeyInv /\ \A q \in Requests : LoopInv(q)

-----------------------------------------------------------------------------
(***************************************************************************)
(* Types.                                                                  *)
(***************************************************************************)
LEMMA ClientStepType ==
    ASSUME TypeOK, HttpInv, NEW q \in Requests, ClientStep(q)
    PROVE  TypeOK'
  <1>1. CASE Begin(q)
    BY <1>1 DEF Begin, Send, NewKey, NextCounter, TypeOK, gatewayVars, keyVars
  <1>2. CASE NetworkError(q) \/ ErrorAnswer(q) \/ OkAnswer(q)
    BY <1>2
    DEF NetworkError, ErrorAnswer, OkAnswer, BackOff, Return, TypeOK, Answers,
        gatewayVars, keyVars
  <1>3. CASE Retry(q)
    <2>1. attempt[q] < MaxRetries
      BY <1>3 DEF Retry, HttpInv, LoopInv
    <2>2. attempt' \in [Requests -> 0 .. MaxRetries]
      BY <1>3, <2>1, RetriesAssumption DEF Retry, TypeOK
    <2> QED
      BY <1>3, <2>2 DEF Retry, RetryKey, Send, TypeOK, gatewayVars, keyVars
  <1>4. CASE Drop(q)
    BY <1>4 DEF Drop, TypeOK, gatewayVars, keyVars
  <1> QED
    BY <1>1, <1>2, <1>3, <1>4 DEF ClientStep

LEMMA GatewayStepType ==
    ASSUME TypeOK, NEW q \in Requests, GatewayStep(q)
    PROVE  TypeOK'
  <1>1. reply' \in [Requests -> {"none"} \cup Answers]
    BY DEF GatewayStep, Does, Repeats, Refuses, Tell, TypeOK
  <1>2. net' \in [Requests -> Nat]
    BY DEF GatewayStep, Does, Repeats, Refuses, Arrives, TypeOK
  <1>3. CASE Does(q)
    <2>1. key[q] \in Nat /\ known' \in {known, known \cup {key[q]}}
      BY <1>3 DEF Does, TypeOK
    <2>2. known' \subseteq Nat
      BY <2>1 DEF TypeOK
    <2>3. made' \in [Requests -> Nat]
      BY <1>3 DEF Does, TypeOK
    <2> QED
      BY <1>1, <1>2, <1>3, <2>2, <2>3
      DEF Does, Arrives, TypeOK, clientVars, keyVars
  <1>4. CASE Repeats(q) \/ Refuses(q)
    BY <1>1, <1>2, <1>4
    DEF Repeats, Refuses, Arrives, TypeOK, clientVars, keyVars, gatewayVars
  <1> QED
    BY <1>3, <1>4 DEF GatewayStep

-----------------------------------------------------------------------------
(***************************************************************************)
(* The loop.                                                               *)
(***************************************************************************)
Mine(q) == <<kind[q], phase[q], attempt[q], result[q], sent[q], net[q],
             reply[q], made[q]>>

LEMMA OtherRequests ==
    ASSUME TypeOK, NEW q \in Requests, ClientStep(q) \/ GatewayStep(q)
    PROVE  \A p \in Requests \ {q} : UNCHANGED Mine(p) /\ UNCHANGED key[p]
  <1>1. CASE Begin(q) \/ Retry(q)
    BY <1>1
    DEF Begin, Retry, RetryKey, Send, NewKey, TypeOK, Mine, gatewayVars, keyVars
  <1>2. CASE NetworkError(q) \/ ErrorAnswer(q) \/ OkAnswer(q) \/ Drop(q)
    BY <1>2
    DEF NetworkError, ErrorAnswer, OkAnswer, Drop, BackOff, Return, TypeOK,
        Mine, gatewayVars, keyVars
  <1>3. CASE GatewayStep(q)
    BY <1>3
    DEF GatewayStep, Does, Repeats, Refuses, Arrives, Tell, TypeOK, Mine,
        clientVars, keyVars, gatewayVars
  <1> QED
    BY <1>1, <1>2, <1>3 DEF ClientStep

LEMMA ClientStepLoop ==
    ASSUME TypeOK, NEW q \in Requests, LoopInv(q), ClientStep(q)
    PROVE  LoopInv(q)'
  <1> USE RetriesAssumption
  <1>1. CASE Begin(q)
    BY <1>1 DEF Begin, Send, TypeOK, LoopInv, Begun, Idempotent, gatewayVars
  <1>2. CASE NetworkError(q)
    BY <1>2
    DEF NetworkError, MayRetry, BackOff, Return, TypeOK, LoopInv, Begun,
        Idempotent, gatewayVars
  <1>3. CASE ErrorAnswer(q)
    BY <1>3
    DEF ErrorAnswer, MayRetry, Retryable, BackOff, Return, TypeOK, LoopInv,
        Answers, Begun, Idempotent, gatewayVars
  <1>4. CASE OkAnswer(q)
    BY <1>4
    DEF OkAnswer, Return, TypeOK, LoopInv, Begun, Idempotent, gatewayVars
  <1>5. CASE Retry(q)
    BY <1>5 DEF Retry, Send, TypeOK, LoopInv, Begun, Idempotent, gatewayVars
  <1>6. CASE Drop(q)
    BY <1>6 DEF Drop, TypeOK, LoopInv, Begun, Idempotent, gatewayVars
  <1> QED
    BY <1>1, <1>2, <1>3, <1>4, <1>5, <1>6 DEF ClientStep

LEMMA GatewayStepLoop ==
    ASSUME TypeOK, HttpInv, NEW q \in Requests, GatewayStep(q)
    PROVE  LoopInv(q)'
  <1>1. LoopInv(q)
    BY DEF HttpInv
  <1>2. /\ net[q] > 0 /\ net'[q] = net[q] - 1
        /\ UNCHANGED <<kind, phase, attempt, result, key, sent>>
    BY DEF GatewayStep, Does, Repeats, Refuses, Arrives, TypeOK, clientVars,
           keyVars
  <1>3. Begun(q)
    BY <1>1, <1>2 DEF LoopInv, TypeOK
  <1>4. CASE Does(q)
    <2>1. made'[q] = made[q] + 1
      BY <1>4 DEF Does, TypeOK
    <2> QED
      BY <1>1, <1>2, <1>3, <2>1 DEF LoopInv, Begun, Idempotent, TypeOK
  <1>5. CASE Repeats(q)
    <2>1. made[q] = 1 /\ UNCHANGED made
      BY <1>3, <1>5 DEF Repeats, gatewayVars, HttpInv, KeyInv
    <2> QED
      BY <1>1, <1>2, <1>3, <2>1 DEF LoopInv, Begun, Idempotent, TypeOK
  <1>6. CASE Refuses(q)
    <2>1. UNCHANGED made /\ (reply'[q] = "ok" => reply[q] = "ok")
      BY <1>6 DEF Refuses, Tell, TypeOK, gatewayVars
    <2> QED
      BY <1>1, <1>2, <1>3, <2>1 DEF LoopInv, Begun, Idempotent, TypeOK
  <1> QED
    BY <1>4, <1>5, <1>6 DEF GatewayStep

LEMMA NextLoop ==
    ASSUME TypeOK, HttpInv, NEW q \in Requests, ClientStep(q) \/ GatewayStep(q)
    PROVE  \A p \in Requests : LoopInv(p)'
  <1>1. ASSUME NEW p \in Requests, p # q
        PROVE  LoopInv(p)'
    <2>1. UNCHANGED Mine(p) /\ LoopInv(p)
      BY <1>1, OtherRequests DEF HttpInv
    <2> QED
      BY <2>1 DEF Mine, LoopInv, Begun, Idempotent
  <1>2. LoopInv(q)'
    BY ClientStepLoop, GatewayStepLoop DEF HttpInv
  <1> QED
    BY <1>1, <1>2

-----------------------------------------------------------------------------
(***************************************************************************)
(* The keys.                                                               *)
(***************************************************************************)

\* A key made now is larger than any in use.
LEMMA BeginKeys ==
    ASSUME TypeOK, HttpInv, NEW q \in Requests, Begin(q)
    PROVE  KeyInv'
  <1>1. /\ phase[q] = "idle" /\ UNCHANGED <<kind, known, made>>
        /\ phase' = [phase EXCEPT ![q] = "sending"]
    BY DEF Begin, Send, gatewayVars
  <1>2. made[q] = 0
    BY <1>1 DEF HttpInv, LoopInv, Begun
  <1>3. \A p \in Requests \ {q} : (Begun(p)' <=> Begun(p)) /\ key'[p] = key[p]
    BY <1>1, OtherRequests DEF ClientStep, Begun, TypeOK
  <1>4. counter \in Nat /\ counter' \in Nat /\ counter' >= counter
    BY DEF Begin, NewKey, NextCounter, keyVars, TypeOK
  <1>5. kind[q] = "keyed" => key'[q] = counter' /\ counter' = counter + 1
    BY DEF Begin, NewKey, NextCounter, TypeOK
  <1>6. \A k \in known : k \in Nat /\ k <= counter
    BY DEF HttpInv, KeyInv, TypeOK
  <1>7. \A k \in known' : k <= counter'
    BY <1>1, <1>4, <1>6
  <1>8. ASSUME NEW p \in Requests, kind[p] = "keyed", Begun(p)'
        PROVE  /\ key'[p] \in 1 .. counter'
               /\ made[p] = IF key'[p] \in known THEN 1 ELSE 0
    <2>1. CASE p = q
      BY <1>2, <1>5, <1>6, <1>8, <2>1 DEF TypeOK
    <2>2. CASE p # q
      <3>1. key[p] \in 1 .. counter
        BY <1>3, <1>8, <2>2 DEF HttpInv, KeyInv
      <3>2. made[p] = IF key[p] \in known THEN 1 ELSE 0
        BY <1>3, <1>8, <2>2 DEF HttpInv, KeyInv
      <3> QED
        BY <1>3, <1>4, <2>2, <3>1, <3>2
    <2> QED
      BY <2>1, <2>2
  <1>9. ASSUME NEW o \in Requests, NEW p \in Requests, o # p,
               kind[o] = "keyed", kind[p] = "keyed", Begun(o)', Begun(p)'
        PROVE  key'[o] # key'[p]
    <2>1. ASSUME NEW r \in Requests, r # q, kind[r] = "keyed", Begun(r)'
          PROVE  key'[r] \in 1 .. counter
      BY <1>3, <2>1 DEF HttpInv, KeyInv
    <2>2. CASE o = q
      BY <1>5, <1>9, <2>1, <2>2 DEF TypeOK
    <2>3. CASE p = q
      BY <1>5, <1>9, <2>1, <2>3 DEF TypeOK
    <2>4. CASE o # q /\ p # q
      BY <1>3, <1>9, <2>4 DEF HttpInv, KeyInv
    <2> QED
      BY <2>2, <2>3, <2>4
  <1> QED
    BY <1>1, <1>7, <1>8, <1>9 DEF KeyInv, Begun

LEMMA DoesKeys ==
    ASSUME TypeOK, HttpInv, NEW q \in Requests, Does(q)
    PROVE  KeyInv'
  <1>1. /\ net[q] > 0 /\ UNCHANGED <<kind, phase, counter, key>>
        /\ made' = [made EXCEPT ![q] = @ + 1]
    BY DEF Does, Arrives, clientVars, keyVars
  <1>2. Begun(q)
    BY <1>1 DEF HttpInv, LoopInv, TypeOK
  <1>3. CASE kind[q] = "keyed"
    <2>1. key[q] \notin known /\ known' = known \cup {key[q]}
      BY <1>3 DEF Does
    <2>2. made[q] = 0 /\ key[q] \in 1 .. counter
      BY <1>2, <1>3, <2>1 DEF HttpInv, KeyInv
    <2>3. \A k \in known' : k <= counter'
      BY <1>1, <2>1, <2>2 DEF HttpInv, KeyInv, TypeOK
    <2>4. ASSUME NEW p \in Requests, kind[p] = "keyed", Begun(p)
          PROVE  made'[p] = IF key[p] \in known' THEN 1 ELSE 0
      <3>1. CASE p = q
        BY <1>1, <2>1, <2>2, <3>1 DEF TypeOK
      <3>2. CASE p # q
        <4>1. key[p] # key[q] /\ made[p] = IF key[p] \in known THEN 1 ELSE 0
          BY <1>2, <1>3, <2>4, <3>2 DEF HttpInv, KeyInv
        <4> QED
          BY <1>1, <2>1, <3>2, <4>1 DEF TypeOK
      <3> QED
        BY <3>1, <3>2
    <2> QED
      BY <1>1, <2>3, <2>4 DEF HttpInv, KeyInv, Begun
  <1>4. CASE kind[q] # "keyed"
    <2>1. UNCHANGED known
      BY <1>4 DEF Does
    <2>2. \A p \in Requests : kind[p] = "keyed" => made'[p] = made[p]
      BY <1>1, <1>4 DEF TypeOK
    <2> QED
      BY <1>1, <2>1, <2>2 DEF HttpInv, KeyInv, Begun
  <1> QED
    BY <1>3, <1>4

LEMMA NextKeys ==
    ASSUME TypeOK, HttpInv, NEW q \in Requests, ClientStep(q) \/ GatewayStep(q)
    PROVE  KeyInv'
  <1>1. ASSUME UNCHANGED <<kind, counter, key, known, made>>,
               \A p \in Requests : Begun(p)' <=> Begun(p)
        PROVE  KeyInv'
    BY <1>1 DEF HttpInv, KeyInv
  <1>2. CASE ClientStep(q) /\ ~Begin(q)
    <2>1. UNCHANGED <<kind, counter, key, known, made>>
      BY <1>2
      DEF ClientStep, NetworkError, ErrorAnswer, OkAnswer, Retry, RetryKey,
          Drop, BackOff, Return, gatewayVars, keyVars
    <2>2. \A p \in Requests : Begun(p)' <=> Begun(p)
      BY <1>2
      DEF ClientStep, NetworkError, ErrorAnswer, OkAnswer, Retry, Send, Drop,
          BackOff, Return, Begun, TypeOK
    <2> QED
      BY <1>1, <2>1, <2>2
  <1>3. CASE Repeats(q) \/ Refuses(q)
    BY <1>1, <1>3
    DEF Repeats, Refuses, Arrives, Begun, clientVars, keyVars, gatewayVars
  <1> QED
    BY <1>2, <1>3, BeginKeys, DoesKeys DEF GatewayStep

-----------------------------------------------------------------------------
(***************************************************************************)
(* The theorems.                                                           *)
(***************************************************************************)
LEMMA NextHttp == TypeOK /\ HttpInv /\ [Next]_vars => (TypeOK /\ HttpInv)'
  <1> SUFFICES ASSUME TypeOK, HttpInv, [Next]_vars
               PROVE  (TypeOK /\ HttpInv)'
    OBVIOUS
  <1>1. CASE UNCHANGED vars
    <2>1. UNCHANGED <<kind, phase, attempt, result, counter, key, sent, net,
                      reply, known, made>>
      BY <1>1 DEF vars, clientVars, keyVars, gatewayVars
    <2> QED
      BY <2>1 DEF TypeOK, HttpInv, KeyInv, LoopInv, Begun, Idempotent
  <1>2. ASSUME NEW q \in Requests, ClientStep(q) \/ GatewayStep(q)
        PROVE  (TypeOK /\ HttpInv)'
    <2>1. TypeOK'
      BY <1>2, ClientStepType, GatewayStepType
    <2>2. KeyInv' /\ \A p \in Requests : LoopInv(p)'
      BY <1>2, NextKeys, NextLoop
    <2> QED
      BY <2>1, <2>2 DEF HttpInv
  <1> QED
    BY <1>1, <1>2 DEF Next

LEMMA InitHttp == Init => TypeOK /\ HttpInv
  <1> SUFFICES ASSUME Init
               PROVE  TypeOK /\ HttpInv
    OBVIOUS
  <1>1. TypeOK
    BY RetriesAssumption DEF Init, TypeOK
  <1>2. KeyInv
    BY DEF Init, KeyInv, Begun
  <1>3. ASSUME NEW q \in Requests
        PROVE  LoopInv(q)
    BY <1>3 DEF Init, LoopInv, Begun
  <1> QED
    BY <1>1, <1>2, <1>3 DEF HttpInv

LEMMA HttpHolds == Spec => [](TypeOK /\ HttpInv)
  BY InitHttp, NextHttp, PTL DEF Spec

\* The loop's counter stays within max_retries, and everything else in its type.
THEOREM HttpTypeCorrect == Spec => []TypeOK
  BY HttpHolds, PTL

\* A POST takes effect at most once, whatever happens to its attempts and their
\* answers.
THEOREM EffectOnce == Spec => []AtMostOnce
  <1>1. TypeOK /\ HttpInv => AtMostOnce
    <2> SUFFICES ASSUME TypeOK, HttpInv, NEW q \in Requests,
                        kind[q] # "repeatable"
                 PROVE  made[q] <= 1
      BY DEF AtMostOnce
    <2>1. LoopInv(q) /\ made[q] \in Nat /\ net[q] \in Nat /\ sent[q] \in Nat
          /\ attempt[q] \in Nat
      BY RetriesAssumption DEF HttpInv, TypeOK
    <2>2. CASE kind[q] = "post"
      BY <2>1, <2>2 DEF LoopInv, Idempotent
    <2>3. CASE kind[q] = "keyed" /\ Begun(q)
      BY <2>3 DEF HttpInv, KeyInv
    <2>4. CASE ~Begun(q)
      BY <2>1, <2>4 DEF LoopInv
    <2> QED
      BY <2>2, <2>3, <2>4 DEF TypeOK, Kinds
  <1> QED
    BY <1>1, HttpHolds, PTL

\* An answered request was done: keys of different creates never meet.
THEOREM OkWasDone == Spec => []OkIsOwn
  <1>1. TypeOK /\ HttpInv => OkIsOwn
    BY DEF HttpInv, LoopInv, OkIsOwn
  <1> QED
    BY <1>1, HttpHolds, PTL

\* The bound on attempts is kept, and used up before an idempotent request gives
\* up on something that may pass.
THEOREM AllRetriesUsed == Spec => []RetriesSpent
  <1>1. TypeOK /\ HttpInv => RetriesSpent
    <2> SUFFICES ASSUME TypeOK, HttpInv, NEW q \in Requests
                 PROVE  /\ sent[q] <= MaxRetries + 1
                        /\ Idempotent(q)
                           /\ result[q] \in {"network", "transient", "hinted"}
                           => sent[q] = MaxRetries + 1
      BY DEF RetriesSpent
    <2>1. LoopInv(q) /\ attempt[q] \in 0 .. MaxRetries
      BY DEF HttpInv, TypeOK
    <2> QED
      BY <2>1, RetriesAssumption DEF LoopInv, Begun
  <1> QED
    BY <1>1, HttpHolds, PTL

-----------------------------------------------------------------------------
(***************************************************************************)
(* SandboxSession.                                                         *)
(***************************************************************************)


\* Whose turn it is: an operation that makes or takes the handle is alone.
TurnInv(t) ==
    /\ step[t] \in {"asking", "answered"} =>
          doing[t] \in Making \cup Lent \cup Taking
    /\ step[t] \in Dialing => doing[t] \in {"connect"} \cup Taking
    /\ step[t] # "idle" /\ doing[t] \in Making => ~owned
    /\ step[t] # "idle" /\ doing[t] \in Making \cup Taking =>
          \A u \in Tasks \ {t} : step[u] = "idle"

\* How old things are: nothing is from a later slot than the last, what a
\* resume was answered is no older than the URL it replaces, and what it then
\* connects to no older than what it was answered.
AgeInv(t) ==
    /\ answer[t] <= slot
    /\ step[t] = "answered" /\ doing[t] \in Taking => url <= answer[t]
    /\ step[t] = "opened" /\ doing[t] \in Taking => answer[t] <= socket[t]

HandleInv == url <= slot /\ (held => chan = Down)

SessionInv ==
    /\ SessionTypeOK /\ HandleInv /\ NoStaleDial
    /\ \A t \in Tasks : TurnInv(t) /\ AgeInv(t)

-----------------------------------------------------------------------------
(***************************************************************************)
(* Types.                                                                  *)
(***************************************************************************)
LEMMA SlotTypes == 0 \in 0 .. MaxSlots /\ Down = 0 /\ Derived = 0
  BY SlotsAssumption DEF Down, Derived

\* What the gateway grants is a sandbox in one of its states, on a later slot or
\* the same.
LEMMA GrantedSlot ==
    ASSUME SessionTypeOK, NEW op, Granted(op)
    PROVE  /\ box' \in {"none", "running", "paused", "stopped", "gone"}
           /\ slot' \in 0 .. MaxSlots /\ slot <= slot'
  BY SlotsAssumption DEF SessionTypeOK, Granted, ComesBack

LEMMA RequestType ==
    ASSUME SessionTypeOK, NEW t \in Tasks, RequestStep(t)
    PROVE  SessionTypeOK'
  <1>1. CASE \E op \in Making \cup Lent \cup Taking : Ask(t, op)
    BY <1>1, SlotTypes DEF Ask, SessionTypeOK, cloud, handle
  <1>2. CASE Serve(t)
    <2>1. PICK op : op = doing[t] /\ Granted(op)
      BY <1>2 DEF Serve
    <2> QED
      BY <1>2, <2>1, GrantedSlot DEF Serve, SessionTypeOK, handle
  <1>3. CASE Fails(t) \/ DropFuture(t)
    BY <1>3, SlotTypes DEF Fails, DropFuture, Leave, SessionTypeOK, cloud, handle
  <1>4. CASE Make(t)
    BY <1>4, SlotTypes DEF Make, Leave, SessionTypeOK, cloud
  <1>5. CASE PauseReturns(t)
    BY <1>5, SlotTypes
    DEF PauseReturns, CloseAfter, Shut, NoDial, Leave, SessionTypeOK, cloud
  <1>6. CASE Adopt(t)
    BY <1>6, SlotTypes DEF Adopt, Dial, Dialing, Leave, SessionTypeOK, cloud
  <1> QED
    BY <1>1, <1>2, <1>3, <1>4, <1>5, <1>6 DEF RequestStep

LEMMA DialType ==
    ASSUME SessionTypeOK, NEW t \in Tasks, DialStep(t)
    PROVE  SessionTypeOK'
  <1>1. CASE Connect(t)
    BY <1>1, SlotTypes DEF Connect, Dial, Dialing, SessionTypeOK, cloud
  <1>2. CASE DialOpens(t)
    BY <1>2, SlotTypes DEF DialOpens, Dialing, SessionTypeOK, cloud, handle
  <1>3. CASE DialFails(t)
    BY <1>3, SlotTypes DEF DialFails, Leave, SessionTypeOK, cloud, handle
  <1>4. CASE Install(t)
    BY <1>4, SlotTypes DEF Install, Leave, SessionTypeOK, cloud
  <1> QED
    BY <1>1, <1>2, <1>3, <1>4 DEF DialStep

LEMMA OtherType ==
    ASSUME SessionTypeOK, Elsewhere \/ Close \/ Discard \/ SocketEnds
    PROVE  SessionTypeOK'
  <1>1. CASE Elsewhere
    <2>1. /\ box' \in {"none", "running", "paused", "stopped", "gone"}
          /\ slot' \in 0 .. MaxSlots
      BY <1>1, GrantedSlot DEF Elsewhere, SessionTypeOK
    <2> QED
      BY <1>1, <2>1 DEF Elsewhere, SessionTypeOK, handle, taskVars
  <1>2. CASE Close \/ Discard \/ SocketEnds
    BY <1>2, SlotTypes
    DEF Close, Discard, SocketEnds, Shut, NoDial, SessionTypeOK, cloud, taskVars
  <1> QED
    BY <1>1, <1>2

LEMMA SessionTypeStep ==
    ASSUME SessionTypeOK, [SessionNext]_sessionVars
    PROVE  SessionTypeOK'
  <1>1. CASE UNCHANGED sessionVars
    BY <1>1 DEF SessionTypeOK, sessionVars, cloud, handle, taskVars
  <1> QED
    BY <1>1, RequestType, DialType, OtherType DEF SessionNext

\* The type invariant.
THEOREM SessionTypes == SessionSpec => []SessionTypeOK
  <1>1. SessionInit => SessionTypeOK
    BY SlotTypes DEF SessionInit, SessionTypeOK
  <1> QED
    BY <1>1, SessionTypeStep, PTL DEF SessionSpec

-----------------------------------------------------------------------------
(***************************************************************************)
(* Whose turn it is.                                                       *)
(***************************************************************************)

\* A step of t that leaves the others where they are, and goes on with the
\* operation it is in, or leaves it.
LEMMA TurnGoesOn ==
    ASSUME SessionTypeOK, \A v \in Tasks : TurnInv(v), NEW t \in Tasks,
           step[t] # "idle", step' = [step EXCEPT ![t] = step'[t]],
           doing' = [doing EXCEPT ![t] = doing'[t]], owned' = owned,
           \/ step'[t] = "idle"
           \/ doing'[t] = doing[t] /\ step'[t] \in {"answered"} \cup Dialing,
           step'[t] \in Dialing => doing[t] \in {"connect"} \cup Taking,
           step'[t] = "answered" => step[t] = "asking"
    PROVE  \A v \in Tasks : TurnInv(v)'
  <1> SUFFICES ASSUME NEW v \in Tasks PROVE TurnInv(v)'
    OBVIOUS
  <1>1. CASE v = t
    BY <1>1 DEF TurnInv, SessionTypeOK, Dialing, Making, Lent, Taking
  <1>2. CASE v # t
    BY <1>2 DEF TurnInv, SessionTypeOK, Dialing, Making, Lent, Taking
  <1> QED
    BY <1>1, <1>2

LEMMA RequestTurn ==
    ASSUME SessionInv, NEW t \in Tasks, RequestStep(t)
    PROVE  \A v \in Tasks : TurnInv(v)'
  <1>1. CASE \E op \in Making \cup Lent \cup Taking : Ask(t, op)
    <2>1. PICK op \in Making \cup Lent \cup Taking : Ask(t, op)
      BY <1>1
    <2> SUFFICES ASSUME NEW v \in Tasks PROVE TurnInv(v)'
      OBVIOUS
    <2>2. CASE v = t
      BY <2>1, <2>2
      DEF Ask, Borrows, NobodyElse, SessionInv, SessionTypeOK, TurnInv, handle,
          Making, Lent, Taking, Dialing
    <2>3. CASE v # t
      BY <2>1, <2>3
      DEF Ask, Borrows, NobodyElse, NobodyTakes, SessionInv, SessionTypeOK,
          TurnInv, handle, Making, Lent, Taking, Dialing
    <2> QED
      BY <2>2, <2>3
  <1>2. CASE Serve(t) \/ Fails(t) \/ DropFuture(t) \/ PauseReturns(t) \/ Adopt(t)
    <2>1. /\ step[t] # "idle" /\ step' = [step EXCEPT ![t] = step'[t]]
          /\ doing' = [doing EXCEPT ![t] = doing'[t]] /\ owned' = owned
      BY <1>2
      DEF Serve, Fails, DropFuture, PauseReturns, Adopt, Leave, Dial, Dialing,
          handle, SessionInv, SessionTypeOK
    <2>2. /\ step'[t] = "idle" \/ (/\ doing'[t] = doing[t]
                                   /\ step'[t] \in {"answered"} \cup Dialing)
          /\ step'[t] \in Dialing => doing[t] \in {"connect"} \cup Taking
          /\ step'[t] = "answered" => step[t] = "asking"
      BY <1>2
      DEF Serve, Fails, DropFuture, PauseReturns, Adopt, Leave, Dial, Dialing,
          SessionInv, SessionTypeOK
    <2> QED
      BY <2>1, <2>2, TurnGoesOn DEF SessionInv
  <1>3. CASE Make(t)
    BY <1>3
    DEF Make, Leave, SessionInv, SessionTypeOK, TurnInv, Making, Lent, Taking,
        Dialing
  <1> QED
    BY <1>1, <1>2, <1>3 DEF RequestStep

LEMMA DialTurn ==
    ASSUME SessionInv, NEW t \in Tasks, DialStep(t)
    PROVE  \A v \in Tasks : TurnInv(v)'
  <1>1. CASE Connect(t)
    <2> SUFFICES ASSUME NEW v \in Tasks PROVE TurnInv(v)'
      OBVIOUS
    <2>1. CASE v = t
      BY <1>1, <2>1
      DEF Connect, Dial, SessionInv, SessionTypeOK, TurnInv, Making, Lent,
          Taking, Dialing
    <2>2. CASE v # t
      BY <1>1, <2>2
      DEF Connect, Dial, NobodyTakes, SessionInv, SessionTypeOK, TurnInv, Making,
          Lent, Taking, Dialing
    <2> QED
      BY <2>1, <2>2
  <1>2. CASE DialOpens(t) \/ DialFails(t) \/ Install(t)
    <2>1. /\ step[t] # "idle" /\ step' = [step EXCEPT ![t] = step'[t]]
          /\ doing' = [doing EXCEPT ![t] = doing'[t]] /\ owned' = owned
      BY <1>2
      DEF DialOpens, DialFails, Install, Leave, Dialing, handle, SessionInv,
          SessionTypeOK
    <2>2. /\ step'[t] = "idle" \/ (/\ doing'[t] = doing[t]
                                   /\ step'[t] \in {"answered"} \cup Dialing)
          /\ step'[t] \in Dialing => doing[t] \in {"connect"} \cup Taking
          /\ step'[t] = "answered" => step[t] = "asking"
      BY <1>2
      DEF DialOpens, DialFails, Install, Leave, Dialing, SessionInv,
          SessionTypeOK, TurnInv
    <2> QED
      BY <2>1, <2>2, TurnGoesOn DEF SessionInv
  <1> QED
    BY <1>1, <1>2 DEF DialStep

LEMMA OtherTurn ==
    ASSUME SessionInv, Elsewhere \/ Close \/ Discard \/ SocketEnds
    PROVE  \A v \in Tasks : TurnInv(v)'
  BY DEF Elsewhere, Close, Discard, SocketEnds, NobodyElse, SessionInv, TurnInv,
         handle, taskVars, Making, Lent, Taking, Dialing

-----------------------------------------------------------------------------
(***************************************************************************)
(* Dials and slots.                                                        *)
(***************************************************************************)

\* The control URL changes when nobody else is in the middle of anything.
LEMMA UrlAlone ==
    ASSUME SessionInv, NEW t \in Tasks, Make(t) \/ Adopt(t)
    PROVE  \A u \in Tasks \ {t} : step[u] = "idle" /\ step'[u] = "idle"
  BY DEF Make, Adopt, Leave, Dial, SessionInv, SessionTypeOK, TurnInv

LEMMA RequestStale ==
    ASSUME SessionInv, NEW t \in Tasks, RequestStep(t)
    PROVE  NoStaleDial'
  <1>1. CASE \E op \in Making \cup Lent \cup Taking : Ask(t, op)
    BY <1>1 DEF Ask, SessionInv, SessionTypeOK, NoStaleDial, Dialing, handle
  <1>2. CASE Serve(t) \/ Fails(t) \/ DropFuture(t) \/ PauseReturns(t)
    BY <1>2
    DEF Serve, Fails, DropFuture, PauseReturns, Leave, SessionInv,
        SessionTypeOK, NoStaleDial, Dialing, handle
  <1>3. CASE Make(t) \/ Adopt(t)
    <2>1. step'[t] \in Dialing => target'[t] = url'
      BY <1>3
      DEF Make, Adopt, Leave, Dial, SessionInv, SessionTypeOK, Dialing
    <2> QED
      BY <1>3, <2>1, UrlAlone DEF NoStaleDial, Dialing
  <1> QED
    BY <1>1, <1>2, <1>3 DEF RequestStep

LEMMA DialStale ==
    ASSUME SessionInv, NEW t \in Tasks, DialStep(t)
    PROVE  NoStaleDial'
  BY DEF DialStep, Connect, Dial, DialOpens, DialFails, Install, Leave,
         SessionInv, SessionTypeOK, NoStaleDial, Dialing, handle

LEMMA OtherStale ==
    ASSUME SessionInv, Elsewhere \/ Close \/ Discard \/ SocketEnds
    PROVE  NoStaleDial'
  BY DEF Elsewhere, Close, Discard, SocketEnds, NobodyElse, SessionInv,
         NoStaleDial, Dialing, handle, taskVars

\* Slots only grow.
LEMMA SlotGrows ==
    ASSUME SessionInv, [SessionNext]_sessionVars
    PROVE  slot \in Int /\ slot' \in Int /\ slot <= slot'
  <1>1. slot \in Int /\ slot' \in Int
    BY SessionTypeStep, SlotsAssumption DEF SessionInv, SessionTypeOK
  <1>2. CASE slot' = slot
    BY <1>1, <1>2
  <1>3. CASE \E op : Granted(op)
    BY <1>1, <1>3, GrantedSlot DEF SessionInv
  <1>4. (\E op : Granted(op)) \/ slot' = slot
    BY DEF SessionNext, RequestStep, DialStep, Ask, Serve, Fails, DropFuture,
           Make, PauseReturns, Adopt, Connect, DialOpens, DialFails, Install,
           Elsewhere, Close, Discard, SocketEnds, sessionVars, cloud
  <1> QED
    BY <1>2, <1>3, <1>4

LEMMA Ints ==
    ASSUME SessionTypeOK
    PROVE  /\ slot \in Int /\ url \in Int /\ chan \in Int
           /\ \A t \in Tasks : answer[t] \in Int /\ socket[t] \in Int
           /\ 0 <= slot /\ 0 <= url
  BY SlotsAssumption DEF SessionTypeOK

LEMMA RequestAge ==
    ASSUME SessionInv, NEW t \in Tasks, RequestStep(t)
    PROVE  HandleInv' /\ \A v \in Tasks : AgeInv(v)'
  <1>0. /\ slot <= slot' /\ slot' \in Int /\ SessionTypeOK /\ SessionTypeOK'
        /\ 0 <= slot'
    BY SlotGrows, Ints, RequestType DEF SessionNext, SessionInv
  <1>1. CASE \E op \in Making \cup Lent \cup Taking : Ask(t, op)
    BY <1>0, <1>1, Ints
    DEF Ask, SessionInv, HandleInv, AgeInv, SessionTypeOK, cloud, handle
  <1>2. CASE Serve(t)
    <2> SUFFICES ASSUME NEW v \in Tasks PROVE AgeInv(v)'
      BY <1>0, <1>2, Ints DEF Serve, SessionInv, HandleInv, handle
    <2>1. CASE v = t
      BY <1>0, <1>2, <2>1, Ints
      DEF Serve, SessionInv, HandleInv, AgeInv, SessionTypeOK, handle
    <2>2. CASE v # t
      BY <1>0, <1>2, <2>2, Ints
      DEF Serve, SessionInv, AgeInv, SessionTypeOK, handle
    <2> QED
      BY <2>1, <2>2
  <1>3. CASE Fails(t) \/ DropFuture(t) \/ PauseReturns(t)
    <2>1. HandleInv'
      BY <1>3
      DEF Fails, DropFuture, PauseReturns, CloseAfter, Shut, SessionInv,
          HandleInv, cloud, handle
    <2>2. \A v \in Tasks : AgeInv(v)'
      BY <1>0, <1>3, Ints
      DEF Fails, DropFuture, PauseReturns, Leave, SessionInv, AgeInv,
          SessionTypeOK, cloud, handle
    <2> QED
      BY <2>1, <2>2
  <1>4. CASE Make(t) \/ Adopt(t)
    <2>1. answer[t] <= slot /\ slot' = slot /\ held' = held /\ chan' = chan
      BY <1>4 DEF Make, Adopt, SessionInv, AgeInv, cloud
    <2>2. url' \in {url, answer[t], 0}
      BY <1>4 DEF Make, Adopt, Derived
    <2>3. HandleInv'
      BY <2>1, <2>2, Ints DEF SessionInv, HandleInv
    <2>4. AgeInv(t)'
      BY <1>0, <1>4, <2>1
      DEF Make, Adopt, Leave, Dial, SessionTypeOK, AgeInv, SessionInv
    <2>5. \A v \in Tasks \ {t} : AgeInv(v)'
      BY <1>4, <2>1, UrlAlone
      DEF Make, Adopt, Leave, SessionInv, SessionTypeOK, AgeInv
    <2> QED
      BY <2>3, <2>4, <2>5
  <1> QED
    BY <1>1, <1>2, <1>3, <1>4 DEF RequestStep

LEMMA DialAge ==
    ASSUME SessionInv, NEW t \in Tasks, DialStep(t)
    PROVE  HandleInv' /\ \A v \in Tasks : AgeInv(v)'
  <1>1. slot' = slot /\ url' = url /\ (held' => held /\ chan' = chan)
    BY DEF DialStep, Connect, DialOpens, DialFails, Install, cloud, handle
  <1>2. HandleInv'
    BY <1>1 DEF SessionInv, HandleInv
  <1>3. CASE Connect(t)
    BY <1>1, <1>2, <1>3, Ints
    DEF Connect, Dial, SessionInv, SessionTypeOK, AgeInv, cloud
  <1>4. CASE DialOpens(t)
    BY <1>1, <1>2, <1>4, Ints
    DEF DialOpens, SessionInv, SessionTypeOK, AgeInv, Dialing, cloud, handle
  <1>5. CASE DialFails(t) \/ Install(t)
    BY <1>1, <1>2, <1>5, Ints
    DEF DialFails, Install, Leave, SessionInv, SessionTypeOK, AgeInv, cloud
  <1> QED
    BY <1>2, <1>3, <1>4, <1>5 DEF DialStep

LEMMA OtherAge ==
    ASSUME SessionInv, Elsewhere \/ Close \/ Discard \/ SocketEnds
    PROVE  HandleInv' /\ \A v \in Tasks : AgeInv(v)'
  <1>1. slot <= slot' /\ slot' \in Int /\ SessionTypeOK
    BY SlotGrows DEF SessionNext, SessionInv
  <1>2. CASE Elsewhere
    BY <1>1, <1>2, Ints DEF Elsewhere, SessionInv, HandleInv, AgeInv, handle,
       taskVars
  <1>3. CASE Close \/ SocketEnds
    BY <1>3 DEF Close, SocketEnds, Shut, SessionInv, HandleInv, AgeInv, cloud,
       taskVars
  <1>4. CASE Discard
    BY <1>4, Ints DEF Discard, NobodyElse, SessionInv, HandleInv, AgeInv, cloud,
       taskVars, Derived
  <1> QED
    BY <1>2, <1>3, <1>4

-----------------------------------------------------------------------------
(***************************************************************************)
(* The theorems.                                                           *)
(***************************************************************************)
LEMMA SessionInitInv == SessionInit => SessionInv
  <1> SUFFICES ASSUME SessionInit PROVE SessionInv
    OBVIOUS
  <1>1. SessionTypeOK
    BY SlotTypes DEF SessionInit, SessionTypeOK
  <1>2. HandleInv /\ NoStaleDial
    BY DEF SessionInit, HandleInv, NoStaleDial, Dialing, Derived, Down
  <1>3. ASSUME NEW t \in Tasks PROVE TurnInv(t) /\ AgeInv(t)
    <2>1. step[t] = "idle" /\ answer[t] = 0 /\ slot = 0
      BY DEF SessionInit
    <2> QED
      BY <2>1 DEF TurnInv, AgeInv, Dialing
  <1> QED
    BY <1>1, <1>2, <1>3 DEF SessionInv

LEMMA SessionInvStep ==
    ASSUME SessionInv, [SessionNext]_sessionVars
    PROVE  SessionInv'
  <1>1. SessionTypeOK'
    BY SessionTypeStep DEF SessionInv
  <1>2. CASE UNCHANGED sessionVars
    BY <1>1, <1>2
    DEF SessionInv, HandleInv, NoStaleDial, TurnInv, AgeInv, sessionVars, cloud,
        handle, taskVars
  <1>3. CASE \E t \in Tasks : RequestStep(t)
    BY <1>1, <1>3, RequestTurn, RequestStale, RequestAge DEF SessionInv
  <1>4. CASE \E t \in Tasks : DialStep(t)
    BY <1>1, <1>4, DialTurn, DialStale, DialAge DEF SessionInv
  <1>5. CASE Elsewhere \/ Close \/ Discard \/ SocketEnds
    BY <1>1, <1>5, OtherTurn, OtherStale, OtherAge DEF SessionInv
  <1> QED
    BY <1>2, <1>3, <1>4, <1>5 DEF SessionNext

\* resume() and start() replace the URL while nobody dials the old one.
THEOREM DialsAreFresh == SessionSpec => []NoStaleDial
  <1>1. SessionInv => NoStaleDial
    BY DEF SessionInv
  <1> QED
    BY <1>1, SessionInitInv, SessionInvStep, PTL DEF SessionSpec

\* The control URL does not go back to an older slot.
THEOREM UrlsGrow == SessionSpec => UrlNeverGoesBack
  <1>1. ASSUME SessionInv, [SessionNext]_sessionVars,
               owned, owned', url # Derived, url' # Derived
        PROVE  url' >= url
    <2>1. CASE \E t \in Tasks : Make(t)
      BY <1>1, <2>1 DEF Make, SessionInv, TurnInv
    <2>2. CASE \E t \in Tasks : Adopt(t)
      BY <1>1, <2>2, Ints DEF Adopt, SessionInv, AgeInv
    <2>3. \/ \E t \in Tasks : Make(t) \/ Adopt(t)
          \/ url' = url
          \/ owned' = FALSE
      BY <1>1
      DEF SessionNext, RequestStep, DialStep, Ask, Serve, Fails, DropFuture,
          PauseReturns, Connect, DialOpens, DialFails, Install, Elsewhere, Close,
          Discard, SocketEnds, sessionVars, cloud, handle
    <2> QED
      BY <1>1, <2>1, <2>2, <2>3, Ints DEF SessionInv
  <1>2. SessionInv /\ [SessionNext]_sessionVars =>
           [owned /\ owned' /\ url # Derived /\ url' # Derived =>
              url' >= url]_sessionVars
    BY <1>1
  <1> QED
    BY <1>2, SessionInitInv, SessionInvStep, PTL
    DEF SessionSpec, UrlNeverGoesBack

\* After a close in good order, what resume() returned Ok about is what the
\* channel speaks to.
THEOREM OrderlyResumes == SessionSpec => OrderlyResumeIsFresh
  <1>1. ASSUME SessionInv, [SessionNext]_sessionVars,
               held, told = 0, told' # 0
        PROVE  chan' >= told'
    <2>1. CASE \E t \in Tasks : Adopt(t)
      BY <1>1, <2>1 DEF Adopt, SessionInv, HandleInv
    <2>2. CASE \E t \in Tasks : Install(t)
      <3>1. PICK t \in Tasks : Install(t)
        BY <2>2
      <3>2. doing[t] \in Taking /\ told' = answer[t] /\ chan' = socket[t]
        BY <1>1, <3>1 DEF Install
      <3>3. answer[t] <= socket[t]
        BY <1>1, <3>1, <3>2 DEF Install, SessionInv, AgeInv
      <3> QED
        BY <1>1, <3>2, <3>3, Ints DEF SessionInv
    <2>3. \/ \E t \in Tasks : Adopt(t) \/ Install(t)
          \/ told' = told \/ told' = 0
      BY <1>1
      DEF SessionNext, RequestStep, DialStep, Ask, Serve, Fails, DropFuture, Make,
          PauseReturns, Connect, DialOpens, DialFails, Elsewhere, Close, Discard,
          SocketEnds, sessionVars
    <2> QED
      BY <1>1, <2>1, <2>2, <2>3
  <1>2. SessionInv /\ [SessionNext]_sessionVars =>
           [held /\ told = 0 /\ told' # 0 => chan' >= told']_sessionVars
    BY <1>1
  <1> QED
    BY <1>2, SessionInitInv, SessionInvStep, PTL
    DEF SessionSpec, OrderlyResumeIsFresh

=============================================================================
