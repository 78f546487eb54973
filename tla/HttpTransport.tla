---------------------------- MODULE HttpTransport ----------------------------
(***************************************************************************)
(* HttpTransport::request of http.rs: the retry loop of REST requests, and  *)
(* the idempotency key that makes a create safe to repeat.                 *)
(*                                                                         *)
(* A request is a future of its own; they share the transport's key        *)
(* counter and the gateway.  The network may lose an attempt or its answer *)
(* and deliver an attempt after the client gave it up, and so may proxies  *)
(* answer in the gateway's place.  The gateway is external: it does what a *)
(* key asks for once, and answers a repeated key from what it did.         *)
(***************************************************************************)
EXTENDS Integers

CONSTANTS
    Requests,     \* the calls of request()
    MaxRetries    \* max_retries: u32

ASSUME RetriesAssumption == MaxRetries \in Nat

VARIABLES
    kind,              \* what each request is
    phase, attempt,    \* where its loop is, and the loop's counter
    result,            \* what it returned
    counter, key,      \* COUNTER of new_idempotency_key, and each request's key
    sent, net,         \* its attempts: made so far, and still under way
    reply,             \* the answer to its current attempt, not yet read
    known, made        \* the gateway: keys it did, and effects of each request

clientVars  == <<phase, attempt, result>>
keyVars     == <<counter, key>>
gatewayVars == <<known, made>>
vars == <<kind, clientVars, keyVars, sent, net, reply, gatewayVars>>

\* A POST without a key (exec, pause, resume, start), one with a key (create),
\* and GET or DELETE.
Kinds == {"post", "keyed", "repeatable"}

\* Status and body, as far as request() tells them apart: 502, 503, 504 and 507;
\* any other error whose body says retryable; any other error.
Answers == {"ok", "transient", "hinted", "error"}

Idempotent(q) == kind[q] # "post"

Init ==
    /\ kind \in [Requests -> Kinds]
    /\ phase = [q \in Requests |-> "idle"]
    /\ attempt = [q \in Requests |-> 0]
    /\ result = [q \in Requests |-> "none"]
    /\ counter = 0 /\ key = [q \in Requests |-> 0]
    /\ sent = [q \in Requests |-> 0] /\ net = [q \in Requests |-> 0]
    /\ reply = [q \in Requests |-> "none"]
    /\ known = {} /\ made = [q \in Requests |-> 0]

-----------------------------------------------------------------------------
(***************************************************************************)
(* The client.                                                             *)
(***************************************************************************)

\* send(): headers, key and body are the same in every attempt.
Send(q) ==
    /\ phase' = [phase EXCEPT ![q] = "sending"]
    /\ sent' = [sent EXCEPT ![q] = @ + 1]
    /\ net' = [net EXCEPT ![q] = @ + 1]
    /\ reply' = [reply EXCEPT ![q] = "none"]

\* Seeded fault: the counter behind the keys is read and not advanced.
SameCounter == counter
NextCounter == counter + 1

\* new_idempotency_key, once for a request and before its loop.  The code mixes
\* counter and clock into 128 bits; here a key is the counter it was made from.
NewKey(q) ==
    /\ counter' = NextCounter
    /\ key' = [key EXCEPT ![q] = NextCounter]

Begin(q) ==
    /\ phase[q] = "idle" /\ Send(q)
    /\ IF kind[q] = "keyed" THEN NewKey(q) ELSE UNCHANGED keyVars
    /\ UNCHANGED <<kind, attempt, result, gatewayVars>>

\* Seeded faults: whatever failed is tried again; a retry too many, or too few.
RetryAnything(q) == attempt[q] < MaxRetries
OneTooMany(q)    == Idempotent(q) /\ attempt[q] <= MaxRetries
OneTooFew(q)     == Idempotent(q) /\ attempt[q] + 1 < MaxRetries
MayRetry(q)      == Idempotent(q) /\ attempt[q] < MaxRetries

\* The allowlist of statuses, and the hint.
Retryable(answer) == answer \in {"transient", "hinted"}

Return(q, value) ==
    /\ phase' = [phase EXCEPT ![q] = "done"]
    /\ result' = [result EXCEPT ![q] = value]
    /\ UNCHANGED <<kind, attempt, keyVars, sent, net, reply, gatewayVars>>

BackOff(q) ==
    /\ phase' = [phase EXCEPT ![q] = "backoff"]
    /\ UNCHANGED <<kind, attempt, result, keyVars, sent, net, reply,
                   gatewayVars>>

\* Seeded fault: without request_timeout, only a lost connection ends send().
OnlyIfCutOff(q) == net[q] = 0
MayFail(q)      == TRUE

\* send() fails: no connection, no answer, or none within request_timeout.
NetworkError(q) ==
    /\ MayFail(q) /\ phase[q] = "sending"
    /\ IF MayRetry(q) THEN BackOff(q) ELSE Return(q, "network")

\* An answer with an error status.
ErrorAnswer(q) ==
    /\ phase[q] = "sending" /\ reply[q] \notin {"none", "ok"}
    /\ IF MayRetry(q) /\ Retryable(reply[q]) THEN BackOff(q)
       ELSE Return(q, reply[q])

\* 2xx.  A body that does not arrive whole is an error, and never a retry.
OkAnswer(q) ==
    /\ phase[q] = "sending" /\ reply[q] = "ok"
    /\ \E value \in {"ok", "decode"} : Return(q, value)

\* Seeded fault: each attempt of a create makes a key of its own.
FreshKey(q) == IF kind[q] = "keyed" THEN NewKey(q) ELSE UNCHANGED keyVars
RetryKey(q) == UNCHANGED keyVars

Retry(q) ==
    /\ phase[q] = "backoff"
    /\ Send(q) /\ attempt' = [attempt EXCEPT ![q] = @ + 1]
    /\ RetryKey(q)
    /\ UNCHANGED <<kind, result, gatewayVars>>

\* The caller drops the future: what is under way stays under way.
Drop(q) ==
    /\ phase[q] \in {"sending", "backoff"}
    /\ phase' = [phase EXCEPT ![q] = "dropped"]
    /\ UNCHANGED <<kind, attempt, result, keyVars, sent, net, reply,
                   gatewayVars>>

-----------------------------------------------------------------------------
(***************************************************************************)
(* The network and the gateway (external).                                 *)
(***************************************************************************)

\* The answer reaches the attempt the client waits for, or nobody.
Tell(q, answers) ==
    reply' = reply
    \/ /\ phase[q] = "sending" /\ reply[q] = "none"
       /\ \E a \in answers : reply' = [reply EXCEPT ![q] = a]

Arrives(q) ==
    /\ net[q] > 0
    /\ net' = [net EXCEPT ![q] = @ - 1]
    /\ UNCHANGED <<kind, clientVars, keyVars, sent>>

\* Done, whatever becomes of the answer: a proxy may give up on the gateway.
Does(q) ==
    /\ Arrives(q) /\ (kind[q] = "keyed" => key[q] \notin known)
    /\ made' = [made EXCEPT ![q] = @ + 1]
    /\ known' = IF kind[q] = "keyed" THEN known \cup {key[q]} ELSE known
    /\ Tell(q, Answers)

\* A key seen before: the answer of the first time.
Repeats(q) ==
    /\ Arrives(q) /\ kind[q] = "keyed" /\ key[q] \in known
    /\ UNCHANGED gatewayVars
    /\ Tell(q, Answers)

\* Refused or failed with nothing done.
Refuses(q) ==
    /\ Arrives(q) /\ (kind[q] = "keyed" => key[q] \notin known)
    /\ UNCHANGED gatewayVars
    /\ Tell(q, Answers \ {"ok"})

-----------------------------------------------------------------------------
ClientStep(q) ==
    \/ Begin(q) \/ NetworkError(q) \/ ErrorAnswer(q) \/ OkAnswer(q)
    \/ Retry(q) \/ Drop(q)

GatewayStep(q) == Does(q) \/ Repeats(q) \/ Refuses(q)

Next == \E q \in Requests : ClientStep(q) \/ GatewayStep(q)

Spec == Init /\ [][Next]_vars

\* send() is bounded by request_timeout, backoff() by 8.25 s, and a future that
\* can go on does.  Nothing is assumed of the network or the gateway.
Fairness ==
    \A q \in Requests :
       /\ WF_vars(NetworkError(q) \/ ErrorAnswer(q) \/ OkAnswer(q))
       /\ WF_vars(Retry(q))

FairSpec == Spec /\ Fairness

-----------------------------------------------------------------------------
(***************************************************************************)
(* Properties.                                                             *)
(***************************************************************************)

\* Types.
TypeOK ==
    /\ kind \in [Requests -> Kinds]
    /\ phase \in [Requests -> {"idle", "sending", "backoff", "done", "dropped"}]
    /\ attempt \in [Requests -> 0 .. MaxRetries]
    /\ result \in [Requests -> {"none", "network", "decode"} \cup Answers]
    /\ counter \in Nat /\ key \in [Requests -> Nat]
    /\ sent \in [Requests -> Nat] /\ net \in [Requests -> Nat]
    /\ reply \in [Requests -> {"none"} \cup Answers]
    /\ known \subseteq Nat /\ made \in [Requests -> Nat]

\* "Non-idempotent writes are never silently retried", and the key "makes create
\* retry-safe": however many attempts are lost, late or answered by a proxy, a
\* POST takes effect at most once, also after the client gave it up.
AtMostOnce == \A q \in Requests : kind[q] # "repeatable" => made[q] <= 1

\* A request that returned its answer was itself done: no key of one create is
\* answered with the session of another.
OkIsOwn == \A q \in Requests : result[q] \in {"ok", "decode"} => made[q] >= 1

\* An idempotent request gives up on what is worth a retry only when its
\* retries are spent, and no request makes more attempts than that.
RetriesSpent ==
    \A q \in Requests :
       /\ sent[q] <= MaxRetries + 1
       /\ Idempotent(q) /\ result[q] \in {"network", "transient", "hinted"} =>
             sent[q] = MaxRetries + 1

\* Every request returns, or is dropped: no gateway keeps one in its loop.
RequestsReturn ==
    \A q \in Requests : phase[q] = "sending" ~> phase[q] \in {"done", "dropped"}

=============================================================================
