--------------------------- MODULE ChannelPromise ---------------------------
(***************************************************************************)
(* What the control channel promises its callers, without sockets, tasks,  *)
(* locks or tables (the module comment of channel.rs, lines 13-15):        *)
(*                                                                         *)
(*   - a call is accepted only while the channel is up, and its caller is  *)
(*     given one verdict, once; "ok" and "error" are the guest's;          *)
(*   - when the channel goes down, every call in flight and every wait for *)
(*     a command is woken in that very step, and nobody enters afterwards; *)
(*   - a wait is told "closed" only if the channel went down under it.     *)
(***************************************************************************)
CONSTANT Calls

VARIABLES up, verdict, wait

vars == <<up, verdict, wait>>

Settled == {"ok", "error", "closed", "timeout", "dropped"}
Ended   == {"exited", "expired", "dropped"}

Init ==
    /\ up = FALSE
    /\ verdict = [c \in Calls |-> "unused"]
    /\ wait = [c \in Calls |-> "none"]

Open ==
    /\ up' = TRUE
    /\ UNCHANGED <<verdict, wait>>

\* All at once, or not at all.
GoDown ==
    /\ up' = FALSE
    /\ verdict' = [c \in Calls |->
                     IF verdict[c] = "inflight" THEN "closed" ELSE verdict[c]]
    /\ wait' = [c \in Calls |->
                  IF wait[c] = "blocked" THEN "woken" ELSE wait[c]]

Begin(c) ==
    /\ up /\ verdict[c] = "unused"
    /\ verdict' = [verdict EXCEPT ![c] = "inflight"]
    /\ UNCHANGED <<up, wait>>

Settle(c) ==
    /\ verdict[c] = "inflight"
    /\ \E v \in Settled : verdict' = [verdict EXCEPT ![c] = v]
    /\ UNCHANGED <<up, wait>>

\* A command may be waited for once its cmd.start succeeded.
Attach(c) ==
    /\ verdict[c] = "ok" /\ wait[c] = "none"
    /\ \E w \in {"blocked", "woken"} :
          /\ w = "blocked" => up
          /\ wait' = [wait EXCEPT ![c] = w]
    /\ UNCHANGED <<up, verdict>>

Finish(c) ==
    /\ \/ /\ wait[c] \in {"blocked", "woken"}
          /\ \E w \in Ended : wait' = [wait EXCEPT ![c] = w]
       \/ /\ wait[c] = "woken"
          /\ wait' = [wait EXCEPT ![c] = "closed"]
    /\ UNCHANGED <<up, verdict>>

Next ==
    \/ Open \/ GoDown
    \/ \E c \in Calls : Begin(c) \/ Settle(c) \/ Attach(c) \/ Finish(c)

Spec == Init /\ [][Next]_vars

=============================================================================
