---------------------------- MODULE BridgeClient ----------------------------
(***************************************************************************)
(* The client of the bridge (packages/bridge-client): the reducer step     *)
(* (core/state.ts) decides, the shell (client.ts) runs its effects on      *)
(* promises, timers and the transport (transport/http.ts).                 *)
(*                                                                         *)
(* Events carry the id of the call and not of the attempt, and nothing     *)
(* takes an attempt off the wire before it ends by itself: an answer or an *)
(* error of an earlier attempt counts for the call like any other.         *)
(* Responses, errors and delays are not told apart, but for whether the    *)
(* policy retries the error.                                               *)
(***************************************************************************)
EXTENDS Naturals, FiniteSets

CONSTANTS
    Calls,         \* unary calls
    Streams,       \* streamed calls
    maxAttempts    \* RetryPolicy.maxAttempts

ASSUME ClientAssumption ==
    /\ Calls \cap Streams = {}
    /\ maxAttempts \in Nat \ {0}

VARIABLES
    inflight,   \* BridgeClientState.inflight: the attempt of a call, or 0
    pending,    \* callers whose promise is open
    timer,      \* the timer of a call: none, timeout or retry
    wire,       \* the sends of a call: unsent, headers, body or over
    timed,      \* calls with a timeout
    settled     \* how often a caller's promise was settled

clientVars == <<inflight, pending, timer, wire, timed, settled>>

\* One send more than is allowed, to be able to see it.
Sends == 1..(maxAttempts + 1)

ClientTypeOK ==
    /\ inflight \in [Calls \cup Streams -> 0..(maxAttempts + 1)]
    /\ pending \subseteq Calls
    /\ timer \in [Calls -> {"none", "timeout", "retry"}]
    /\ wire \in [Calls \cup Streams -> [Sends -> {"unsent", "headers", "body", "over"}]]
    /\ timed \subseteq Calls
    /\ settled \in [Calls -> 0..2]

ClientInit ==
    /\ inflight = [c \in Calls \cup Streams |-> 0]
    /\ pending = {}
    /\ timer = [c \in Calls |-> "none"]
    /\ wire = [c \in Calls \cup Streams |-> [n \in Sends |-> "unsent"]]
    /\ timed = {}
    /\ settled = [c \in Calls |-> 0]

Sent(c) == Cardinality({n \in Sends : wire[c][n] # "unsent"})

OnWire(c) == {n \in Sends : wire[c][n] \in {"headers", "body"}}

\* SendOnWire
Post(w, c) == [w EXCEPT ![c][Sent(c) + 1] = "headers"]

-----------------------------------------------------------------------------
(* Events of a call, each with the effects step returns for it *)

\* ClearTimer, then ResolveCaller or RejectCaller: both need the caller still
\* to be there.
Settle(c) ==
    /\ inflight' = [inflight EXCEPT ![c] = 0]
    /\ timer' = [timer EXCEPT ![c] = "none"]
    /\ pending' = pending \ {c}
    /\ settled' = IF c \in pending THEN [settled EXCEPT ![c] = @ + 1] ELSE settled

Ignored == UNCHANGED <<inflight, timer, pending, settled>>

Delivered(c) == IF inflight[c] = 0 THEN Ignored ELSE Settle(c)

MayRetry(c) == inflight[c] < maxAttempts

\* Mutated form: the timer is cleared after the retry has been scheduled.
Retry_ClearsLast(c) ==
    /\ inflight' = [inflight EXCEPT ![c] = @ + 1]
    /\ timer' = [timer EXCEPT ![c] = "none"]
    /\ UNCHANGED <<pending, settled>>

\* ClearTimer and ScheduleRetry.
Retry(c) ==
    /\ inflight' = [inflight EXCEPT ![c] = @ + 1]
    /\ timer' = [timer EXCEPT ![c] = "retry"]
    /\ UNCHANGED <<pending, settled>>

\* Mutated form: an error of a call that is over is looked at all the same.
Errored_Late(c, retryable) ==
    IF MayRetry(c) /\ retryable THEN Retry(c) ELSE Settle(c)

\* Errored and TimedOut; a timeout is always retryable.
Errored(c, retryable) ==
    IF inflight[c] = 0 THEN Ignored
    ELSE IF MayRetry(c) /\ retryable THEN Retry(c) ELSE Settle(c)

-----------------------------------------------------------------------------
(* The shell *)

\* call: Send, with ArmTimeout if there is a timeout.
Call(c, hasTimeout) ==
    /\ Sent(c) = 0 /\ settled[c] = 0
    /\ pending' = pending \cup {c}
    /\ inflight' = [inflight EXCEPT ![c] = 1]
    /\ wire' = Post(wire, c)
    /\ timer' = [timer EXCEPT ![c] = IF hasTimeout THEN "timeout" ELSE "none"]
    /\ timed' = IF hasTimeout THEN timed \cup {c} ELSE timed
    /\ UNCHANGED settled

\* call with a signal that is aborted already.
CallAborted(c) ==
    /\ Sent(c) = 0 /\ settled[c] = 0
    /\ settled' = [settled EXCEPT ![c] = 1]
    /\ UNCHANGED <<inflight, pending, timer, wire, timed>>

\* unary: the response's headers are there, and the transport's own timer is
\* cleared; the body is still to be read.
Headers(c, n) ==
    /\ wire[c][n] = "headers"
    /\ wire' = [wire EXCEPT ![c][n] = "body"]
    /\ UNCHANGED <<inflight, pending, timer, timed, settled>>

\* The body is there and valid.
BodyRead(c, n) ==
    /\ wire[c][n] = "body"
    /\ wire' = [wire EXCEPT ![c][n] = "over"]
    /\ Delivered(c)
    /\ UNCHANGED timed

\* The request fails: the network, an error status, an invalid body, or the
\* transport's timer on the first send.
Fail(c, n) ==
    /\ n \in OnWire(c)
    /\ wire' = [wire EXCEPT ![c][n] = "over"]
    /\ \E retryable \in BOOLEAN : Errored(c, retryable)
    /\ UNCHANGED timed

\* The client's timer.  The transport's was armed first, with the same delay,
\* so it has fired or been cleared.
TimedOut(c) ==
    /\ timer[c] = "timeout"
    /\ wire[c][1] # "headers"
    /\ Errored(c, TRUE)
    /\ UNCHANGED <<wire, timed>>

\* A retry has no timeout of its own.
RetryDue(c) ==
    /\ timer[c] = "retry"
    /\ timer' = [timer EXCEPT ![c] = "none"]
    /\ wire' = IF inflight[c] # 0 THEN Post(wire, c) ELSE wire
    /\ UNCHANGED <<inflight, pending, timed, settled>>

\* The caller's signal, listened to while the caller is pending.
Cancel(c) ==
    /\ c \in pending
    /\ IF inflight[c] = 0 THEN Ignored ELSE Settle(c)
    /\ UNCHANGED <<wire, timed>>

\* stream: StreamStart, and StreamEnd or StreamFailed when the transport's one
\* event has come or failed.  A consumer that stops reading ends neither.
StreamStart(c) ==
    /\ Sent(c) = 0
    /\ inflight' = [inflight EXCEPT ![c] = 1]
    /\ wire' = Post(wire, c)
    /\ UNCHANGED <<pending, timer, timed, settled>>

StreamOver(c) ==
    /\ OnWire(c) # {}
    /\ wire' = [wire EXCEPT ![c][1] = "over"]
    /\ inflight' = [inflight EXCEPT ![c] = 0]
    /\ UNCHANGED <<pending, timer, timed, settled>>

StreamAbandoned(c) ==
    /\ OnWire(c) # {}
    /\ wire' = [wire EXCEPT ![c][1] = "over"]
    /\ UNCHANGED <<inflight, pending, timer, timed, settled>>

-----------------------------------------------------------------------------
(* Specification *)

ClientNext ==
    \/ \E c \in Calls :
         \/ \E hasTimeout \in BOOLEAN : Call(c, hasTimeout)
         \/ CallAborted(c)
         \/ \E n \in Sends : Headers(c, n) \/ BodyRead(c, n) \/ Fail(c, n)
         \/ TimedOut(c) \/ RetryDue(c) \/ Cancel(c)
    \/ \E c \in Streams : StreamStart(c) \/ StreamOver(c) \/ StreamAbandoned(c)

\* A request ends (fetch gives up by itself in the end) and timers fire.
ClientFairness ==
    \A c \in Calls :
        /\ \A n \in Sends : WF_clientVars(Headers(c, n) \/ BodyRead(c, n) \/ Fail(c, n))
        /\ WF_clientVars(RetryDue(c))

ClientSpec == ClientInit /\ [][ClientNext]_clientVars /\ ClientFairness

-----------------------------------------------------------------------------
(* Properties *)

\* The reducer's map and the shell's registries agree, whatever late answers,
\* errors, timers and cancels come: a caller is pending exactly while its call
\* is in flight, then something is still to happen that will end it, no timer
\* outlives its call, no promise is settled twice, and no call is sent more
\* often than the policy allows, although one attempt may both time out and
\* fail later (dispatch, runEffect, shouldRetry; RetryPolicy: "Total attempts
\* including the first").
RegistriesAgree ==
    \A c \in Calls :
        /\ c \in pending <=> inflight[c] # 0
        /\ inflight[c] # 0 => timer[c] # "none" \/ OnWire(c) # {}
        /\ timer[c] # "none" => inflight[c] # 0
        /\ settled[c] + (IF c \in pending THEN 1 ELSE 0) <= 1
        /\ Sent(c) <= maxAttempts

\* Every caller gets an answer (step, runEffect).
CallSettles == \A c \in Calls : c \in pending ~> c \notin pending

=============================================================================
