---------------------------- MODULE HTTPRetrier ----------------------------
(***************************************************************************)
(* pkg/httpretrier: one HTTPRetrier and the successive calls of Do on it.  *)
(*                                                                         *)
(* Do starts a goroutine (retry) and waits for the context that only this  *)
(* goroutine cancels, when it returns; Do then returns the fields          *)
(* doResponse and doError.  The goroutine is the select loop of            *)
(* pkg/retrier, over the context of the request; an attempt renews the     *)
(* body of the request and closes the body of a response it discards.      *)
(*                                                                         *)
(* Outside src/: the client that sends a request (it consumes the body of  *)
(* the request and opens the body of the response), modelled from the use  *)
(* that run makes of it.                                                   *)
(*                                                                         *)
(* A definition whose name holds an underscore is a mutant: the definition *)
(* named before the underscore with one plausible mistake in it.           *)
(***************************************************************************)
EXTENDS Integers, Sequences

CONSTANTS Attempts, Delay, DelayFactor, Jitter,  \* the options
          RetryOn,      \* the outcomes for which retryIfFn is true
          Statuses,     \* the status codes of the responses
          Bodies,       \* the kinds of request (below) that are sent
          MaxInt64,     \* largest value of a time.Duration
          MaxDos        \* bound of the model: number of calls of Do

Nil == "nil"                    \* no error, no body
ClientError == "client error"   \* httpClient.Do failed
Canceled == "canceled"          \* the context of the request is done
BodyError == "body error"       \* GetBody failed
NoResult == "none"              \* Do has not returned

\* What an attempt can come to.
Outcomes == Statuses \cup {ClientError}

\* The requests: without a body, with one that GetBody can provide again, and
\* with one that can be read only once (GetBody is nil).
NoBody == "no body"
Replayable == "replayable"
OneShot == "one shot"

\* What the options let pass, where the delay factor is a whole number: the code
\* takes any float64 that is not below 1, which this model does not.
ValidOptions ==
    /\ Attempts \in Nat \ {0}
    /\ Delay \in Nat \ {0}
    /\ DelayFactor \in Nat \ {0}
    /\ Jitter \in Nat \ {0}
    /\ MaxInt64 \in Nat
    /\ Delay <= MaxInt64
    /\ Jitter <= MaxInt64

ASSUME HTTPRetrierAssumption ==
    /\ ValidOptions
    /\ RetryOn \subseteq Outcomes
    /\ Statuses \cap {Nil, ClientError, Canceled, BodyError, NoResult} = {}
    /\ Bodies \subseteq {NoBody, Replayable, OneShot}

\* The retry conditions of the package, as the outcomes they are true of.
DefaultRetryIf == {ClientError}

RetryIfForWriteRequests == Outcomes \cap {ClientError, "429", "502", "503"}

RetryIfForReadRequests ==
    Outcomes \cap {ClientError, "404", "408", "409", "423", "425", "429", "500",
                   "502", "503", "504", "507"}

VARIABLES
    pc,                 \* where retry is; "idle" when no Do is in progress
    ctxDone,            \* the context of the request is done
    nextDelay,
    remainingAttempts,
    timer,
    resetTimer,
    doResponse,         \* never cleared
    doError,            \* never cleared
    request,            \* the kind of the request given to Do
    body,               \* what r.Body holds: Nil, "unread" or "read"
    open,               \* the responses of this Do whose body is open
    calls,              \* history: attempts made by the current Do
    dos,                \* history: number of calls of Do
    stale               \* history: resetTimer was not empty when Do was called

counters == <<nextDelay, remainingAttempts>>
responses == <<doResponse, doError, open>>
history == <<calls, dos, stale>>
vars == <<pc, ctxDone, counters, timer, resetTimer, responses, request, body,
          history>>

Timers == [st : {"armed", "fired", "spent"}, dur : Int]

\* A response is known by the call, the attempt and its status.
Responses == [do : Nat, attempt : Nat, status : Statuses]

NoResponse == [do |-> 0, attempt |-> 0, status |-> Nil]

\* Int64Of is implementation-defined for a float64 that does not fit.
Int64Of(x) == IF x <= MaxInt64 THEN {x} ELSE {MaxInt64, -MaxInt64 - 1}

WrapInt64(x) == IF x > MaxInt64 THEN x - 2 * MaxInt64 - 2 ELSE x

\* The delays run may send.
ResetDurations ==
    {WrapInt64(d + j) : d \in Int64Of(nextDelay), j \in 0 .. (Jitter - 1)}

\* What r.Body holds when Do is called.
GivenBody(kind) == IF kind = NoBody THEN Nil ELSE "unread"

\* What GetBody returned, before the attempt (bodyRC).
RenewedBody(kind) == IF kind = Replayable THEN "unread" ELSE Nil

-----------------------------------------------------------------------------
Init ==
    /\ pc = "idle"
    /\ ctxDone = FALSE
    /\ nextDelay = 0
    /\ remainingAttempts = 0
    /\ timer = [st |-> "spent", dur |-> 0]
    /\ resetTimer = <<>>
    /\ doResponse = NoResponse
    /\ doError = Nil
    /\ request = NoBody
    /\ body = Nil
    /\ open = {}
    /\ calls = 0
    /\ dos = 0
    /\ stale = FALSE

\* Do is called; the caller owns the response of the Do before.
Do ==
    /\ pc = "idle"
    /\ dos < MaxDos
    /\ pc' = "select"
    /\ ctxDone' \in BOOLEAN
    /\ nextDelay' = Delay
    /\ remainingAttempts' = Attempts
    /\ timer' = [st |-> "armed", dur |-> 1]
    /\ request' \in Bodies
    /\ body' = GivenBody(request')
    /\ open' = {}
    /\ calls' = 0
    /\ dos' = dos + 1
    /\ stale' = (resetTimer # <<>>)
    /\ UNCHANGED <<resetTimer, doResponse, doError>>

\* The context of the request is cancelled or reaches its deadline.
ContextDone ==
    /\ pc # "idle"
    /\ ~ctxDone
    /\ ctxDone' = TRUE
    /\ UNCHANGED <<pc, counters, timer, resetTimer, responses, request, body,
                   history>>

\* The runtime puts a tick in the timer's channel.
TimerFires ==
    /\ pc # "idle"
    /\ timer.st = "armed"
    /\ timer' = [timer EXCEPT !.st = "fired"]
    /\ UNCHANGED <<pc, ctxDone, counters, resetTimer, responses, request, body,
                   history>>

\* select: the context of the request is done.
SelectDone ==
    /\ pc = "select"
    /\ ctxDone
    /\ pc' = "idle"
    /\ doError' = Canceled
    /\ UNCHANGED <<ctxDone, counters, timer, resetTimer, doResponse, open,
                   request, body, history>>

\* The timer is stopped, and not armed again.
SetTimer_NoReset(d) == [st |-> "spent", dur |-> d]

\* setTimer: no tick of the old timer is left, and the timer is armed again.
SetTimer(d) == [st |-> "armed", dur |-> d]

\* select: a delay is received.
SelectReset ==
    /\ pc = "select"
    /\ resetTimer # <<>>
    /\ timer' = SetTimer(Head(resetTimer))
    /\ resetTimer' = Tail(resetTimer)
    /\ UNCHANGED <<pc, ctxDone, counters, responses, request, body, history>>

\* The timer is a ticker: it goes on firing after its first tick.
SelectTimer_Ticker ==
    /\ pc = "select"
    /\ timer.st = "fired"
    /\ timer' = [timer EXCEPT !.st = "armed"]
    /\ calls' = calls + 1
    /\ \/ pc' = "sending" /\ UNCHANGED doError
       \/ request = Replayable /\ pc' = "idle" /\ doError' = BodyError
    /\ UNCHANGED <<ctxDone, counters, resetTimer, doResponse, open, request,
                   body, dos, stale>>

\* select: a tick is received.  run asks for a new body, which can fail, and
\* calls the client.
SelectTimer ==
    /\ pc = "select"
    /\ timer.st = "fired"
    /\ timer' = [timer EXCEPT !.st = "spent"]
    /\ calls' = calls + 1
    /\ \/ pc' = "sending" /\ UNCHANGED doError
       \/ request = Replayable /\ pc' = "idle" /\ doError' = BodyError
    /\ UNCHANGED <<ctxDone, counters, resetTimer, doResponse, open, request,
                   body, dos, stale>>

\* The client returns an error and no response, or a response whose body is
\* open.  It consumes and closes the body it sends, success or not.
Response(o) == [do |-> dos, attempt |-> calls, status |-> o]

Opened(o) == IF o = ClientError THEN {} ELSE {Response(o)}

ClientReturn(o) ==
    /\ pc = "sending"
    /\ doResponse' = IF o = ClientError THEN NoResponse ELSE Response(o)
    /\ doError' = IF o = ClientError THEN ClientError ELSE Nil

\* The body of a discarded response is left open.
RunDecides_NoClose(o) ==
    /\ ClientReturn(o)
    /\ remainingAttempts' = remainingAttempts - 1
    /\ open' = open \cup Opened(o)
    /\ IF remainingAttempts' = 0 \/ o \notin RetryOn
       THEN pc' = "idle" /\ body' = IF body = Nil THEN Nil ELSE "read"
       ELSE pc' = "send" /\ body' = RenewedBody(request)
    /\ UNCHANGED <<ctxDone, nextDelay, timer, resetTimer, request, history>>

\* The next attempt sends the body that the last one has read.
RunDecides_KeepBody(o) ==
    /\ ClientReturn(o)
    /\ remainingAttempts' = remainingAttempts - 1
    /\ body' = IF body = Nil THEN Nil ELSE "read"
    /\ IF remainingAttempts' = 0 \/ o \notin RetryOn
       THEN pc' = "idle" /\ open' = open \cup Opened(o)
       ELSE pc' = "send" /\ UNCHANGED open
    /\ UNCHANGED <<ctxDone, nextDelay, timer, resetTimer, request, history>>

\* The test for zero is made before the decrement.
RunDecides_LateTest(o) ==
    /\ ClientReturn(o)
    /\ remainingAttempts' = remainingAttempts - 1
    /\ IF remainingAttempts = 0 \/ o \notin RetryOn
       THEN /\ pc' = "idle"
            /\ open' = open \cup Opened(o)
            /\ body' = IF body = Nil THEN Nil ELSE "read"
       ELSE /\ pc' = "send"
            /\ body' = RenewedBody(request)
            /\ UNCHANGED open
    /\ UNCHANGED <<ctxDone, nextDelay, timer, resetTimer, request, history>>

\* Only errors are retried, whatever the retry condition says.
RunDecides_ErrorsOnly(o) ==
    /\ ClientReturn(o)
    /\ remainingAttempts' = remainingAttempts - 1
    /\ IF remainingAttempts' = 0 \/ o # ClientError
       THEN /\ pc' = "idle"
            /\ open' = open \cup Opened(o)
            /\ body' = IF body = Nil THEN Nil ELSE "read"
       ELSE /\ pc' = "send"
            /\ body' = RenewedBody(request)
            /\ UNCHANGED open
    /\ UNCHANGED <<ctxDone, nextDelay, timer, resetTimer, request, history>>

\* The client returns and run decides: it keeps the response, or closes its
\* body (a response comes without an error) and gives the request a new body.
RunDecides(o) ==
    /\ ClientReturn(o)
    /\ remainingAttempts' = remainingAttempts - 1
    /\ IF remainingAttempts' = 0 \/ o \notin RetryOn
       THEN /\ pc' = "idle"
            /\ open' = open \cup Opened(o)
            /\ body' = IF body = Nil THEN Nil ELSE "read"
       ELSE /\ pc' = "send"
            /\ body' = RenewedBody(request)
            /\ UNCHANGED open
    /\ UNCHANGED <<ctxDone, nextDelay, timer, resetTimer, request, history>>

\* The delay grows before it is sent.
SendReset_GrowFirst ==
    /\ pc = "send"
    /\ resetTimer = <<>>
    /\ nextDelay' = nextDelay * DelayFactor
    /\ \E j \in 0 .. (Jitter - 1) :
          resetTimer' = Append(resetTimer, nextDelay' + j)
    /\ pc' = "select"
    /\ UNCHANGED <<ctxDone, remainingAttempts, timer, responses, request, body,
                   history>>

\* The end of run, blocked as long as the channel is full.
SendReset ==
    /\ pc = "send"
    /\ resetTimer = <<>>
    /\ \E d \in ResetDurations : resetTimer' = Append(resetTimer, d)
    /\ nextDelay' = nextDelay * DelayFactor
    /\ pc' = "select"
    /\ UNCHANGED <<ctxDone, remainingAttempts, timer, responses, request, body,
                   history>>

Select == SelectDone \/ SelectReset \/ SelectTimer

Next ==
    \/ Do
    \/ ContextDone
    \/ TimerFires
    \/ Select
    \/ \E o \in Outcomes : RunDecides(o)
    \/ SendReset

Spec == Init /\ [][Next]_vars

\* The runtime runs the goroutine and fires its timers; the client answers or
\* fails in the end (it has a timeout of its own).  Nobody has to cancel.
Fairness ==
    /\ WF_vars(TimerFires)
    /\ WF_vars(Select)
    /\ WF_vars(SendReset)
    /\ WF_vars(\E o \in Outcomes : RunDecides(o))

FairSpec == Spec /\ Fairness

-----------------------------------------------------------------------------
(* Properties *)

\* Every variable keeps its type; the channel never exceeds its capacity and
\* the unsigned attempt counter never goes below zero.
TypeOK ==
    /\ pc \in {"idle", "select", "sending", "send"}
    /\ ctxDone \in BOOLEAN
    /\ nextDelay \in Nat
    /\ remainingAttempts \in 0 .. Attempts
    /\ timer \in Timers
    /\ resetTimer \in Seq(Int)
    /\ Len(resetTimer) <= 1
    /\ doResponse \in Responses \cup {NoResponse}
    /\ doError \in {Nil, ClientError, Canceled, BodyError}
    /\ request \in {NoBody} \cup Bodies
    /\ body \in {Nil, "unread", "read"}
    /\ open \subseteq Responses
    /\ calls \in Nat
    /\ dos \in Nat
    /\ stale \in BOOLEAN

\* In a Do that found the channel empty, run never blocks on sending a delay
\* to the goroutine it runs in.
NoBlockedSend == pc = "send" /\ ~stale => resetTimer = <<>>

\* When Do returns without an error, the only response body left open is the
\* one of the response it returns, which is of its last attempt; when it
\* returns an error, no response body of this call is left open.
BodiesAccountedFor ==
    /\ pc = "idle" /\ dos > 0 =>
          open = IF doError = Nil THEN {doResponse} ELSE {}
    /\ pc # "idle" => open = {}

\* Every attempt of a request that can be replayed sends the whole body.
ReplayedInFull ==
    pc = "sending" /\ request # OneShot => body = GivenBody(request)

\* httpretrier.go: run sets "the original body for the next request".
OriginalBodySent == pc = "sending" => body = GivenBody(request)

\* The delays between attempt k and attempt k + 1.
Backoff(k) == LET d == Delay * DelayFactor ^ (k - 1) IN d .. (d + Jitter - 1)

\* Attempt k + 1 is started by a timer armed, after attempt k, with the delay
\* that follows attempt k, as long as this delay fits in 64 bits.
AttemptAfterItsDelay ==
    [][SelectTimer /\ ~stale =>
         IF calls = 0 THEN timer.dur = 1
         ELSE (\A d \in Backoff(calls) : d <= MaxInt64)
                  => timer.dur \in Backoff(calls)]_vars

\* Every Do that found the channel empty returns, whoever cancels or not.
DoReturns == (pc # "idle" /\ ~stale) ~> (pc = "idle")

\* What Do returns, as one value.
Returned ==
    IF pc # "idle" \/ dos = 0 THEN NoResult
    ELSE IF doError = Nil THEN doResponse.status
    ELSE doError

Phase == IF pc = "idle" THEN "idle" ELSE IF pc = "sending" THEN "attempting"
         ELSE "waiting"

Contract == INSTANCE BoundedRetry
    WITH N <- Attempts, Abandoned <- {Canceled, BodyError}, Pending <- NoResult,
         phase <- Phase, left <- remainingAttempts, outcome <- Returned

\* Do keeps the promise of a bounded retry: a request is sent again only
\* after an outcome that asks for it, at most Attempts times in all, and the
\* outcome of the last attempt is what Do returns.
ContractSpec == Contract!Spec
=============================================================================
