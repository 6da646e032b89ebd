------------------------------ MODULE Retrier ------------------------------
(***************************************************************************)
(* pkg/retrier: one Retrier and the successive calls of Run on it.         *)
(*                                                                         *)
(* Run is a loop over a select of three channels: the context, the channel *)
(* resetTimer (capacity 1) that carries the next delay, and the channel of *)
(* the timer that starts an attempt.  The goroutine that receives from     *)
(* resetTimer is the one that sends to it.  The caller's context, the      *)
(* runtime's timer and the timeout of the task's context run beside it.    *)
(*                                                                         *)
(* A Retrier is meant to be reused (Run reinitialises nextDelay and        *)
(* remainingAttempts), but resetTimer is made once, in New, and keeps what *)
(* a cancelled Run left in it.                                             *)
(*                                                                         *)
(* A definition whose name holds an underscore is a mutant: the definition *)
(* named before the underscore with one plausible mistake in it.           *)
(***************************************************************************)
EXTENDS Integers, Sequences

CONSTANTS Attempts,     \* WithAttempts
          Delay,        \* WithDelay
          DelayFactor,  \* WithDelayFactor, a whole number here
          Jitter,       \* WithJitter
          Errors,       \* the errors a task can return
          RetryOn,      \* the outcomes for which retryIfFn is true
          MaxInt64,     \* largest value of a time.Duration
          MaxRuns       \* bound of the model: number of calls of Run

Nil == "nil"            \* a task's success
Canceled == "canceled"  \* the error of a Run whose context is done
NoResult == "none"      \* the Run has not returned

Outcomes == Errors \cup {Nil}

\* What the options let pass, where the delay factor is a whole number: the code
\* takes any float64 that is not below 1, which this model does not.
ValidOptions ==
    /\ Attempts \in Nat \ {0}
    /\ Delay \in Nat \ {0}
    /\ DelayFactor \in Nat \ {0}
    /\ Jitter \in Nat \ {0}
    /\ MaxInt64 \in Nat
    /\ Delay <= MaxInt64
    /\ Jitter <= MaxInt64
    /\ RetryOn \subseteq Outcomes

ASSUME RetrierAssumption ==
    ValidOptions /\ Errors \cap {Nil, Canceled, NoResult} = {}

VARIABLES
    pc,                 \* where Run is; "idle" when no Run is in progress
    ctxDone,            \* r.ctx is done (derived from the caller's context)
    taskCtxDone,        \* the context given to the running task is done
    nextDelay,
    remainingAttempts,
    timer,              \* r.timer: its state and the duration it was armed with
    resetTimer,         \* the messages in the channel r.resetTimer
    result,             \* what the last Run returned
    calls,              \* history: attempts started by the current Run
    runs,               \* history: number of calls of Run
    stale               \* history: resetTimer was not empty when Run was called

contexts == <<ctxDone, taskCtxDone>>
counters == <<nextDelay, remainingAttempts>>
history == <<calls, runs, stale>>
vars == <<pc, contexts, counters, timer, resetTimer, result, history>>

\* The states of a timer: running, with a tick in its channel, or neither.
Timers == [st : {"armed", "fired", "spent"}, dur : Int]

-----------------------------------------------------------------------------
(* int64 arithmetic of exec.  Converting a float64 that does not fit is    *)
(* implementation-defined: amd64 gives the smallest int64, arm64 the       *)
(* largest one.                                                            *)

Int64Of(x) == IF x <= MaxInt64 THEN {x} ELSE {MaxInt64, -MaxInt64 - 1}

WrapInt64(x) == IF x > MaxInt64 THEN x - 2 * MaxInt64 - 2 ELSE x

\* The values exec may send to resetTimer.
ResetDurations ==
    {WrapInt64(d + j) : d \in Int64Of(nextDelay), j \in 0 .. (Jitter - 1)}

-----------------------------------------------------------------------------
Init ==
    /\ pc = "idle"
    /\ ctxDone = FALSE
    /\ taskCtxDone = FALSE
    /\ nextDelay = 0
    /\ remainingAttempts = 0
    /\ timer = [st |-> "spent", dur |-> 0]
    /\ resetTimer = <<>>
    /\ result = NoResult
    /\ calls = 0
    /\ runs = 0
    /\ stale = FALSE

\* The attempts left over from the previous Run are kept.
Run_KeepAttempts ==
    /\ pc = "idle"
    /\ runs < MaxRuns
    /\ pc' = "select"
    /\ ctxDone' \in BOOLEAN
    /\ nextDelay' = Delay
    /\ remainingAttempts' = IF runs = 0 THEN Attempts ELSE remainingAttempts
    /\ timer' = [st |-> "armed", dur |-> 1]
    /\ result' = NoResult
    /\ calls' = 0
    /\ runs' = runs + 1
    /\ stale' = (resetTimer # <<>>)
    /\ UNCHANGED <<taskCtxDone, resetTimer>>

\* Run is called, with a context that may be done already.
Run ==
    /\ pc = "idle"
    /\ runs < MaxRuns
    /\ pc' = "select"
    /\ ctxDone' \in BOOLEAN
    /\ nextDelay' = Delay
    /\ remainingAttempts' = Attempts
    /\ timer' = [st |-> "armed", dur |-> 1]
    /\ result' = NoResult
    /\ calls' = 0
    /\ runs' = runs + 1
    /\ stale' = (resetTimer # <<>>)
    /\ UNCHANGED <<taskCtxDone, resetTimer>>

\* The caller's context is cancelled or reaches its deadline.
ContextDone ==
    /\ pc # "idle"
    /\ ~ctxDone
    /\ ctxDone' = TRUE
    /\ taskCtxDone' = (taskCtxDone \/ pc = "task")
    /\ UNCHANGED <<pc, counters, timer, resetTimer, result, history>>

\* The runtime puts a tick in the timer's channel.
TimerFires ==
    /\ pc # "idle"
    /\ timer.st = "armed"
    /\ timer' = [timer EXCEPT !.st = "fired"]
    /\ UNCHANGED <<pc, contexts, counters, resetTimer, result, history>>

\* The timeout of the task's context expires.
TaskTimeout ==
    /\ pc = "task"
    /\ ~taskCtxDone
    /\ taskCtxDone' = TRUE
    /\ UNCHANGED <<pc, ctxDone, counters, timer, resetTimer, result, history>>

\* select: the context is done.
SelectDone ==
    /\ pc = "select"
    /\ ctxDone
    /\ pc' = "idle"
    /\ result' = Canceled
    /\ UNCHANGED <<contexts, counters, timer, resetTimer, history>>

\* The timer is stopped, and not armed again.
SetTimer_NoReset(d) == [st |-> "spent", dur |-> d]

\* setTimer: whether Stop succeeds or not, no tick of the old timer is left
\* in the channel, and the timer is armed again.
SetTimer(d) == [st |-> "armed", dur |-> d]

\* select: a delay is received and the timer armed with it.
SelectReset ==
    /\ pc = "select"
    /\ resetTimer # <<>>
    /\ timer' = SetTimer(Head(resetTimer))
    /\ resetTimer' = Tail(resetTimer)
    /\ UNCHANGED <<pc, contexts, counters, result, history>>

\* The timer is a ticker: it goes on firing after its first tick.
SelectTimer_Ticker ==
    /\ pc = "select"
    /\ timer.st = "fired"
    /\ timer' = [timer EXCEPT !.st = "armed"]
    /\ pc' = "task"
    /\ taskCtxDone' = ctxDone
    /\ calls' = calls + 1
    /\ UNCHANGED <<ctxDone, counters, resetTimer, result, runs, stale>>

\* select: a tick is received; exec derives the task's context and calls it.
SelectTimer ==
    /\ pc = "select"
    /\ timer.st = "fired"
    /\ timer' = [timer EXCEPT !.st = "spent"]
    /\ pc' = "task"
    /\ taskCtxDone' = ctxDone
    /\ calls' = calls + 1
    /\ UNCHANGED <<ctxDone, counters, resetTimer, result, runs, stale>>

\* The test for zero is made before the decrement.
TaskReturns_LateTest(r) ==
    /\ pc = "task"
    /\ taskCtxDone' = TRUE
    /\ remainingAttempts' = remainingAttempts - 1
    /\ IF remainingAttempts = 0 \/ r \notin RetryOn
       THEN pc' = "idle" /\ result' = r
       ELSE pc' = "send" /\ UNCHANGED result
    /\ UNCHANGED <<ctxDone, nextDelay, timer, resetTimer, history>>

\* A final outcome still sends a delay.
TaskReturns_SendAlways(r) ==
    /\ pc = "task"
    /\ taskCtxDone' = TRUE
    /\ remainingAttempts' = remainingAttempts - 1
    /\ IF remainingAttempts' = 0 \/ r \notin RetryOn
       THEN /\ pc' = "idle"
            /\ result' = r
            /\ resetTimer' = Append(resetTimer, nextDelay)
       ELSE pc' = "send" /\ UNCHANGED <<result, resetTimer>>
    /\ UNCHANGED <<ctxDone, nextDelay, timer, history>>

\* The task returns r, its context is cancelled, and exec decides.
TaskReturns(r) ==
    /\ pc = "task"
    /\ taskCtxDone' = TRUE
    /\ remainingAttempts' = remainingAttempts - 1
    /\ IF remainingAttempts' = 0 \/ r \notin RetryOn
       THEN pc' = "idle" /\ result' = r
       ELSE pc' = "send" /\ UNCHANGED result
    /\ UNCHANGED <<ctxDone, nextDelay, timer, resetTimer, history>>

\* The delay grows before it is sent.
SendReset_GrowFirst ==
    /\ pc = "send"
    /\ resetTimer = <<>>
    /\ nextDelay' = nextDelay * DelayFactor
    /\ \E j \in 0 .. (Jitter - 1) :
          resetTimer' = Append(resetTimer, nextDelay' + j)
    /\ pc' = "select"
    /\ UNCHANGED <<contexts, remainingAttempts, timer, result, history>>

\* The end of exec, blocked as long as the channel is full.
SendReset ==
    /\ pc = "send"
    /\ resetTimer = <<>>
    /\ \E d \in ResetDurations : resetTimer' = Append(resetTimer, d)
    /\ nextDelay' = nextDelay * DelayFactor
    /\ pc' = "select"
    /\ UNCHANGED <<contexts, remainingAttempts, timer, result, history>>

Select == SelectDone \/ SelectReset \/ SelectTimer

Next ==
    \/ Run
    \/ ContextDone
    \/ TimerFires
    \/ TaskTimeout
    \/ Select
    \/ \E r \in Outcomes : TaskReturns(r)
    \/ SendReset

Spec == Init /\ [][Next]_vars

\* The runtime runs the goroutine and fires its timers.  A task must return
\* only once its context is done (the caller's part of the contract); nobody
\* has to cancel the caller's context.
Fairness ==
    /\ WF_vars(TimerFires)
    /\ WF_vars(TaskTimeout)
    /\ WF_vars(Select)
    /\ WF_vars(SendReset)
    /\ WF_vars(taskCtxDone /\ \E r \in Outcomes : TaskReturns(r))

FairSpec == Spec /\ Fairness

-----------------------------------------------------------------------------
(* Properties *)

\* Every variable keeps its type; the channel never exceeds its capacity and
\* the unsigned attempt counter never goes below zero.
TypeOK ==
    /\ pc \in {"idle", "select", "task", "send"}
    /\ ctxDone \in BOOLEAN
    /\ taskCtxDone \in BOOLEAN
    /\ nextDelay \in Nat
    /\ remainingAttempts \in 0 .. Attempts
    /\ timer \in Timers
    /\ resetTimer \in Seq(Int)
    /\ Len(resetTimer) <= 1
    /\ result \in Outcomes \cup {Canceled, NoResult}
    /\ calls \in Nat
    /\ runs \in Nat
    /\ stale \in BOOLEAN

\* The goroutine that sends the next delay is the only one that receives it,
\* so it must never find the channel full (exec would block for ever).  True
\* of every Run that found the channel empty.
NoBlockedSend == pc = "send" /\ ~stale => resetTimer = <<>>

\* A Run that found the channel empty leaves a delay in it only when its
\* context was done: after a task's outcome the Retrier is fit for reuse.
LeftoverOnlyAfterCancel ==
    pc = "idle" /\ resetTimer # <<>> /\ ~stale => result = Canceled

\* The delays between attempt k and attempt k + 1.
Backoff(k) == LET d == Delay * DelayFactor ^ (k - 1) IN d .. (d + Jitter - 1)

\* Attempt k + 1 is started by a timer armed, after attempt k, with the delay
\* that follows attempt k, as long as this delay fits in 64 bits.
AttemptAfterItsDelay ==
    [][SelectTimer /\ ~stale =>
         IF calls = 0 THEN timer.dur = 1
         ELSE (\A d \in Backoff(calls) : d <= MaxInt64)
                  => timer.dur \in Backoff(calls)]_vars

\* Every Run that found the channel empty returns, whoever cancels or not.
RunReturns == (pc # "idle" /\ ~stale) ~> (pc = "idle")

\* Every Run returns, on a Retrier in whatever state the last Run left it.
EveryRunReturns == (pc # "idle") ~> (pc = "idle")

Phase == IF pc = "idle" THEN "idle" ELSE IF pc = "task" THEN "attempting"
         ELSE "waiting"

Contract == INSTANCE BoundedRetry
    WITH N <- Attempts, Abandoned <- {Canceled}, Pending <- NoResult,
         phase <- Phase, left <- remainingAttempts, outcome <- result

\* Run keeps the promise of a bounded retry: at most Attempts attempts, each
\* after an outcome that asks for it, and the last outcome as the result.
ContractSpec == Contract!Spec
=============================================================================
