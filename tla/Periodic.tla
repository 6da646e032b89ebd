------------------------------ MODULE Periodic ------------------------------
(***************************************************************************)
(* pkg/periodic: one Periodic, the caller of Start and Stop, and the loops *)
(* that its calls of Start set going.                                      *)
(*                                                                         *)
(* Start stores a new context and its cancel function in the Periodic and  *)
(* starts a goroutine; Stop calls the stored cancel function and waits for *)
(* nothing.  Each pass of a loop reads the stored context and the stored   *)
(* timer, then waits on these and on resetTimer, the one channel (of       *)
(* capacity 1) that all loops share.  A loop that outlives a Stop meets    *)
(* what the next Start stored.                                             *)
(*                                                                         *)
(* A definition whose name holds an underscore is a mutant: the definition *)
(* named before the underscore with one plausible mistake in it.           *)
(***************************************************************************)
EXTENDS Integers, Sequences

CONSTANTS Interval,   \* the interval given to New
          Jitter,     \* the jitter given to New
          MaxStarts   \* bound of the model: number of calls of Start

\* What New lets pass.
NewAccepts == Interval \in Nat \ {0} /\ Jitter \in Nat

ASSUME PeriodicAssumption == NewAccepts /\ MaxStarts \in Nat \ {0}

Starts == 1 .. MaxStarts    \* a call of Start, its context and its loop
None == 0                   \* a nil context, cancel function or timer

VARIABLES
    started,     \* how many times Start was called
    ctx,         \* p.ctx and p.cancel: the Start that stored them
    done,        \* [Starts -> BOOLEAN]: that context is cancelled
    pTimer,      \* p.timer: the loop that made it
    timers,      \* [Starts -> the timer that this loop made]
    resetTimer,  \* the messages in the channel p.resetTimer
    pc,          \* [Starts -> where the loop is]
    waitsOn,     \* [Starts -> the context and the timer read by its select]
    deferred,    \* [Starts -> the cancel function its defer will call]
    ran,         \* history: [Starts -> the task has been run by this loop]
    alone,       \* history: each Start found no live loop
    clean        \* history: each Start found an empty channel too

control == <<started, ctx>>
goroutines == <<waitsOn, deferred>>
history == <<ran, alone, clean>>
vars == <<control, done, pTimer, timers, resetTimer, pc, goroutines, history>>

\* "created": the goroutine has not run yet; "pass": about to evaluate the
\* channels of its select; "panicked": the process is gone.
Points == {"none", "created", "pass", "select", "task", "send", "exited",
           "panicked"}

Timers == [st : {"armed", "fired", "spent"}, dur : Nat]

Live(i) == pc[i] \notin {"none", "exited"}

Init ==
    /\ started = 0
    /\ ctx = None
    /\ done = [i \in Starts |-> FALSE]
    /\ pTimer = None
    /\ timers = [i \in Starts |-> [st |-> "spent", dur |-> 0]]
    /\ resetTimer = <<>>
    /\ pc = [i \in Starts |-> "none"]
    /\ waitsOn = [i \in Starts |-> [ctx |-> None, timer |-> None]]
    /\ deferred = [i \in Starts |-> None]
    /\ ran = [i \in Starts |-> FALSE]
    /\ alone = TRUE
    /\ clean = TRUE

-----------------------------------------------------------------------------
(* The caller *)

\* Start: a new context, and the goroutine of a new loop.
Start ==
    LET i == started + 1 IN
    /\ i \in Starts
    /\ pc[i] = "none"
    /\ started' = i
    /\ ctx' = i
    /\ pc' = [pc EXCEPT ![i] = "created"]
    /\ alone' = (alone /\ \A j \in Starts : ~Live(j))
    /\ clean' = (clean /\ alone' /\ resetTimer = <<>>)
    /\ UNCHANGED <<done, pTimer, timers, resetTimer, goroutines, ran>>

\* Stop cancels the context stored last, and returns.
Stop ==
    /\ ctx # None
    /\ done' = [done EXCEPT ![ctx] = TRUE]
    /\ UNCHANGED <<control, pTimer, timers, resetTimer, pc, goroutines, history>>

\* The context given to Start is done: so is the one derived from it.
ParentDone(i) ==
    /\ i <= started
    /\ ~done[i]
    /\ done' = [done EXCEPT ![i] = TRUE]
    /\ UNCHANGED <<control, pTimer, timers, resetTimer, pc, goroutines, history>>

-----------------------------------------------------------------------------
(* The loop i *)

\* The goroutine runs: its defer keeps the cancel function stored now, which a
\* later Start may have stored, and p.timer is a new timer.
Begin(i) ==
    /\ pc[i] = "created"
    /\ deferred' = [deferred EXCEPT ![i] = ctx]
    /\ timers' = [timers EXCEPT ![i] = [st |-> "armed", dur |-> 1]]
    /\ pTimer' = i
    /\ pc' = [pc EXCEPT ![i] = "pass"]
    /\ UNCHANGED <<control, done, resetTimer, waitsOn, history>>

\* A pass of the loop reads the channels it will wait on.
Pass(i) ==
    /\ pc[i] = "pass"
    /\ waitsOn' = [waitsOn EXCEPT ![i] = [ctx |-> ctx, timer |-> pTimer]]
    /\ pc' = [pc EXCEPT ![i] = "select"]
    /\ UNCHANGED <<control, done, pTimer, timers, resetTimer, deferred, history>>

\* A break where the return is: it leaves the select and not the loop.
SelectDone_Break(i) ==
    /\ pc[i] = "select"
    /\ done[waitsOn[i].ctx]
    /\ pc' = [pc EXCEPT ![i] = "pass"]
    /\ UNCHANGED <<control, done, pTimer, timers, resetTimer, goroutines, history>>

\* select: the context is done; the deferred cancel runs.
SelectDone(i) ==
    /\ pc[i] = "select"
    /\ done[waitsOn[i].ctx]
    /\ pc' = [pc EXCEPT ![i] = "exited"]
    /\ done' = [done EXCEPT ![deferred[i]] = TRUE]
    /\ UNCHANGED <<control, pTimer, timers, resetTimer, goroutines, history>>

\* The timer is stopped, and not armed again.
SetTimer_NoReset(d) == [timers EXCEPT ![pTimer] = [st |-> "spent", dur |-> d]]

\* setTimer, on the timer stored now: no tick of it is left, and it is armed.
SetTimer(d) == [timers EXCEPT ![pTimer] = [st |-> "armed", dur |-> d]]

\* select: a delay is received.
SelectReset(i) ==
    /\ pc[i] = "select"
    /\ resetTimer # <<>>
    /\ timers' = SetTimer(Head(resetTimer))
    /\ resetTimer' = Tail(resetTimer)
    /\ pc' = [pc EXCEPT ![i] = "pass"]
    /\ UNCHANGED <<control, done, pTimer, goroutines, history>>

\* The timer is a ticker: it goes on firing after its first tick.
SelectTimer_Ticker(i) ==
    LET t == waitsOn[i].timer IN
    /\ pc[i] = "select"
    /\ timers[t].st = "fired"
    /\ timers' = [timers EXCEPT ![t].st = "armed"]
    /\ pc' = [pc EXCEPT ![i] = "task"]
    /\ ran' = [ran EXCEPT ![i] = TRUE]
    /\ UNCHANGED <<control, done, pTimer, resetTimer, goroutines, alone, clean>>

\* select: a tick is received; run calls the task.
SelectTimer(i) ==
    LET t == waitsOn[i].timer IN
    /\ pc[i] = "select"
    /\ timers[t].st = "fired"
    /\ timers' = [timers EXCEPT ![t].st = "spent"]
    /\ pc' = [pc EXCEPT ![i] = "task"]
    /\ ran' = [ran EXCEPT ![i] = TRUE]
    /\ UNCHANGED <<control, done, pTimer, resetTimer, goroutines, alone, clean>>

\* The task returns; rand.Int63n panics for a jitter of zero, and a panic in a
\* goroutine ends the process.
TaskReturns(i) ==
    /\ pc[i] = "task"
    /\ pc' = IF Jitter = 0 THEN [j \in Starts |-> "panicked"]
             ELSE [pc EXCEPT ![i] = "send"]
    /\ UNCHANGED <<control, done, pTimer, timers, resetTimer, goroutines, history>>

\* The delay is the jitter alone.
SendReset_JitterOnly(i) ==
    /\ pc[i] = "send"
    /\ resetTimer = <<>>
    /\ \E j \in 0 .. (Jitter - 1) : resetTimer' = Append(resetTimer, j)
    /\ pc' = [pc EXCEPT ![i] = "pass"]
    /\ UNCHANGED <<control, done, pTimer, timers, goroutines, history>>

\* The channel has room for two delays.
SendReset_Room(i) ==
    /\ pc[i] = "send"
    /\ Len(resetTimer) < 2
    /\ \E j \in 0 .. (Jitter - 1) : resetTimer' = Append(resetTimer, Interval + j)
    /\ pc' = [pc EXCEPT ![i] = "pass"]
    /\ UNCHANGED <<control, done, pTimer, timers, goroutines, history>>

\* The end of run, blocked as long as the channel is full.
SendReset(i) ==
    /\ pc[i] = "send"
    /\ resetTimer = <<>>
    /\ \E j \in 0 .. (Jitter - 1) : resetTimer' = Append(resetTimer, Interval + j)
    /\ pc' = [pc EXCEPT ![i] = "pass"]
    /\ UNCHANGED <<control, done, pTimer, timers, goroutines, history>>

\* The runtime puts a tick in the channel of a timer.
TimerFires(t) ==
    /\ timers[t].st = "armed"
    /\ timers' = [timers EXCEPT ![t].st = "fired"]
    /\ UNCHANGED <<control, done, pTimer, resetTimer, pc, goroutines, history>>

Loop(i) ==
    \/ Begin(i)
    \/ Pass(i)
    \/ SelectDone(i)
    \/ SelectReset(i)
    \/ SelectTimer(i)
    \/ SendReset(i)

Next ==
    \/ Start
    \/ Stop
    \/ \E i \in Starts :
          ParentDone(i) \/ Loop(i) \/ TaskReturns(i) \/ TimerFires(i)

Spec == Init /\ [][Next]_vars

\* The runtime runs every goroutine and fires every timer; select chooses at
\* random among the channels that are ready, so a context that stays done is
\* chosen in the end; a task returns (within its timeout, as the comment of the
\* field task asks).  Nobody has to call Start or Stop.
Fairness ==
    \A i \in Starts :
       /\ WF_vars(Loop(i))
       /\ SF_vars(SelectDone(i))
       /\ WF_vars(TaskReturns(i))
       /\ WF_vars(TimerFires(i))

FairSpec == Spec /\ Fairness

-----------------------------------------------------------------------------
(* Properties.  "clean" restricts them to a Periodic started once, or started *)
(* again when the loop before had exited and left no delay in the channel.    *)

\* Every variable keeps its type, and a loop waits on a context and a timer.
TypeOK ==
    /\ started \in 0 .. MaxStarts
    /\ ctx \in 0 .. started
    /\ done \in [Starts -> BOOLEAN]
    /\ pTimer \in 0 .. started
    /\ timers \in [Starts -> Timers]
    /\ resetTimer \in Seq(Nat)
    /\ Len(resetTimer) <= 1
    /\ pc \in [Starts -> Points]
    /\ waitsOn \in [Starts -> [ctx : 0 .. started, timer : 0 .. started]]
    /\ deferred \in [Starts -> 0 .. started]
    /\ ran \in [Starts -> BOOLEAN]
    /\ alone \in BOOLEAN
    /\ clean \in BOOLEAN

\* The loop that sends the next delay is the one that receives it: it never
\* finds the channel full.
NoBlockedSend ==
    clean => \A i \in Starts : pc[i] = "send" => resetTimer = <<>>

\* New: the interval is the time between two successive calls.  Every call of
\* the task by a loop, after its first one, was preceded by a timer armed with
\* the interval and a jitter.
CallsAreSpaced ==
    [][\A i \in Starts :
         SelectTimer(i) /\ ran[i] /\ clean =>
            timers[waitsOn[i].timer].dur \in Interval .. (Interval + Jitter - 1)]_vars

\* As long as it is not stopped, a loop calls the task again and again.
KeepsCalling ==
    \A i \in Starts :
       []<>(pc[i] = "task") \/ <>[](pc[i] = "none" \/ done[i] \/ ~clean)

\* Once its context is done, a loop exits.
StopEndsLoop ==
    \A i \in Starts : (pc[i] # "none" /\ done[i] /\ clean) ~> (pc[i] = "exited" \/ ~clean)

\* A loop started again, after the loop before it has exited, calls the task
\* again and again.  It does not hold: the loop before may have left a delay in
\* the channel (hence "clean").
RestartKeepsCalling ==
    \A i \in Starts :
       []<>(pc[i] = "task") \/ <>[](pc[i] = "none" \/ done[i] \/ ~alone)
=============================================================================
