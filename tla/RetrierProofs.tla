--------------------------- MODULE RetrierProofs ---------------------------
(***************************************************************************)
(* Theorems about Retrier, for every value of its constants: its types, an *)
(* inductive invariant that says when the channel resetTimer can hold a    *)
(* delay, the implementation of BoundedRetry, and which delay is the one   *)
(* that an attempt waits for.                                              *)
(***************************************************************************)
EXTENDS Retrier, TLAPS

\* Whatever exec sends, it sends an integer.
LEMMA ResetDurationsInt ==
    ASSUME nextDelay \in Nat
    PROVE  ResetDurations \subseteq Int
<1>1. Int64Of(nextDelay) \subseteq Int
    BY RetrierAssumption DEF ValidOptions, Int64Of
<1>2. ASSUME NEW x \in Int PROVE WrapInt64(x) \in Int
    BY RetrierAssumption DEF ValidOptions, WrapInt64
<1> QED
    BY <1>1, <1>2, RetrierAssumption DEF ValidOptions, ResetDurations

\* The timer runs, or has fired, only while no delay waits in the channel and
\* no attempt is being made; a Run in progress has attempts left.
ChannelInv ==
    /\ pc \in {"task", "send"} => timer.st = "spent"
    /\ ~stale /\ pc \in {"task", "send"} => resetTimer = <<>>
    /\ ~stale /\ resetTimer # <<>> => timer.st = "spent"
    /\ pc # "idle" => remainingAttempts > 0
    /\ ~stale /\ pc = "idle" /\ resetTimer # <<>> => result = Canceled

Inv == TypeOK /\ ChannelInv

\* The invariant holds at the start.
LEMMA InitInv == Init => Inv
<1> SUFFICES ASSUME Init PROVE Inv
    OBVIOUS
<1>1. TypeOK
    <2>1. remainingAttempts \in 0 .. Attempts
        BY RetrierAssumption DEF ValidOptions, Init
    <2>2. timer \in Timers
        BY DEF Init, Timers
    <2>3. resetTimer \in Seq(Int) /\ Len(resetTimer) <= 1
        BY DEF Init
    <2>4. /\ pc \in {"idle", "select", "task", "send"}
          /\ ctxDone \in BOOLEAN /\ taskCtxDone \in BOOLEAN /\ stale \in BOOLEAN
          /\ nextDelay \in Nat /\ calls \in Nat /\ runs \in Nat
          /\ result \in Outcomes \cup {Canceled, NoResult}
        BY DEF Init
    <2> QED
        BY <2>1, <2>2, <2>3, <2>4 DEF TypeOK
<1>2. pc = "idle" /\ resetTimer = <<>>
    BY DEF Init
<1> QED
    BY <1>1, <1>2 DEF Inv, ChannelInv

\* Every step of the loop, of the runtime and of the caller preserves it.
LEMMA NextInv == Inv /\ [Next]_vars => Inv'
<1> SUFFICES ASSUME Inv, [Next]_vars PROVE Inv'
    OBVIOUS
<1> USE RetrierAssumption DEF ValidOptions, Inv, contexts, counters, history
<1>1. CASE Run
    <2>1. TypeOK'
        BY <1>1 DEF Run, TypeOK, Timers
    <2>2. pc' = "select" /\ remainingAttempts' > 0 /\ stale' = (resetTimer' # <<>>)
        BY <1>1 DEF Run
    <2> QED
        BY <2>1, <2>2 DEF ChannelInv
<1>2. CASE ContextDone
    BY <1>2 DEF ContextDone, TypeOK, ChannelInv
<1>3. CASE TimerFires
    BY <1>3 DEF TimerFires, TypeOK, ChannelInv, Timers
<1>4. CASE TaskTimeout
    BY <1>4 DEF TaskTimeout, TypeOK, ChannelInv
<1>5. CASE SelectDone
    BY <1>5 DEF SelectDone, TypeOK, ChannelInv
<1>6. CASE SelectReset
    <2>1. Head(resetTimer) \in Int /\ resetTimer' = <<>>
        BY <1>6 DEF SelectReset, TypeOK
    <2> QED
        BY <1>6, <2>1 DEF SelectReset, SetTimer, TypeOK, ChannelInv, Timers
<1>7. CASE SelectTimer
    BY <1>7 DEF SelectTimer, TypeOK, ChannelInv, Timers
<1>8. ASSUME NEW r \in Outcomes, TaskReturns(r) PROVE Inv'
    BY <1>8 DEF TaskReturns, TypeOK, ChannelInv
<1>9. CASE SendReset
    <2>1. PICK d \in ResetDurations : resetTimer' = Append(resetTimer, d)
        BY <1>9 DEF SendReset
    <2>2. d \in Int
        BY ResetDurationsInt DEF TypeOK
    <2>3. resetTimer' = <<d>>
        BY <1>9, <2>1 DEF SendReset
    <2>4. nextDelay' \in Nat
        BY <1>9 DEF SendReset, TypeOK
    <2> QED
        BY <1>9, <2>2, <2>3, <2>4 DEF SendReset, TypeOK, ChannelInv
<1>10. CASE UNCHANGED vars
    BY <1>10 DEF vars, TypeOK, ChannelInv
<1> QED
    BY <1>1, <1>2, <1>3, <1>4, <1>5, <1>6, <1>7, <1>8, <1>9, <1>10
    DEF Next, Select

\* The state of a Retrier never leaves its types: the channel holds at most
\* one delay and the unsigned counter of attempts never wraps.
THEOREM TypeCorrect == Spec => []TypeOK
<1>1. Inv => TypeOK
    BY DEF Inv
<1> QED
    BY InitInv, NextInv, <1>1, PTL DEF Spec

\* exec never blocks on resetTimer in a Run that found the channel empty.
THEOREM NeverBlocked == Spec => []NoBlockedSend
<1>1. Inv => NoBlockedSend
    BY DEF Inv, ChannelInv, NoBlockedSend
<1> QED
    BY InitInv, NextInv, <1>1, PTL DEF Spec

\* Only a Run whose context was done leaves a delay in resetTimer.
THEOREM ReusableUnlessCancelled == Spec => []LeftoverOnlyAfterCancel
<1>1. Inv => LeftoverOnlyAfterCancel
    BY DEF Inv, ChannelInv, LeftoverOnlyAfterCancel
<1> QED
    BY InitInv, NextInv, <1>1, PTL DEF Spec

\* Run implements BoundedRetry: every step of it is a step of the promise, or
\* invisible.
THEOREM ImplementsContract == Spec => ContractSpec
<1>1. Init => Contract!Init
    BY DEF Init, Contract!Init, Phase
<1>2. Inv /\ [Next]_vars => [Contract!Next]_(Contract!vars)
    <2> SUFFICES ASSUME Inv, [Next]_vars
                 PROVE  [Contract!Next]_(Contract!vars)
        OBVIOUS
    <2> USE RetrierAssumption DEF ValidOptions, Inv, contexts, counters, history, Phase,
            Contract!vars, Contract!Next
    <2>1. CASE Run
        BY <2>1 DEF Run, Contract!Begin
    <2>2. CASE ContextDone \/ TimerFires \/ TaskTimeout \/ SelectReset
        BY <2>2 DEF ContextDone, TimerFires, TaskTimeout, SelectReset
    <2>3. CASE SelectDone
        BY <2>3 DEF SelectDone, Contract!Abandon
    <2>4. CASE SelectTimer
        BY <2>4 DEF SelectTimer, Contract!Start, TypeOK, ChannelInv
    <2>5. ASSUME NEW r \in Outcomes, TaskReturns(r)
          PROVE  Contract!Again(r) \/ Contract!Finish(r)
        BY <2>5 DEF TaskReturns, Contract!Again, Contract!Finish, TypeOK,
                    ChannelInv
    <2>6. CASE SendReset
        BY <2>6 DEF SendReset
    <2>7. CASE UNCHANGED vars
        BY <2>7 DEF vars
    <2> QED
        BY <2>1, <2>2, <2>3, <2>4, <2>5, <2>6, <2>7 DEF Next, Select
<1> QED
    BY InitInv, NextInv, <1>1, <1>2, PTL
    DEF Spec, ContractSpec, Contract!Spec

-----------------------------------------------------------------------------
(* The delays.                                                             *)

\* The law of the powers of DelayFactor.  It is arithmetic, and the provers know
\* nothing of ^: they can neither unfold it nor prove this by induction.
PowersMultiply ==
    /\ DelayFactor ^ 0 = 1
    /\ \A k \in Nat : /\ DelayFactor ^ k \in Nat
                      /\ DelayFactor ^ (k + 1) = DelayFactor ^ k * DelayFactor

\* The delay d may come between attempt k and attempt k + 1.
Follows(d, k) == (\A x \in Backoff(k) : x <= MaxInt64) => d \in Backoff(k)

\* In a Run that found the channel empty, nextDelay is the delay to send next, and
\* the one delay under way, in the channel or in the timer, is that of the last
\* attempt.
DelayInv ==
    ~stale =>
        /\ pc \in {"task", "send"} =>
               calls > 0 /\ nextDelay = Delay * DelayFactor ^ (calls - 1)
        /\ pc = "select" =>
               /\ nextDelay = Delay * DelayFactor ^ calls
               /\ calls = 0 => resetTimer = <<>> /\ timer.dur = 1
               /\ calls > 0 /\ resetTimer # <<>> => Follows(Head(resetTimer), calls)
               /\ calls > 0 /\ resetTimer = <<>> => Follows(timer.dur, calls)

\* Multiplying the delay multiplies the power.
LEMMA Associates ==
    ASSUME NEW x \in Nat, NEW y \in Nat, NEW z \in Nat
    PROVE  (x * y) * z = x * (y * z)
OBVIOUS

\* What exec sends is the delay that follows the last attempt.
LEMMA SendsItsDelay ==
    ASSUME nextDelay \in Nat, NEW k \in Nat,
           nextDelay = Delay * DelayFactor ^ (k - 1), NEW d \in ResetDurations
    PROVE  Follows(d, k)
<1> USE RetrierAssumption DEF ValidOptions
<1> SUFFICES ASSUME \A x \in Backoff(k) : x <= MaxInt64
             PROVE  d \in Backoff(k)
    BY DEF Follows
<1>1. Backoff(k) = nextDelay .. (nextDelay + Jitter - 1)
    BY DEF Backoff
<1>2. PICK e \in Int64Of(nextDelay), j \in 0 .. (Jitter - 1) : d = WrapInt64(e + j)
    BY DEF ResetDurations
<1>3. nextDelay \in Backoff(k) /\ nextDelay + j \in Backoff(k)
    BY <1>1
<1>4. e = nextDelay
    BY <1>3 DEF Int64Of
<1>5. d = nextDelay + j
    BY <1>2, <1>3, <1>4 DEF WrapInt64
<1> QED
    BY <1>3, <1>5

\* Each step keeps the one delay under way that of the last attempt.
LEMMA DelayInvNext ==
    ASSUME PowersMultiply, Inv, DelayInv, [Next]_vars
    PROVE  DelayInv'
<1> USE DEF contexts, counters, history
<1>1. CASE Run
    <2>1. /\ pc' = "select" /\ calls' = 0 /\ nextDelay' = Delay /\ timer'.dur = 1
          /\ ~stale' => resetTimer' = <<>>
        BY <1>1 DEF Run
    <2>2. Delay * DelayFactor ^ 0 = Delay
        <3>1. Delay * 1 = Delay
            BY RetrierAssumption DEF ValidOptions
        <3> QED
            BY <3>1 DEF PowersMultiply
    <2>3. nextDelay' = Delay * DelayFactor ^ calls'
        BY <2>1, <2>2
    <2> QED
        BY <2>1, <2>3 DEF DelayInv
<1>2. CASE ContextDone \/ TaskTimeout
    BY <1>2 DEF ContextDone, TaskTimeout, DelayInv, Follows, Backoff
<1>3. CASE TimerFires
    <2>1. timer'.dur = timer.dur /\ UNCHANGED <<pc, nextDelay, resetTimer, calls, stale>>
        BY <1>3 DEF TimerFires, Inv, TypeOK, Timers
    <2> QED
        BY <2>1 DEF DelayInv, Follows, Backoff
<1>4. CASE SelectDone
    BY <1>4 DEF SelectDone, DelayInv
<1>5. CASE SelectReset
    <2>1. /\ pc = "select" /\ resetTimer # <<>> /\ timer'.dur = Head(resetTimer)
          /\ resetTimer' = <<>> /\ UNCHANGED <<pc, nextDelay, calls, stale>>
        BY <1>5 DEF SelectReset, SetTimer, Inv, TypeOK
    <2> QED
        BY <2>1 DEF DelayInv, Follows, Backoff, Inv, TypeOK
<1>6. CASE SelectTimer
    <2>1. /\ pc = "select" /\ pc' = "task" /\ calls' = calls + 1 /\ calls \in Nat
          /\ UNCHANGED <<nextDelay, stale>>
        BY <1>6 DEF SelectTimer, Inv, TypeOK
    <2>2. calls' - 1 = calls /\ calls' > 0
        BY <2>1
    <2> QED
        BY <2>1, <2>2 DEF DelayInv
<1>7. ASSUME NEW r \in Outcomes, TaskReturns(r) PROVE DelayInv'
    BY <1>7 DEF TaskReturns, DelayInv
<1>8. CASE SendReset
    <2> SUFFICES ASSUME ~stale' PROVE DelayInv'
        BY DEF DelayInv
    <2>1. /\ pc = "send" /\ pc' = "select" /\ resetTimer = <<>>
          /\ nextDelay' = nextDelay * DelayFactor
          /\ UNCHANGED <<calls, stale>>
        BY <1>8 DEF SendReset
    <2>2. PICK d \in ResetDurations : resetTimer' = <<d>>
        BY <1>8 DEF SendReset
    <2>3. /\ calls \in Nat /\ calls > 0 /\ nextDelay \in Nat
          /\ nextDelay = Delay * DelayFactor ^ (calls - 1)
        BY <2>1 DEF DelayInv, Inv, TypeOK
    <2>4. nextDelay' = Delay * DelayFactor ^ calls
        <3>1. calls - 1 \in Nat /\ (calls - 1) + 1 = calls
            BY <2>3
        <3>2. /\ DelayFactor ^ (calls - 1) \in Nat
              /\ DelayFactor ^ calls = DelayFactor ^ (calls - 1) * DelayFactor
            BY <3>1 DEF PowersMultiply
        <3> QED
            BY <2>1, <2>3, <3>2, Associates, RetrierAssumption DEF ValidOptions
    <2>5. Follows(d, calls)
        BY <2>3, SendsItsDelay
    <2>6. Head(resetTimer') = d /\ resetTimer' # <<>>
        BY <2>2
    <2> QED
        BY <2>1, <2>3, <2>4, <2>5, <2>6 DEF DelayInv, Follows, Backoff
<1>9. CASE UNCHANGED vars
    BY <1>9 DEF vars, DelayInv, Follows, Backoff
<1> QED
    BY <1>1, <1>2, <1>3, <1>4, <1>5, <1>6, <1>7, <1>8, <1>9 DEF Next, Select

\* Every attempt of a Run that found the channel empty is started by a timer that
\* was armed after the attempt before it, with the delay of that attempt: the
\* delay, multiplied by the factor once for each attempt before, and the jitter.
THEOREM EachAfterItsDelay ==
    ASSUME PowersMultiply
    PROVE  Spec => AttemptAfterItsDelay
<1>1. Init => DelayInv
    BY DEF Init, DelayInv
<1>2. Inv /\ DelayInv /\ [Next]_vars => DelayInv'
    BY DelayInvNext
<1>3. Inv /\ DelayInv /\ [Next]_vars =>
          [SelectTimer /\ ~stale =>
              IF calls = 0 THEN timer.dur = 1
              ELSE (\A d \in Backoff(calls) : d <= MaxInt64)
                       => timer.dur \in Backoff(calls)]_vars
    <2> SUFFICES ASSUME Inv, DelayInv, SelectTimer, ~stale
                 PROVE  IF calls = 0 THEN timer.dur = 1
                        ELSE (\A d \in Backoff(calls) : d <= MaxInt64)
                                 => timer.dur \in Backoff(calls)
        OBVIOUS
    <2>1. pc = "select" /\ timer.st = "fired" /\ calls \in Nat
        BY DEF SelectTimer, Inv, TypeOK
    <2>2. resetTimer = <<>>
        BY <2>1 DEF Inv, ChannelInv
    <2> QED
        BY <2>1, <2>2 DEF DelayInv, Follows
<1> QED
    BY <1>1, <1>2, <1>3, InitInv, NextInv, PTL DEF Spec, AttemptAfterItsDelay
=============================================================================
