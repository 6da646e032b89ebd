------------------------- MODULE HTTPRetrierProofs -------------------------
(***************************************************************************)
(* Theorems about HTTPRetrier, for every value of its constants.           *)
(***************************************************************************)
EXTENDS HTTPRetrier, TLAPS

\* Whatever run sends, it sends an integer.
LEMMA ResetDurationsInt ==
    ASSUME nextDelay \in Nat
    PROVE  ResetDurations \subseteq Int
<1> USE HTTPRetrierAssumption DEF ValidOptions
<1>1. Int64Of(nextDelay) \subseteq Int
    BY DEF Int64Of
<1>2. ASSUME NEW x \in Int PROVE WrapInt64(x) \in Int
    BY DEF WrapInt64
<1> QED
    BY <1>1, <1>2 DEF ResetDurations

\* When the channel can hold a delay, and what is true of a Do in progress.
ChannelInv ==
    /\ pc \in {"sending", "send"} => timer.st = "spent"
    /\ ~stale /\ pc \in {"sending", "send"} => resetTimer = <<>>
    /\ ~stale /\ resetTimer # <<>> => timer.st = "spent"
    /\ pc # "idle" => remainingAttempts > 0 /\ dos > 0

\* What a request holds between two attempts.
BodyInv ==
    pc # "idle" /\ request # OneShot => body = GivenBody(request)

Inv == TypeOK /\ ChannelInv /\ BodiesAccountedFor /\ BodyInv

\* The invariant holds at the start.
LEMMA InitInv == Init => Inv
<1> SUFFICES ASSUME Init PROVE Inv
    OBVIOUS
<1>1. TypeOK
    <2>1. remainingAttempts \in 0 .. Attempts
        BY HTTPRetrierAssumption DEF Init, ValidOptions
    <2>2. timer \in Timers
        BY DEF Init, Timers
    <2>3. resetTimer \in Seq(Int) /\ Len(resetTimer) <= 1
        BY DEF Init
    <2>4. /\ pc \in {"idle", "select", "sending", "send"}
          /\ ctxDone \in BOOLEAN /\ stale \in BOOLEAN
          /\ nextDelay \in Nat /\ calls \in Nat /\ dos \in Nat
        BY DEF Init
    <2>5. /\ doResponse \in Responses \cup {NoResponse}
          /\ doError \in {Nil, ClientError, Canceled, BodyError}
          /\ request \in {NoBody} \cup Bodies
          /\ body \in {Nil, "unread", "read"}
          /\ open \subseteq Responses
        BY DEF Init
    <2> QED
        BY <2>1, <2>2, <2>3, <2>4, <2>5 DEF TypeOK
<1>2. pc = "idle" /\ resetTimer = <<>> /\ dos = 0
    BY DEF Init
<1> QED
    BY <1>1, <1>2 DEF Inv, ChannelInv, BodiesAccountedFor, BodyInv

\* Every step preserves the types.
LEMMA NextTypeOK == Inv /\ [Next]_vars => TypeOK'
<1> SUFFICES ASSUME Inv, [Next]_vars PROVE TypeOK'
    OBVIOUS
<1> USE HTTPRetrierAssumption DEF Inv, ValidOptions, counters, responses, history
<1>1. CASE Do
    BY <1>1 DEF Do, TypeOK, Timers, GivenBody
<1>2. CASE ContextDone
    BY <1>2 DEF ContextDone, TypeOK
<1>3. CASE TimerFires
    BY <1>3 DEF TimerFires, TypeOK, Timers
<1>4. CASE SelectDone
    BY <1>4 DEF SelectDone, TypeOK
<1>5. CASE SelectReset
    <2>1. Head(resetTimer) \in Int /\ resetTimer' = <<>>
        BY <1>5 DEF SelectReset, TypeOK
    <2> QED
        BY <1>5, <2>1 DEF SelectReset, SetTimer, TypeOK, Timers
<1>6. CASE SelectTimer
    BY <1>6 DEF SelectTimer, TypeOK, Timers
<1>7. ASSUME NEW o \in Outcomes, RunDecides(o) PROVE TypeOK'
    <2>1. o # ClientError => Response(o) \in Responses
        BY DEF Response, Responses, Outcomes, TypeOK
    <2>2. Opened(o) \subseteq Responses
        BY <2>1 DEF Opened
    <2>3. doResponse' \in Responses \cup {NoResponse}
        BY <1>7, <2>1 DEF RunDecides, ClientReturn
    <2>4. open' \subseteq Responses
        BY <1>7, <2>2 DEF RunDecides, TypeOK
    <2>5. remainingAttempts' \in 0 .. Attempts
        BY <1>7 DEF RunDecides, ClientReturn, TypeOK, ChannelInv
    <2>6. body' \in {Nil, "unread", "read"}
        BY <1>7 DEF RunDecides, RenewedBody
    <2> QED
        BY <1>7, <2>3, <2>4, <2>5, <2>6 DEF RunDecides, ClientReturn, TypeOK
<1>8. CASE SendReset
    <2>1. PICK d \in ResetDurations : resetTimer' = Append(resetTimer, d)
        BY <1>8 DEF SendReset
    <2>2. d \in Int
        BY ResetDurationsInt DEF TypeOK
    <2>3. resetTimer' = <<d>>
        BY <1>8, <2>1 DEF SendReset
    <2>4. nextDelay' \in Nat
        BY <1>8 DEF SendReset, TypeOK
    <2> QED
        BY <1>8, <2>2, <2>3, <2>4 DEF SendReset, TypeOK
<1>9. CASE UNCHANGED vars
    BY <1>9 DEF vars, TypeOK
<1> QED
    BY <1>1, <1>2, <1>3, <1>4, <1>5, <1>6, <1>7, <1>8, <1>9 DEF Next, Select

\* Every step preserves the rest of the invariant.
LEMMA NextInv == Inv /\ [Next]_vars => Inv'
<1> SUFFICES ASSUME Inv, [Next]_vars, TypeOK' PROVE Inv'
    BY NextTypeOK
<1> USE HTTPRetrierAssumption
        DEF Inv, ValidOptions, counters, responses, history, ChannelInv,
            BodiesAccountedFor, BodyInv
<1>1. CASE Do
    <2>1. /\ pc' = "select" /\ remainingAttempts' > 0 /\ dos' > 0
          /\ stale' = (resetTimer' # <<>>)
          /\ open' = {} /\ body' = GivenBody(request')
        BY <1>1 DEF Do, TypeOK
    <2> QED
        BY <2>1
<1>2. CASE ContextDone
    BY <1>2 DEF ContextDone, GivenBody
<1>3. CASE TimerFires
    BY <1>3 DEF TimerFires, TypeOK, Timers, GivenBody
<1>4. CASE SelectDone
    BY <1>4 DEF SelectDone, Canceled, Nil
<1>5. CASE SelectReset
    <2>1. resetTimer' = <<>>
        BY <1>5 DEF SelectReset, TypeOK
    <2> QED
        BY <1>5, <2>1 DEF SelectReset, SetTimer, GivenBody
<1>6. CASE SelectTimer
    BY <1>6 DEF SelectTimer, TypeOK, Timers, GivenBody, BodyError, Nil
<1>7. ASSUME NEW o \in Outcomes, RunDecides(o) PROVE Inv'
    <2>1. BodiesAccountedFor'
        BY <1>7 DEF RunDecides, ClientReturn, Opened, ClientError, Nil
    <2>2. BodyInv'
        BY <1>7 DEF RunDecides, ClientReturn, RenewedBody, GivenBody, TypeOK,
                    NoBody, OneShot, Replayable
    <2>3. ChannelInv'
        BY <1>7 DEF RunDecides, ClientReturn, TypeOK
    <2> QED
        BY <2>1, <2>2, <2>3
<1>8. CASE SendReset
    BY <1>8 DEF SendReset, GivenBody
<1>9. CASE UNCHANGED vars
    BY <1>9 DEF vars, GivenBody
<1> QED
    BY <1>1, <1>2, <1>3, <1>4, <1>5, <1>6, <1>7, <1>8, <1>9 DEF Next, Select

\* The state keeps its types.
THEOREM TypeCorrect == Spec => []TypeOK
<1>1. Inv => TypeOK
    BY DEF Inv
<1> QED
    BY InitInv, NextInv, <1>1, PTL DEF Spec

\* run never blocks on resetTimer in a Do that found the channel empty.
THEOREM NeverBlocked == Spec => []NoBlockedSend
<1>1. Inv => NoBlockedSend
    BY DEF Inv, ChannelInv, NoBlockedSend
<1> QED
    BY InitInv, NextInv, <1>1, PTL DEF Spec

\* Do leaves no response body open but the one it returns without error.
THEOREM NoBodyLeaks == Spec => []BodiesAccountedFor
<1>1. Inv => BodiesAccountedFor
    BY DEF Inv
<1> QED
    BY InitInv, NextInv, <1>1, PTL DEF Spec

\* Every attempt of a request that can be replayed sends its whole body.
THEOREM BodiesReplayed == Spec => []ReplayedInFull
<1>1. Inv => ReplayedInFull
    BY DEF Inv, BodyInv, ReplayedInFull
<1> QED
    BY InitInv, NextInv, <1>1, PTL DEF Spec

\* Do implements BoundedRetry.
THEOREM ImplementsContract == Spec => ContractSpec
<1>1. Init => Contract!Init
    BY DEF Init, Contract!Init, Phase, Returned
<1>2. Inv /\ [Next]_vars => [Contract!Next]_(Contract!vars)
    <2> SUFFICES ASSUME Inv, [Next]_vars
                 PROVE  [Contract!Next]_(Contract!vars)
        OBVIOUS
    <2> USE HTTPRetrierAssumption
            DEF Inv, ValidOptions, counters, responses, history, Phase, Returned,
                Contract!vars, Contract!Next
    <2>1. CASE Do
        BY <2>1 DEF Do, Contract!Begin, TypeOK
    <2>2. CASE ContextDone \/ TimerFires \/ SelectReset \/ SendReset
        BY <2>2 DEF ContextDone, TimerFires, SelectReset, SendReset
    <2>3. CASE SelectDone
        BY <2>3 DEF SelectDone, Contract!Abandon, ChannelInv, Canceled, Nil
    <2>4. CASE SelectTimer
        <3>0. pc = "select" /\ remainingAttempts > 0
              /\ dos \in Nat \ {0} /\ dos' = dos
              /\ remainingAttempts' = remainingAttempts /\ remainingAttempts \in Nat
            BY <2>4 DEF SelectTimer, TypeOK, ChannelInv
        <3>1. CASE pc' = "sending"
            BY <3>0, <3>1 DEF Contract!Start
        <3>2. CASE pc' = "idle" /\ doError' = BodyError
            <4>1. Returned' = BodyError /\ Returned = NoResult
                BY <3>0, <3>2 DEF BodyError, Nil
            <4> QED
                BY <3>0, <3>2, <4>1 DEF Contract!Abandon
        <3> QED
            BY <2>4, <3>1, <3>2 DEF SelectTimer
    <2>5. ASSUME NEW o \in Outcomes, RunDecides(o)
          PROVE  Contract!Again(o) \/ Contract!Finish(o)
        <3>0. /\ pc = "sending" /\ remainingAttempts \in Nat \ {0}
              /\ remainingAttempts' = remainingAttempts - 1
              /\ dos \in Nat \ {0} /\ dos' = dos
            BY <2>5 DEF RunDecides, ClientReturn, TypeOK, ChannelInv, history
        <3>1. CASE remainingAttempts' = 0 \/ o \notin RetryOn
            <4>1. pc' = "idle"
                BY <2>5, <3>1 DEF RunDecides
            <4>2. o # ClientError => doResponse'.status = o
                BY <2>5 DEF RunDecides, ClientReturn, Response
            <4>3. Returned' = o
                BY <2>5, <3>0, <4>1, <4>2
                DEF RunDecides, ClientReturn, ClientError, Nil
            <4> QED
                BY <3>0, <3>1, <4>1, <4>3 DEF Contract!Finish
        <3>2. CASE ~(remainingAttempts' = 0 \/ o \notin RetryOn)
            <4>1. pc' = "send"
                BY <2>5, <3>2 DEF RunDecides
            <4> QED
                BY <3>0, <3>2, <4>1 DEF Contract!Again
        <3> QED
            BY <3>1, <3>2
    <2>6. CASE UNCHANGED vars
        BY <2>6 DEF vars
    <2> QED
        BY <2>1, <2>2, <2>3, <2>4, <2>5, <2>6 DEF Next, Select
<1> QED
    BY InitInv, NextInv, <1>1, <1>2, PTL
    DEF Spec, ContractSpec, Contract!Spec

-----------------------------------------------------------------------------
(* The delays.                                                             *)

\* The law of the powers of DelayFactor.  It is arithmetic, and the provers know
\* nothing of ^: they can neither unfold it nor prove this by induction.
PowersMultiply ==
    /\ DelayFactor ^ 0 = 1
    /\ \A k \in Nat : /\ DelayFactor ^ k \in Nat
                      /\ DelayFactor ^ (k + 1) = DelayFactor ^ k * DelayFactor

\* The delay d may come between attempt k and attempt k + 1.
Follows(d, k) == (\A x \in Backoff(k) : x <= MaxInt64) => d \in Backoff(k)

\* In a Do that found the channel empty, nextDelay is the delay to send next, and
\* the one delay under way, in the channel or in the timer, is that of the last
\* attempt.
DelayInv ==
    ~stale =>
        /\ pc \in {"sending", "send"} =>
               calls > 0 /\ nextDelay = Delay * DelayFactor ^ (calls - 1)
        /\ pc = "select" =>
               /\ nextDelay = Delay * DelayFactor ^ calls
               /\ calls = 0 => resetTimer = <<>> /\ timer.dur = 1
               /\ calls > 0 /\ resetTimer # <<>> => Follows(Head(resetTimer), calls)
               /\ calls > 0 /\ resetTimer = <<>> => Follows(timer.dur, calls)

\* Multiplying the delay multiplies the power.
LEMMA Associates ==
    ASSUME NEW x \in Nat, NEW y \in Nat, NEW z \in Nat
    PROVE  (x * y) * z = x * (y * z)
OBVIOUS

\* What run sends is the delay that follows the last attempt.
LEMMA SendsItsDelay ==
    ASSUME nextDelay \in Nat, NEW k \in Nat,
           nextDelay = Delay * DelayFactor ^ (k - 1), NEW d \in ResetDurations
    PROVE  Follows(d, k)
<1> USE HTTPRetrierAssumption DEF ValidOptions
<1> SUFFICES ASSUME \A x \in Backoff(k) : x <= MaxInt64
             PROVE  d \in Backoff(k)
    BY DEF Follows
<1>1. Backoff(k) = nextDelay .. (nextDelay + Jitter - 1)
    BY DEF Backoff
<1>2. PICK e \in Int64Of(nextDelay), j \in 0 .. (Jitter - 1) : d = WrapInt64(e + j)
    BY DEF ResetDurations
<1>3. nextDelay \in Backoff(k) /\ nextDelay + j \in Backoff(k)
    BY <1>1
<1>4. e = nextDelay
    BY <1>3 DEF Int64Of
<1>5. d = nextDelay + j
    BY <1>2, <1>3, <1>4 DEF WrapInt64
<1> QED
    BY <1>3, <1>5

\* Each step keeps the one delay under way that of the last attempt.
LEMMA DelayInvNext ==
    ASSUME PowersMultiply, Inv, DelayInv, [Next]_vars
    PROVE  DelayInv'
<1> USE DEF counters, responses, history
<1>1. CASE Do
    <2>1. /\ pc' = "select" /\ calls' = 0 /\ nextDelay' = Delay /\ timer'.dur = 1
          /\ ~stale' => resetTimer' = <<>>
        BY <1>1 DEF Do
    <2>2. Delay * DelayFactor ^ 0 = Delay
        <3>1. Delay * 1 = Delay
            BY HTTPRetrierAssumption DEF ValidOptions
        <3> QED
            BY <3>1 DEF PowersMultiply
    <2>3. nextDelay' = Delay * DelayFactor ^ calls'
        BY <2>1, <2>2
    <2> QED
        BY <2>1, <2>3 DEF DelayInv
<1>2. CASE ContextDone
    BY <1>2 DEF ContextDone, DelayInv, Follows, Backoff
<1>3. CASE TimerFires
    <2>1. timer'.dur = timer.dur /\ UNCHANGED <<pc, nextDelay, resetTimer, calls, stale>>
        BY <1>3 DEF TimerFires, Inv, TypeOK, Timers
    <2> QED
        BY <2>1 DEF DelayInv, Follows, Backoff
<1>4. CASE SelectDone
    BY <1>4 DEF SelectDone, DelayInv
<1>5. CASE SelectReset
    <2>1. /\ pc = "select" /\ resetTimer # <<>> /\ timer'.dur = Head(resetTimer)
          /\ resetTimer' = <<>> /\ UNCHANGED <<pc, nextDelay, calls, stale>>
        BY <1>5 DEF SelectReset, SetTimer, Inv, TypeOK
    <2> QED
        BY <2>1 DEF DelayInv, Follows, Backoff, Inv, TypeOK
<1>6. CASE SelectTimer
    <2>1. /\ pc = "select" /\ pc' \in {"sending", "idle"} /\ calls' = calls + 1 /\ calls \in Nat
          /\ UNCHANGED <<nextDelay, stale>>
        BY <1>6 DEF SelectTimer, Inv, TypeOK
    <2>2. calls' - 1 = calls /\ calls' > 0
        BY <2>1
    <2> QED
        BY <2>1, <2>2 DEF DelayInv
<1>7. ASSUME NEW o \in Outcomes, RunDecides(o) PROVE DelayInv'
    BY <1>7 DEF RunDecides, ClientReturn, DelayInv
<1>8. CASE SendReset
    <2> SUFFICES ASSUME ~stale' PROVE DelayInv'
        BY DEF DelayInv
    <2>1. /\ pc = "send" /\ pc' = "select" /\ resetTimer = <<>>
          /\ nextDelay' = nextDelay * DelayFactor
          /\ UNCHANGED <<calls, stale>>
        BY <1>8 DEF SendReset
    <2>2. PICK d \in ResetDurations : resetTimer' = <<d>>
        BY <1>8 DEF SendReset
    <2>3. /\ calls \in Nat /\ calls > 0 /\ nextDelay \in Nat
          /\ nextDelay = Delay * DelayFactor ^ (calls - 1)
        BY <2>1 DEF DelayInv, Inv, TypeOK
    <2>4. nextDelay' = Delay * DelayFactor ^ calls
        <3>1. calls - 1 \in Nat /\ (calls - 1) + 1 = calls
            BY <2>3
        <3>2. /\ DelayFactor ^ (calls - 1) \in Nat
              /\ DelayFactor ^ calls = DelayFactor ^ (calls - 1) * DelayFactor
            BY <3>1 DEF PowersMultiply
        <3> QED
            BY <2>1, <2>3, <3>2, Associates, HTTPRetrierAssumption DEF ValidOptions
    <2>5. Follows(d, calls)
        BY <2>3, SendsItsDelay
    <2>6. Head(resetTimer') = d /\ resetTimer' # <<>>
        BY <2>2
    <2> QED
        BY <2>1, <2>3, <2>4, <2>5, <2>6 DEF DelayInv, Follows, Backoff
<1>9. CASE UNCHANGED vars
    BY <1>9 DEF vars, DelayInv, Follows, Backoff
<1> QED
    BY <1>1, <1>2, <1>3, <1>4, <1>5, <1>6, <1>7, <1>8, <1>9 DEF Next, Select

\* Every attempt of a Do that found the channel empty is started by a timer that
\* was armed after the attempt before it, with the delay of that attempt: the
\* delay, multiplied by the factor once for each attempt before, and the jitter.
THEOREM EachAfterItsDelay ==
    ASSUME PowersMultiply
    PROVE  Spec => AttemptAfterItsDelay
<1>1. Init => DelayInv
    BY DEF Init, DelayInv
<1>2. Inv /\ DelayInv /\ [Next]_vars => DelayInv'
    BY DelayInvNext
<1>3. Inv /\ DelayInv /\ [Next]_vars =>
          [SelectTimer /\ ~stale =>
              IF calls = 0 THEN timer.dur = 1
              ELSE (\A d \in Backoff(calls) : d <= MaxInt64)
                       => timer.dur \in Backoff(calls)]_vars
    <2> SUFFICES ASSUME Inv, DelayInv, SelectTimer, ~stale
                 PROVE  IF calls = 0 THEN timer.dur = 1
                        ELSE (\A d \in Backoff(calls) : d <= MaxInt64)
                                 => timer.dur \in Backoff(calls)
        OBVIOUS
    <2>1. pc = "select" /\ timer.st = "fired" /\ calls \in Nat
        BY DEF SelectTimer, Inv, TypeOK
    <2>2. resetTimer = <<>>
        BY <2>1 DEF Inv, ChannelInv
    <2> QED
        BY <2>1, <2>2 DEF DelayInv, Follows
<1> QED
    BY <1>1, <1>2, <1>3, InitInv, NextInv, PTL DEF Spec, AttemptAfterItsDelay
=============================================================================
