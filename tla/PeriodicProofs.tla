---------------------------- MODULE PeriodicProofs ----------------------------
(***************************************************************************)
(* Proofs about Periodic, for any interval, jitter and number of Starts:   *)
(* types, NoBlockedSend and CallsAreSpaced.                                *)
(*                                                                         *)
(* While "clean" holds, the only loop that runs is that of the last Start, *)
(* and it waits on the timer it made.  Then the timer and the channel hold *)
(* one token between them: a delay is in the channel only when the timer   *)
(* has been spent by the pass that sent it.                                *)
(***************************************************************************)
EXTENDS Periodic, SequenceTheorems, TLAPS

\* The loop i runs: it has neither ended nor gone with the process.
Runs(i) == pc[i] \in {"created", "pass", "select", "task", "send"}

\* The delays that run sends.
Delays == Interval .. (Interval + Jitter - 1)

\* The timer and the channel of the one loop that runs.
Token(i) ==
    /\ pc[i] = "created" => resetTimer = <<>> /\ ~ran[i]
    /\ pc[i] # "created" => pTimer = i
    /\ pc[i] = "select" => waitsOn[i].timer = i
    /\ pc[i] \in {"pass", "select"} => timers[i].st = "spent" \/ resetTimer = <<>>
    /\ pc[i] \in {"task", "send"} => timers[i].st = "spent" /\ resetTimer = <<>>
    /\ pc[i] # "created" /\ ran[i] /\ timers[i].st # "spent" => timers[i].dur \in Delays

\* Only the loop of the last Start runs.
Alone == clean => \A i \in Starts : Runs(i) => i = started /\ Token(i)

\* A loop that has not begun has not run the task.
Fresh == \A i \in Starts : /\ pc[i] = "none" => ~ran[i]
                           /\ pc[i] = "created" => i <= started

\* The channel holds what a loop has sent.
Sent == resetTimer # <<>> => Head(resetTimer) \in Delays

IInv == TypeOK /\ Alone /\ Fresh /\ Sent

\* What the actions do to a channel of capacity one.
LEMMA Channel ==
    ASSUME resetTimer \in Seq(Nat), Len(resetTimer) <= 1
    PROVE  /\ resetTimer # <<>> => Head(resetTimer) \in Nat /\ Tail(resetTimer) = <<>>
           /\ \A d \in Nat : resetTimer = <<>> =>
                  /\ Append(resetTimer, d) \in Seq(Nat)
                  /\ Append(resetTimer, d) # <<>>
                  /\ Head(Append(resetTimer, d)) = d
                  /\ Len(Append(resetTimer, d)) = 1
<1>1. resetTimer # <<>> => Head(resetTimer) \in Nat /\ Tail(resetTimer) = <<>>
  <2>1. ASSUME resetTimer # <<>>
        PROVE  Head(resetTimer) \in Nat /\ Tail(resetTimer) = <<>>
    <3>1. Len(resetTimer) = 1
      BY <2>1, EmptySeq
    <3>2. /\ Head(resetTimer) \in Nat /\ Tail(resetTimer) \in Seq(Nat)
          /\ Len(Tail(resetTimer)) = 0
      BY <2>1, <3>1, HeadTailProperties
    <3> QED
      BY <3>2, EmptySeq
  <2> QED
    BY <2>1
<1>2. ASSUME NEW d \in Nat, resetTimer = <<>>
      PROVE  /\ Append(resetTimer, d) \in Seq(Nat)
             /\ Append(resetTimer, d) # <<>>
             /\ Head(Append(resetTimer, d)) = d
             /\ Len(Append(resetTimer, d)) = 1
  <2>1. Append(resetTimer, d) = <<d>>
    BY <1>2
  <2> QED
    BY <2>1
<1> QED
  BY <1>1, <1>2

\* A wider range of Starts.
LEMMA Wider ==
    ASSUME NEW A, NEW B, A \subseteq B, NEW f \in [Starts -> [ctx : A, timer : A]]
    PROVE  f \in [Starts -> [ctx : B, timer : B]]
<1>1. ASSUME NEW r \in [ctx : A, timer : A]
      PROVE  r \in [ctx : B, timer : B]
  OBVIOUS
<1> QED
  BY <1>1

\* A timer goes into another state, and every timer keeps its duration.
LEMMA TimerState ==
    ASSUME timers \in [Starts -> Timers], NEW t, NEW x \in {"armed", "fired", "spent"},
           timers' = [timers EXCEPT ![t].st = x]
    PROVE  /\ timers' \in [Starts -> Timers]
           /\ \A u \in Starts : /\ timers'[u].dur = timers[u].dur
                                /\ timers'[u].st = IF u = t THEN x ELSE timers[u].st
<1>1. ASSUME NEW u \in Starts
      PROVE  /\ timers'[u] = IF u = t THEN [timers[u] EXCEPT !.st = x] ELSE timers[u]
             /\ timers[u] \in Timers
  OBVIOUS
<1>2. ASSUME NEW r \in Timers
      PROVE  /\ [r EXCEPT !.st = x] \in Timers
             /\ [r EXCEPT !.st = x].dur = r.dur
             /\ [r EXCEPT !.st = x].st = x
  BY DEF Timers
<1>3. DOMAIN timers' = Starts
  OBVIOUS
<1>4. \A u \in Starts : /\ timers'[u] \in Timers
                        /\ timers'[u].dur = timers[u].dur
                        /\ timers'[u].st = IF u = t THEN x ELSE timers[u].st
  BY <1>1, <1>2
<1>5. timers' = [u \in Starts |-> timers'[u]]
  BY <1>3
<1> QED
  BY <1>4, <1>5

\* Initially nothing has been started.
LEMMA IInvInit == Init => IInv
BY PeriodicAssumption
   DEF NewAccepts, Init, IInv, TypeOK, Alone, Fresh, Sent, Runs, Starts, None, Points, Timers

-----------------------------------------------------------------------------
(* The invariant is kept by each action: one lemma for each. *)

LEMMA StartKeeps ==
    ASSUME IInv, Start
    PROVE  IInv'
<1> USE PeriodicAssumption, Channel DEF NewAccepts, Starts, None, control, goroutines, history
<1>1. TypeOK'
  <2>1. started' \in 0 .. MaxStarts /\ ctx' \in 0 .. started'
    BY DEF Start, IInv, TypeOK, Points, Timers
  <2>2. done' \in [Starts -> BOOLEAN]
    BY DEF Start, IInv, TypeOK, Points, Timers
  <2>3. pTimer' \in 0 .. started'
    BY DEF Start, IInv, TypeOK, Points, Timers
  <2>4. timers' \in [Starts -> Timers]
    BY DEF Start, IInv, TypeOK, Points, Timers
  <2>5. resetTimer' \in Seq(Nat) /\ Len(resetTimer') <= 1
    BY DEF Start, IInv, TypeOK, Points, Timers
  <2>6. pc' \in [Starts -> Points]
    BY DEF Start, IInv, TypeOK, Points, Timers
  <2>7. waitsOn' \in [Starts -> [ctx : 0 .. started', timer : 0 .. started']]
    <3>1. 0 .. started \subseteq 0 .. started'
      BY DEF Start, IInv, TypeOK
    <3>2. waitsOn \in [Starts -> [ctx : 0 .. started', timer : 0 .. started']]
      BY <3>1, Wider DEF IInv, TypeOK
    <3> QED
      BY <3>2 DEF Start
  <2>8. deferred' \in [Starts -> 0 .. started']
    <3>1. 0 .. started \subseteq 0 .. started'
      BY DEF Start, IInv, TypeOK
    <3>2. deferred \in [Starts -> 0 .. started]
      BY DEF IInv, TypeOK
    <3> QED
      BY <3>1, <3>2 DEF Start
  <2>9. ran' \in [Starts -> BOOLEAN]
    BY DEF Start, IInv, TypeOK, Points, Timers
  <2>10. alone' \in BOOLEAN /\ clean' \in BOOLEAN
    BY DEF Start, IInv, TypeOK, Points, Timers
  <2> QED
    BY <2>1, <2>2, <2>3, <2>4, <2>5, <2>6, <2>7, <2>8, <2>9, <2>10 DEF TypeOK
<1>2. Alone'
  <2>1. /\ started + 1 \in Starts /\ pc[started + 1] = "none" /\ started' = started + 1
        /\ pc' = [pc EXCEPT ![started + 1] = "created"]
        /\ UNCHANGED <<resetTimer, ran>>
    BY DEF Start
  <2>2. clean' => (\A j \in Starts : ~Live(j)) /\ resetTimer = <<>>
    BY DEF Start
  <2>3. ASSUME clean', NEW j \in Starts, Runs(j)'
        PROVE  j = started' /\ Token(j)'
    <3>1. j = started + 1
      BY <2>1, <2>2, <2>3 DEF IInv, TypeOK, Runs, Live
    <3>2. pc'[j] = "created"
      BY <2>1, <3>1 DEF IInv, TypeOK
    <3>3. ~ran[j]
      <4>1. pc[j] = "none"
        BY <2>1, <3>1
      <4>2. Fresh
        BY DEF IInv
      <4> QED
        BY <2>3, <4>1, <4>2 DEF Fresh
    <3> QED
      BY <2>1, <2>2, <2>3, <3>1, <3>2, <3>3 DEF Token
  <2> QED
    BY <2>3 DEF Alone
<1>3. Fresh'
  <2>1. ASSUME NEW j \in Starts
        PROVE  (pc'[j] = "none" => ~ran'[j]) /\ (pc'[j] = "created" => j <= started')
    <3>1. CASE j = started + 1
      BY <3>1 DEF Start, IInv, TypeOK
    <3>2. CASE j # started + 1
      <4>1. pc'[j] = pc[j] /\ started' = started + 1 /\ ran' = ran /\ started \in Int
        BY <3>2 DEF Start, IInv, TypeOK
      <4>2. (pc[j] = "none" => ~ran[j]) /\ (pc[j] = "created" => j <= started)
        BY DEF IInv, Fresh
      <4> QED
        BY <4>1, <4>2
    <3> QED
      BY <3>1, <3>2
  <2> QED
    BY <2>1 DEF Fresh
<1>4. Sent'
  BY DEF Start, IInv, TypeOK, Sent, Delays
<1> QED
  BY <1>1, <1>2, <1>3, <1>4 DEF IInv

LEMMA StopKeeps ==
    ASSUME IInv, Stop
    PROVE  IInv'
<1> USE PeriodicAssumption, Channel DEF NewAccepts, Starts, None, control, goroutines, history
<1>1. TypeOK'
  <2>1. started' \in 0 .. MaxStarts /\ ctx' \in 0 .. started'
    BY DEF Stop, IInv, TypeOK, Points, Timers
  <2>2. done' \in [Starts -> BOOLEAN]
    BY DEF Stop, IInv, TypeOK, Points, Timers
  <2>3. pTimer' \in 0 .. started'
    BY DEF Stop, IInv, TypeOK, Points, Timers
  <2>4. timers' \in [Starts -> Timers]
    BY DEF Stop, IInv, TypeOK, Points, Timers
  <2>5. resetTimer' \in Seq(Nat) /\ Len(resetTimer') <= 1
    BY DEF Stop, IInv, TypeOK, Points, Timers
  <2>6. pc' \in [Starts -> Points]
    BY DEF Stop, IInv, TypeOK, Points, Timers
  <2>7. waitsOn' \in [Starts -> [ctx : 0 .. started', timer : 0 .. started']]
    BY DEF Stop, IInv, TypeOK, Points, Timers
  <2>8. deferred' \in [Starts -> 0 .. started']
    BY DEF Stop, IInv, TypeOK, Points, Timers
  <2>9. ran' \in [Starts -> BOOLEAN]
    BY DEF Stop, IInv, TypeOK, Points, Timers
  <2>10. alone' \in BOOLEAN /\ clean' \in BOOLEAN
    BY DEF Stop, IInv, TypeOK, Points, Timers
  <2> QED
    BY <2>1, <2>2, <2>3, <2>4, <2>5, <2>6, <2>7, <2>8, <2>9, <2>10 DEF TypeOK
<1>2. Alone'
  BY DEF Stop, IInv, TypeOK, Timers, Alone, Fresh, Sent, Runs, Token, Delays
<1>3. Fresh'
  BY DEF Stop, IInv, TypeOK, Fresh
<1>4. Sent'
  BY DEF Stop, IInv, TypeOK, Sent, Delays
<1> QED
  BY <1>1, <1>2, <1>3, <1>4 DEF IInv

LEMMA ParentDoneKeeps ==
    ASSUME IInv, NEW i \in Starts, ParentDone(i)
    PROVE  IInv'
<1> USE PeriodicAssumption, Channel DEF NewAccepts, Starts, None, control, goroutines, history
<1>1. TypeOK'
  <2>1. started' \in 0 .. MaxStarts /\ ctx' \in 0 .. started'
    BY DEF ParentDone, IInv, TypeOK, Points, Timers
  <2>2. done' \in [Starts -> BOOLEAN]
    BY DEF ParentDone, IInv, TypeOK, Points, Timers
  <2>3. pTimer' \in 0 .. started'
    BY DEF ParentDone, IInv, TypeOK, Points, Timers
  <2>4. timers' \in [Starts -> Timers]
    BY DEF ParentDone, IInv, TypeOK, Points, Timers
  <2>5. resetTimer' \in Seq(Nat) /\ Len(resetTimer') <= 1
    BY DEF ParentDone, IInv, TypeOK, Points, Timers
  <2>6. pc' \in [Starts -> Points]
    BY DEF ParentDone, IInv, TypeOK, Points, Timers
  <2>7. waitsOn' \in [Starts -> [ctx : 0 .. started', timer : 0 .. started']]
    BY DEF ParentDone, IInv, TypeOK, Points, Timers
  <2>8. deferred' \in [Starts -> 0 .. started']
    BY DEF ParentDone, IInv, TypeOK, Points, Timers
  <2>9. ran' \in [Starts -> BOOLEAN]
    BY DEF ParentDone, IInv, TypeOK, Points, Timers
  <2>10. alone' \in BOOLEAN /\ clean' \in BOOLEAN
    BY DEF ParentDone, IInv, TypeOK, Points, Timers
  <2> QED
    BY <2>1, <2>2, <2>3, <2>4, <2>5, <2>6, <2>7, <2>8, <2>9, <2>10 DEF TypeOK
<1>2. Alone'
  BY DEF ParentDone, IInv, TypeOK, Timers, Alone, Fresh, Sent, Runs, Token, Delays
<1>3. Fresh'
  BY DEF ParentDone, IInv, TypeOK, Fresh
<1>4. Sent'
  BY DEF ParentDone, IInv, TypeOK, Sent, Delays
<1> QED
  BY <1>1, <1>2, <1>3, <1>4 DEF IInv

LEMMA BeginKeeps ==
    ASSUME IInv, NEW i \in Starts, Begin(i)
    PROVE  IInv'
<1> USE PeriodicAssumption, Channel DEF NewAccepts, Starts, None, control, goroutines, history
<1>1. TypeOK'
  <2>1. started' \in 0 .. MaxStarts /\ ctx' \in 0 .. started'
    BY DEF Begin, IInv, TypeOK, Points, Timers
  <2>2. done' \in [Starts -> BOOLEAN]
    BY DEF Begin, IInv, TypeOK, Points, Timers
  <2>3. pTimer' \in 0 .. started'
    BY DEF Begin, IInv, TypeOK, Fresh
  <2>4. timers' \in [Starts -> Timers]
    BY DEF Begin, IInv, TypeOK, Points, Timers
  <2>5. resetTimer' \in Seq(Nat) /\ Len(resetTimer') <= 1
    BY DEF Begin, IInv, TypeOK, Points, Timers
  <2>6. pc' \in [Starts -> Points]
    BY DEF Begin, IInv, TypeOK, Points, Timers
  <2>7. waitsOn' \in [Starts -> [ctx : 0 .. started', timer : 0 .. started']]
    BY DEF Begin, IInv, TypeOK, Points, Timers
  <2>8. deferred' \in [Starts -> 0 .. started']
    BY DEF Begin, IInv, TypeOK, Points, Timers
  <2>9. ran' \in [Starts -> BOOLEAN]
    BY DEF Begin, IInv, TypeOK, Points, Timers
  <2>10. alone' \in BOOLEAN /\ clean' \in BOOLEAN
    BY DEF Begin, IInv, TypeOK, Points, Timers
  <2> QED
    BY <2>1, <2>2, <2>3, <2>4, <2>5, <2>6, <2>7, <2>8, <2>9, <2>10 DEF TypeOK
<1>2. Alone'
  BY DEF Begin, IInv, TypeOK, Timers, Alone, Fresh, Sent, Runs, Token, Delays
<1>3. Fresh'
  BY DEF Begin, IInv, TypeOK, Fresh
<1>4. Sent'
  BY DEF Begin, IInv, TypeOK, Sent, Delays
<1> QED
  BY <1>1, <1>2, <1>3, <1>4 DEF IInv

LEMMA PassKeeps ==
    ASSUME IInv, NEW i \in Starts, Pass(i)
    PROVE  IInv'
<1> USE PeriodicAssumption, Channel DEF NewAccepts, Starts, None, control, goroutines, history
<1>1. TypeOK'
  <2>1. started' \in 0 .. MaxStarts /\ ctx' \in 0 .. started'
    BY DEF Pass, IInv, TypeOK, Points, Timers
  <2>2. done' \in [Starts -> BOOLEAN]
    BY DEF Pass, IInv, TypeOK, Points, Timers
  <2>3. pTimer' \in 0 .. started'
    BY DEF Pass, IInv, TypeOK, Points, Timers
  <2>4. timers' \in [Starts -> Timers]
    BY DEF Pass, IInv, TypeOK, Points, Timers
  <2>5. resetTimer' \in Seq(Nat) /\ Len(resetTimer') <= 1
    BY DEF Pass, IInv, TypeOK, Points, Timers
  <2>6. pc' \in [Starts -> Points]
    BY DEF Pass, IInv, TypeOK, Points, Timers
  <2>7. waitsOn' \in [Starts -> [ctx : 0 .. started', timer : 0 .. started']]
    BY DEF Pass, IInv, TypeOK, Points, Timers
  <2>8. deferred' \in [Starts -> 0 .. started']
    BY DEF Pass, IInv, TypeOK, Points, Timers
  <2>9. ran' \in [Starts -> BOOLEAN]
    BY DEF Pass, IInv, TypeOK, Points, Timers
  <2>10. alone' \in BOOLEAN /\ clean' \in BOOLEAN
    BY DEF Pass, IInv, TypeOK, Points, Timers
  <2> QED
    BY <2>1, <2>2, <2>3, <2>4, <2>5, <2>6, <2>7, <2>8, <2>9, <2>10 DEF TypeOK
<1>2. Alone'
  BY DEF Pass, IInv, TypeOK, Timers, Alone, Fresh, Sent, Runs, Token, Delays
<1>3. Fresh'
  BY DEF Pass, IInv, TypeOK, Fresh
<1>4. Sent'
  BY DEF Pass, IInv, TypeOK, Sent, Delays
<1> QED
  BY <1>1, <1>2, <1>3, <1>4 DEF IInv

LEMMA SelectDoneKeeps ==
    ASSUME IInv, NEW i \in Starts, SelectDone(i)
    PROVE  IInv'
<1> USE PeriodicAssumption, Channel DEF NewAccepts, Starts, None, control, goroutines, history
<1>1. TypeOK'
  <2>1. started' \in 0 .. MaxStarts /\ ctx' \in 0 .. started'
    BY DEF SelectDone, IInv, TypeOK, Points, Timers
  <2>2. done' \in [Starts -> BOOLEAN]
    BY DEF SelectDone, IInv, TypeOK, Points, Timers
  <2>3. pTimer' \in 0 .. started'
    BY DEF SelectDone, IInv, TypeOK, Points, Timers
  <2>4. timers' \in [Starts -> Timers]
    BY DEF SelectDone, IInv, TypeOK, Points, Timers
  <2>5. resetTimer' \in Seq(Nat) /\ Len(resetTimer') <= 1
    BY DEF SelectDone, IInv, TypeOK, Points, Timers
  <2>6. pc' \in [Starts -> Points]
    BY DEF SelectDone, IInv, TypeOK, Points, Timers
  <2>7. waitsOn' \in [Starts -> [ctx : 0 .. started', timer : 0 .. started']]
    BY DEF SelectDone, IInv, TypeOK, Points, Timers
  <2>8. deferred' \in [Starts -> 0 .. started']
    BY DEF SelectDone, IInv, TypeOK, Points, Timers
  <2>9. ran' \in [Starts -> BOOLEAN]
    BY DEF SelectDone, IInv, TypeOK, Points, Timers
  <2>10. alone' \in BOOLEAN /\ clean' \in BOOLEAN
    BY DEF SelectDone, IInv, TypeOK, Points, Timers
  <2> QED
    BY <2>1, <2>2, <2>3, <2>4, <2>5, <2>6, <2>7, <2>8, <2>9, <2>10 DEF TypeOK
<1>2. Alone'
  BY DEF SelectDone, IInv, TypeOK, Timers, Alone, Fresh, Sent, Runs, Token, Delays
<1>3. Fresh'
  BY DEF SelectDone, IInv, TypeOK, Fresh
<1>4. Sent'
  BY DEF SelectDone, IInv, TypeOK, Sent, Delays
<1> QED
  BY <1>1, <1>2, <1>3, <1>4 DEF IInv

LEMMA SelectResetKeeps ==
    ASSUME IInv, NEW i \in Starts, SelectReset(i)
    PROVE  IInv'
<1> USE PeriodicAssumption, Channel DEF NewAccepts, Starts, None, control, goroutines, history
<1>1. TypeOK'
  <2>1. started' \in 0 .. MaxStarts /\ ctx' \in 0 .. started'
    BY DEF SelectReset, SetTimer, IInv, TypeOK, Points, Timers
  <2>2. done' \in [Starts -> BOOLEAN]
    BY DEF SelectReset, SetTimer, IInv, TypeOK, Points, Timers
  <2>3. pTimer' \in 0 .. started'
    BY DEF SelectReset, SetTimer, IInv, TypeOK, Points, Timers
  <2>4. timers' \in [Starts -> Timers]
    BY DEF SelectReset, SetTimer, IInv, TypeOK, Points, Timers
  <2>5. resetTimer' \in Seq(Nat) /\ Len(resetTimer') <= 1
    BY DEF SelectReset, SetTimer, IInv, TypeOK, Points, Timers
  <2>6. pc' \in [Starts -> Points]
    BY DEF SelectReset, SetTimer, IInv, TypeOK, Points, Timers
  <2>7. waitsOn' \in [Starts -> [ctx : 0 .. started', timer : 0 .. started']]
    BY DEF SelectReset, SetTimer, IInv, TypeOK, Points, Timers
  <2>8. deferred' \in [Starts -> 0 .. started']
    BY DEF SelectReset, SetTimer, IInv, TypeOK, Points, Timers
  <2>9. ran' \in [Starts -> BOOLEAN]
    BY DEF SelectReset, SetTimer, IInv, TypeOK, Points, Timers
  <2>10. alone' \in BOOLEAN /\ clean' \in BOOLEAN
    BY DEF SelectReset, SetTimer, IInv, TypeOK, Points, Timers
  <2> QED
    BY <2>1, <2>2, <2>3, <2>4, <2>5, <2>6, <2>7, <2>8, <2>9, <2>10 DEF TypeOK
<1>2. Alone'
  BY DEF SelectReset, SetTimer, IInv, TypeOK, Timers, Alone, Fresh, Sent, Runs, Token, Delays
<1>3. Fresh'
  BY DEF SelectReset, SetTimer, IInv, TypeOK, Fresh
<1>4. Sent'
  BY DEF SelectReset, SetTimer, IInv, TypeOK, Sent, Delays
<1> QED
  BY <1>1, <1>2, <1>3, <1>4 DEF IInv

LEMMA SelectTimerKeeps ==
    ASSUME IInv, NEW i \in Starts, SelectTimer(i)
    PROVE  IInv'
<1> USE PeriodicAssumption, Channel DEF NewAccepts, Starts, None, control, goroutines, history
<1>1. TypeOK'
  <2>1. started' \in 0 .. MaxStarts /\ ctx' \in 0 .. started'
    BY DEF SelectTimer, IInv, TypeOK, Points, Timers
  <2>2. done' \in [Starts -> BOOLEAN]
    BY DEF SelectTimer, IInv, TypeOK, Points, Timers
  <2>3. pTimer' \in 0 .. started'
    BY DEF SelectTimer, IInv, TypeOK, Points, Timers
  <2>4. timers' \in [Starts -> Timers]
    BY TimerState DEF SelectTimer, IInv, TypeOK
  <2>5. resetTimer' \in Seq(Nat) /\ Len(resetTimer') <= 1
    BY DEF SelectTimer, IInv, TypeOK, Points, Timers
  <2>6. pc' \in [Starts -> Points]
    BY DEF SelectTimer, IInv, TypeOK, Points, Timers
  <2>7. waitsOn' \in [Starts -> [ctx : 0 .. started', timer : 0 .. started']]
    BY DEF SelectTimer, IInv, TypeOK, Points, Timers
  <2>8. deferred' \in [Starts -> 0 .. started']
    BY DEF SelectTimer, IInv, TypeOK, Points, Timers
  <2>9. ran' \in [Starts -> BOOLEAN]
    BY DEF SelectTimer, IInv, TypeOK, Points, Timers
  <2>10. alone' \in BOOLEAN /\ clean' \in BOOLEAN
    BY DEF SelectTimer, IInv, TypeOK, Points, Timers
  <2> QED
    BY <2>1, <2>2, <2>3, <2>4, <2>5, <2>6, <2>7, <2>8, <2>9, <2>10 DEF TypeOK
<1>2. Alone'
  <2>1. /\ pc[i] = "select" /\ timers[waitsOn[i].timer].st = "fired"
        /\ timers' = [timers EXCEPT ![waitsOn[i].timer].st = "spent"]
        /\ pc' = [pc EXCEPT ![i] = "task"]
        /\ ran' = [ran EXCEPT ![i] = TRUE]
        /\ UNCHANGED <<started, pTimer, resetTimer, waitsOn, clean>>
    BY DEF SelectTimer
  <2>2. \A u \in Starts : timers'[u].st = IF u = waitsOn[i].timer THEN "spent" ELSE timers[u].st
    BY <2>1, TimerState DEF IInv, TypeOK
  <2>3. ASSUME clean, NEW j \in Starts, Runs(j)'
        PROVE  j = started /\ Token(j)'
    <3>1. i = started /\ pTimer = i /\ waitsOn[i].timer = i /\ resetTimer = <<>>
      BY <2>1, <2>3 DEF IInv, Alone, Runs, Token
    <3>2. j = i
      BY <2>1, <2>3, <3>1 DEF IInv, TypeOK, Alone, Runs
    <3>3. pc'[i] = "task" /\ timers'[i].st = "spent"
      BY <2>1, <2>2, <3>1 DEF IInv, TypeOK
    <3> QED
      BY <2>1, <3>1, <3>2, <3>3 DEF Token
  <2> QED
    BY <2>1, <2>3 DEF Alone
<1>3. Fresh'
  BY DEF SelectTimer, IInv, TypeOK, Fresh
<1>4. Sent'
  BY DEF SelectTimer, IInv, TypeOK, Sent, Delays
<1> QED
  BY <1>1, <1>2, <1>3, <1>4 DEF IInv

LEMMA SendResetKeeps ==
    ASSUME IInv, NEW i \in Starts, SendReset(i)
    PROVE  IInv'
<1> USE PeriodicAssumption, Channel DEF NewAccepts, Starts, None, control, goroutines, history
<1>1. TypeOK'
  <2>1. started' \in 0 .. MaxStarts /\ ctx' \in 0 .. started'
    BY DEF SendReset, IInv, TypeOK, Points, Timers
  <2>2. done' \in [Starts -> BOOLEAN]
    BY DEF SendReset, IInv, TypeOK, Points, Timers
  <2>3. pTimer' \in 0 .. started'
    BY DEF SendReset, IInv, TypeOK, Points, Timers
  <2>4. timers' \in [Starts -> Timers]
    BY DEF SendReset, IInv, TypeOK, Points, Timers
  <2>5. resetTimer' \in Seq(Nat) /\ Len(resetTimer') <= 1
    BY DEF SendReset, IInv, TypeOK, Points, Timers
  <2>6. pc' \in [Starts -> Points]
    BY DEF SendReset, IInv, TypeOK, Points, Timers
  <2>7. waitsOn' \in [Starts -> [ctx : 0 .. started', timer : 0 .. started']]
    BY DEF SendReset, IInv, TypeOK, Points, Timers
  <2>8. deferred' \in [Starts -> 0 .. started']
    BY DEF SendReset, IInv, TypeOK, Points, Timers
  <2>9. ran' \in [Starts -> BOOLEAN]
    BY DEF SendReset, IInv, TypeOK, Points, Timers
  <2>10. alone' \in BOOLEAN /\ clean' \in BOOLEAN
    BY DEF SendReset, IInv, TypeOK, Points, Timers
  <2> QED
    BY <2>1, <2>2, <2>3, <2>4, <2>5, <2>6, <2>7, <2>8, <2>9, <2>10 DEF TypeOK
<1>2. Alone'
  BY DEF SendReset, IInv, TypeOK, Timers, Alone, Fresh, Sent, Runs, Token, Delays
<1>3. Fresh'
  BY DEF SendReset, IInv, TypeOK, Fresh
<1>4. Sent'
  BY DEF SendReset, IInv, TypeOK, Sent, Delays
<1> QED
  BY <1>1, <1>2, <1>3, <1>4 DEF IInv

LEMMA TaskReturnsKeeps ==
    ASSUME IInv, NEW i \in Starts, TaskReturns(i)
    PROVE  IInv'
<1> USE PeriodicAssumption, Channel DEF NewAccepts, Starts, None, control, goroutines, history
<1>1. TypeOK'
  <2>1. started' \in 0 .. MaxStarts /\ ctx' \in 0 .. started'
    BY DEF TaskReturns, IInv, TypeOK, Points, Timers
  <2>2. done' \in [Starts -> BOOLEAN]
    BY DEF TaskReturns, IInv, TypeOK, Points, Timers
  <2>3. pTimer' \in 0 .. started'
    BY DEF TaskReturns, IInv, TypeOK, Points, Timers
  <2>4. timers' \in [Starts -> Timers]
    BY DEF TaskReturns, IInv, TypeOK, Points, Timers
  <2>5. resetTimer' \in Seq(Nat) /\ Len(resetTimer') <= 1
    BY DEF TaskReturns, IInv, TypeOK, Points, Timers
  <2>6. pc' \in [Starts -> Points]
    BY DEF TaskReturns, IInv, TypeOK, Points, Timers
  <2>7. waitsOn' \in [Starts -> [ctx : 0 .. started', timer : 0 .. started']]
    BY DEF TaskReturns, IInv, TypeOK, Points, Timers
  <2>8. deferred' \in [Starts -> 0 .. started']
    BY DEF TaskReturns, IInv, TypeOK, Points, Timers
  <2>9. ran' \in [Starts -> BOOLEAN]
    BY DEF TaskReturns, IInv, TypeOK, Points, Timers
  <2>10. alone' \in BOOLEAN /\ clean' \in BOOLEAN
    BY DEF TaskReturns, IInv, TypeOK, Points, Timers
  <2> QED
    BY <2>1, <2>2, <2>3, <2>4, <2>5, <2>6, <2>7, <2>8, <2>9, <2>10 DEF TypeOK
<1>2. Alone'
  BY DEF TaskReturns, IInv, TypeOK, Timers, Alone, Fresh, Sent, Runs, Token, Delays
<1>3. Fresh'
  BY DEF TaskReturns, IInv, TypeOK, Fresh
<1>4. Sent'
  BY DEF TaskReturns, IInv, TypeOK, Sent, Delays
<1> QED
  BY <1>1, <1>2, <1>3, <1>4 DEF IInv

LEMMA TimerFiresKeeps ==
    ASSUME IInv, NEW t \in Starts, TimerFires(t)
    PROVE  IInv'
<1> USE PeriodicAssumption, Channel DEF NewAccepts, Starts, None, control, goroutines, history
<1>1. TypeOK'
  <2>1. started' \in 0 .. MaxStarts /\ ctx' \in 0 .. started'
    BY DEF TimerFires, IInv, TypeOK, Points, Timers
  <2>2. done' \in [Starts -> BOOLEAN]
    BY DEF TimerFires, IInv, TypeOK, Points, Timers
  <2>3. pTimer' \in 0 .. started'
    BY DEF TimerFires, IInv, TypeOK, Points, Timers
  <2>4. timers' \in [Starts -> Timers]
    BY TimerState DEF TimerFires, IInv, TypeOK
  <2>5. resetTimer' \in Seq(Nat) /\ Len(resetTimer') <= 1
    BY DEF TimerFires, IInv, TypeOK, Points, Timers
  <2>6. pc' \in [Starts -> Points]
    BY DEF TimerFires, IInv, TypeOK, Points, Timers
  <2>7. waitsOn' \in [Starts -> [ctx : 0 .. started', timer : 0 .. started']]
    BY DEF TimerFires, IInv, TypeOK, Points, Timers
  <2>8. deferred' \in [Starts -> 0 .. started']
    BY DEF TimerFires, IInv, TypeOK, Points, Timers
  <2>9. ran' \in [Starts -> BOOLEAN]
    BY DEF TimerFires, IInv, TypeOK, Points, Timers
  <2>10. alone' \in BOOLEAN /\ clean' \in BOOLEAN
    BY DEF TimerFires, IInv, TypeOK, Points, Timers
  <2> QED
    BY <2>1, <2>2, <2>3, <2>4, <2>5, <2>6, <2>7, <2>8, <2>9, <2>10 DEF TypeOK
<1>2. Alone'
  <2>1. \A u \in Starts : /\ timers'[u].dur = timers[u].dur
                          /\ timers'[u].st = IF u = t THEN "fired" ELSE timers[u].st
    BY TimerState DEF TimerFires, IInv, TypeOK
  <2> QED
    BY <2>1 DEF TimerFires, IInv, TypeOK, Alone, Fresh, Runs, Token, Delays
<1>3. Fresh'
  BY DEF TimerFires, IInv, TypeOK, Fresh
<1>4. Sent'
  BY DEF TimerFires, IInv, TypeOK, Sent, Delays
<1> QED
  BY <1>1, <1>2, <1>3, <1>4 DEF IInv

LEMMA StutterKeeps ==
    ASSUME IInv, UNCHANGED vars
    PROVE  IInv'
<1> USE DEF vars, control, goroutines, history
<1>1. TypeOK'
  BY DEF IInv, TypeOK
<1>2. Alone' /\ Fresh' /\ Sent'
  BY DEF IInv, Alone, Fresh, Sent, Runs, Token
<1> QED
  BY <1>1, <1>2 DEF IInv

\* Every step keeps the invariant, which therefore always holds.
LEMMA IInvNext == IInv /\ [Next]_vars => IInv'
BY StartKeeps, StopKeeps, ParentDoneKeeps, BeginKeeps, PassKeeps, SelectDoneKeeps,
   SelectResetKeeps, SelectTimerKeeps, SendResetKeeps, TaskReturnsKeeps,
   TimerFiresKeeps, StutterKeeps
   DEF Next, Loop

LEMMA Invariant == Spec => []IInv
BY IInvInit, IInvNext, PTL DEF Spec

-----------------------------------------------------------------------------

\* Types; and the channel resetTimer never holds more than its one delay.
THEOREM TypeCorrect == Spec => []TypeOK
<1>1. IInv => TypeOK
  BY DEF IInv
<1> QED
  BY <1>1, Invariant, PTL

\* The send at the end of run never blocks, as long as each Start found no loop
\* running and no delay left in resetTimer.
THEOREM SendsNeverBlock == Spec => []NoBlockedSend
<1>1. IInv => NoBlockedSend
  BY DEF IInv, Alone, Runs, Token, NoBlockedSend
<1> QED
  BY <1>1, Invariant, PTL

\* A loop calls the task again only when a timer armed with the interval and a
\* jitter has fired.
THEOREM SpacedCalls == Spec => CallsAreSpaced
<1> DEFINE Spaced(i) == SelectTimer(i) /\ ran[i] /\ clean =>
                           timers[waitsOn[i].timer].dur \in Interval .. (Interval + Jitter - 1)
<1>1. ASSUME IInv, NEW i \in Starts
      PROVE  Spaced(i)
  BY <1>1 DEF IInv, TypeOK, Timers, Alone, Runs, Token, Delays, SelectTimer
<1>2. IInv /\ [Next]_vars => [\A i \in Starts : Spaced(i)]_vars
  BY <1>1
<1> QED
  BY <1>2, Invariant, PTL DEF Spec, CallsAreSpaced
=============================================================================
