--------------------------- MODULE MessagingProofs ---------------------------
(***************************************************************************)
(* Proofs about Messaging with its components SQS and Kafka, for any       *)
(* clients, messages, workers, options and bounds: nothing that SendData   *)
(* took is lost (NothingIsLost), and what Receive of the Kafka clients     *)
(* promises across restarts (ReceivesInOrder).                             *)
(*                                                                         *)
(* A message is in the queue once, and only after it was sent; a worker    *)
(* that is to delete one has processed or reported it.  A consumer of a    *)
(* group of pkg/kafka has returned only what lies before the last commit;  *)
(* one of pkg/kafkacgo, from the first offset, has returned all that lies  *)
(* before its position, and before every offset it stores or commits.      *)
(***************************************************************************)
EXTENDS Messaging, FiniteSetTheorems, SequenceTheorems, TLAPS

\* The queue has a message once, and none that is yet to be sent.
QueueOK ==
    /\ queue \in Seq(Messages)
    /\ \A i, j \in DOMAIN queue : queue[i] = queue[j] => i = j
    /\ IsFiniteSet(InQueue) /\ Len(queue) = Cardinality(InQueue)
    /\ unsent \subseteq Messages
    /\ InQueue \cap unsent = {}
    /\ visible \subseteq InQueue
    /\ latest \in [Messages -> Workers \cup {None}]
    /\ client \in {"none", "refused", "ready"}

\* A worker that goes on with a message knows whether it was decoded, and deletes
\* it after it has processed or reported it.
WorkerOK(w) ==
    /\ pc[w] # "idle" => /\ result[w].handle \in Messages
                         /\ result[w].err = (result[w].handle \in Undecodable)
    /\ pc[w] = "done" => result[w].handle \in processed \cup reported
WorkersOK ==
    /\ pc \in [Workers -> {"idle", "got", "done"}]
    /\ result \in [Workers -> {Nothing, Failed} \cup {Data(m) : m \in Messages}]
    /\ \A w \in Workers : WorkerOK(w)
    /\ processed \cap Undecodable = {}
    /\ reported \subseteq Undecodable

Kept == taken \subseteq InQueue \cup processed \cup reported

SQSInv == QueueOK /\ WorkersOK /\ Kept

-----------------------------------------------------------------------------

\* No offset is after the end of the partition.
OffsetsOK ==
    /\ end \in Nat /\ outbox \in Nat /\ end + outbox <= MaxEnd
    /\ lib = "kafka" => outbox = 0
    /\ committed \in 0 .. end + 1
    /\ position \in 1 .. end + 1
    /\ stored \in 0 .. end + 1
    /\ consumer \in {"closed", "open", "committing"}
    /\ received \in Seq(Nat)

\* pkg/kafka with a group: what was returned is before the commit, and the commit
\* is before the message that waits for one.
Grouped == lib = "kafka" /\ group
GroupOK ==
    Grouped =>
        /\ stored = 0
        /\ \A i, j \in DOMAIN received : i < j => received[i] < received[j]
        /\ \A i \in DOMAIN received : received[i] < committed
        /\ consumer = "open" => committed <= position
        /\ consumer = "committing" => committed < position

\* The offset o was returned among the first n.
SeenAmong(o, n) == \E j \in 1 .. n : received[j] = o
Seen(o) == SeenAmong(o, Len(received))

\* pkg/kafkacgo, from the first offset: nothing was passed over.
FromFirst == lib = "kafkacgo" /\ startOffset = "first"
FirstOK ==
    FromFirst =>
        /\ \A i \in DOMAIN received : \A o \in 1 .. received[i] : SeenAmong(o, i)
        /\ \A o \in 1 .. position - 1 : Seen(o)
        /\ \A o \in 1 .. committed - 1 : Seen(o)
        /\ \A o \in 1 .. stored - 1 : Seen(o)
        /\ consumer # "committing"

KafkaInv == OffsetsOK /\ GroupOK /\ FirstOK

IInv == SQSInv /\ KafkaInv

-----------------------------------------------------------------------------
(* The queue of SQS.                                                       *)

\* What InQueue is, position by position.
LEMMA InQueueIs ==
    ASSUME queue \in Seq(Messages)
    PROVE  /\ Len(queue) \in Nat /\ DOMAIN queue = 1 .. Len(queue)
           /\ \A m : m \in InQueue <=> \E i \in 1 .. Len(queue) : queue[i] = m
           /\ InQueue \subseteq Messages
<1>1. Len(queue) \in Nat /\ DOMAIN queue = 1 .. Len(queue)
  BY LenProperties
<1>2. \A m : m \in InQueue <=> \E i \in 1 .. Len(queue) : queue[i] = m
  BY <1>1 DEF InQueue, ToSet
<1>3. \A i \in 1 .. Len(queue) : queue[i] \in Messages
  BY ElementOfSeq
<1> QED
  BY <1>1, <1>2, <1>3

\* SendMessage puts a message in the queue that is not in it.
LEMMA QueueGrows ==
    ASSUME QueueOK, NEW m \in Messages, m \notin InQueue, queue' = Append(queue, m)
    PROVE  /\ queue' \in Seq(Messages)
           /\ \A i, j \in DOMAIN queue' : queue'[i] = queue'[j] => i = j
           /\ InQueue' = InQueue \cup {m}
           /\ IsFiniteSet(InQueue') /\ Len(queue') = Cardinality(InQueue')
<1>1. queue \in Seq(Messages)
  BY DEF QueueOK
<1>2. /\ queue' \in Seq(Messages) /\ Len(queue') = Len(queue) + 1
      /\ \A i \in 1 .. Len(queue) : queue'[i] = queue[i]
      /\ queue'[Len(queue) + 1] = m
  BY <1>1, AppendProperties
<1>3. /\ Len(queue) \in Nat /\ DOMAIN queue = 1 .. Len(queue)
      /\ \A x : x \in InQueue <=> \E i \in 1 .. Len(queue) : queue[i] = x
  BY <1>1, InQueueIs
<1>4. DOMAIN queue' = 1 .. Len(queue) + 1
  BY <1>2, LenProperties
<1>5. ASSUME NEW x
      PROVE  x \in InQueue' <=> x \in InQueue \cup {m}
  <2>1. x \in InQueue' <=> \E i \in 1 .. Len(queue) + 1 : queue'[i] = x
    BY <1>4 DEF InQueue, ToSet
  <2> QED
    BY <1>2, <1>3, <2>1
<1>6. InQueue' = InQueue \cup {m}
  BY <1>5
<1>7. \A i, j \in DOMAIN queue' : queue'[i] = queue'[j] => i = j
  <2>1. \A i, j \in 1 .. Len(queue) : queue[i] = queue[j] => i = j
    BY <1>3 DEF QueueOK
  <2>2. \A i \in 1 .. Len(queue) : queue[i] # m
    BY <1>3
  <2> QED
    BY <1>2, <1>3, <1>4, <2>1, <2>2
<1>8. IsFiniteSet(InQueue') /\ Cardinality(InQueue') = Cardinality(InQueue) + 1
  BY <1>6, FS_AddElement DEF QueueOK
<1> QED
  BY <1>2, <1>6, <1>7, <1>8 DEF QueueOK

\* A deletion takes a message out, and nothing else.
LEMMA QueueShrinks ==
    ASSUME QueueOK, NEW k \in DOMAIN queue, queue' = RemoveAt(queue, k)
    PROVE  /\ queue' \in Seq(Messages)
           /\ \A i, j \in DOMAIN queue' : queue'[i] = queue'[j] => i = j
           /\ InQueue' = InQueue \ {queue[k]}
           /\ IsFiniteSet(InQueue') /\ Len(queue') = Cardinality(InQueue')
<1> DEFINE before == SubSeq(queue, 1, k - 1)
           after == SubSeq(queue, k + 1, Len(queue))
<1>1. queue \in Seq(Messages)
  BY DEF QueueOK
<1>2. /\ Len(queue) \in Nat /\ DOMAIN queue = 1 .. Len(queue)
      /\ \A x : x \in InQueue <=> \E i \in 1 .. Len(queue) : queue[i] = x
  BY <1>1, InQueueIs
<1>3. k \in 1 .. Len(queue)
  BY <1>2
<1>4. \A i \in 1 .. Len(queue) : queue[i] \in Messages
  BY <1>1, ElementOfSeq
<1>5. /\ before \in Seq(Messages) /\ Len(before) = k - 1
      /\ \A i \in 1 .. k - 1 : before[i] = queue[i]
  <2>1. \A i \in 1 .. k - 1 : queue[i] \in Messages
    BY <1>2, <1>3, <1>4
  <2>2. /\ before \in Seq(Messages)
        /\ Len(before) = IF 1 <= k - 1 THEN (k - 1) - 1 + 1 ELSE 0
        /\ \A i \in 1 .. (k - 1) - 1 + 1 : before[i] = queue[1 + i - 1]
    BY <1>3, <2>1, SubSeqProperties
  <2> HIDE DEF before
  <2> QED
    BY <1>3, <2>2
<1>6. /\ after \in Seq(Messages) /\ Len(after) = Len(queue) - k
      /\ \A i \in 1 .. Len(queue) - k : after[i] = queue[k + i]
  <2>1. \A i \in k + 1 .. Len(queue) : queue[i] \in Messages
    BY <1>2, <1>3, <1>4
  <2>2. /\ after \in Seq(Messages)
        /\ Len(after) = IF k + 1 <= Len(queue) THEN Len(queue) - (k + 1) + 1 ELSE 0
        /\ \A i \in 1 .. Len(queue) - (k + 1) + 1 : after[i] = queue[(k + 1) + i - 1]
    BY <1>2, <1>3, <2>1, SubSeqProperties
  <2> HIDE DEF after
  <2>3. \A i \in 1 .. Len(queue) - k : (k + 1) + i - 1 = k + i
    BY <1>2, <1>3
  <2> QED
    BY <1>2, <1>3, <2>2, <2>3
<1>7. queue' = before \o after
  BY DEF RemoveAt
<1> HIDE DEF before, after
<1>8. /\ queue' \in Seq(Messages) /\ Len(queue') = Len(before) + Len(after)
      /\ \A i \in 1 .. Len(before) + Len(after) :
             queue'[i] = IF i <= Len(before) THEN before[i] ELSE after[i - Len(before)]
  BY <1>5, <1>6, <1>7, ConcatProperties
<1>9. /\ Len(queue') = Len(queue) - 1
      /\ \A i \in 1 .. Len(queue) - 1 : queue'[i] = IF i < k THEN queue[i] ELSE queue[i + 1]
  <2>1. ASSUME NEW i \in 1 .. Len(queue) - 1
        PROVE  queue'[i] = IF i < k THEN queue[i] ELSE queue[i + 1]
    <3>1. CASE i < k
      BY <1>2, <1>3, <1>5, <1>6, <1>8, <3>1
    <3>2. CASE ~(i < k)
      <4>1. queue'[i] = after[i - (k - 1)]
        BY <1>2, <1>3, <1>5, <1>6, <1>8, <3>2
      <4>2. i - (k - 1) \in 1 .. Len(queue) - k /\ k + (i - (k - 1)) = i + 1
        BY <1>2, <1>3, <3>2
      <4> QED
        BY <1>6, <3>2, <4>1, <4>2
    <3> QED
      BY <3>1, <3>2
  <2> QED
    BY <1>2, <1>3, <1>5, <1>6, <1>8, <2>1
<1>10. DOMAIN queue' = 1 .. Len(queue) - 1
  BY <1>8, <1>9, LenProperties
<1>11. \A i, j \in 1 .. Len(queue) : queue[i] = queue[j] => i = j
  BY <1>2 DEF QueueOK
<1>12. \A i, j \in DOMAIN queue' : queue'[i] = queue'[j] => i = j
  <2>1. ASSUME NEW i \in 1 .. Len(queue) - 1, NEW j \in 1 .. Len(queue) - 1,
               queue'[i] = queue'[j]
        PROVE  i = j
    <3> DEFINE at(p) == IF p < k THEN p ELSE p + 1
    <3>1. queue'[i] = queue[at(i)] /\ queue'[j] = queue[at(j)]
      BY <1>9
    <3>2. at(i) \in 1 .. Len(queue) /\ at(j) \in 1 .. Len(queue)
      BY <1>2, <1>3
    <3>3. at(i) = at(j)
      BY <1>11, <2>1, <3>1, <3>2
    <3> QED
      BY <1>2, <1>3, <3>3
  <2> QED
    BY <1>10, <2>1
<1>13. ASSUME NEW x
       PROVE  x \in InQueue' <=> x \in InQueue \ {queue[k]}
  <2>1. x \in InQueue' <=> \E i \in 1 .. Len(queue) - 1 : queue'[i] = x
    BY <1>10 DEF InQueue, ToSet
  <2>2. ASSUME NEW i \in 1 .. Len(queue) - 1, queue'[i] = x
        PROVE  x \in InQueue \ {queue[k]}
    <3>1. i \in 1 .. Len(queue) /\ i + 1 \in 1 .. Len(queue)
      BY <1>2
    <3> QED
      BY <1>2, <1>3, <1>9, <1>11, <2>2, <3>1
  <2>3. ASSUME NEW i \in 1 .. Len(queue), queue[i] = x, x # queue[k]
        PROVE  \E j \in 1 .. Len(queue) - 1 : queue'[j] = x
    <3>1. CASE i < k
      BY <1>2, <1>3, <1>9, <2>3, <3>1
    <3>2. CASE i > k
      <4>1. i - 1 \in 1 .. Len(queue) - 1 /\ ~(i - 1 < k) /\ (i - 1) + 1 = i
        BY <1>2, <1>3, <3>2
      <4> QED
        BY <1>9, <2>3, <4>1
    <3> QED
      BY <1>3, <2>3, <3>1, <3>2
  <2>4. CASE x \in InQueue'
    BY <2>1, <2>2, <2>4
  <2>5. ASSUME x \in InQueue \ {queue[k]} PROVE x \in InQueue'
    <3>1. PICK i \in 1 .. Len(queue) : queue[i] = x
      BY <1>2, <2>5
    <3> QED
      BY <2>1, <2>3, <2>5, <3>1
  <2> QED
    BY <2>4, <2>5
<1>14. InQueue' = InQueue \ {queue[k]}
  BY <1>13
<1>15. queue[k] \in InQueue
  BY <1>2, <1>3
<1>16. IsFiniteSet(InQueue') /\ Cardinality(InQueue') = Cardinality(InQueue) - 1
  BY <1>14, <1>15, FS_RemoveElement DEF QueueOK
<1> QED
  BY <1>8, <1>9, <1>12, <1>14, <1>16 DEF QueueOK

-----------------------------------------------------------------------------
(* The workers of SQS: the invariant is kept by each action, one lemma for *)
(* each.                                                                   *)

LEMMA SQSInvInit == Init => SQSInv
<1> SUFFICES ASSUME Init PROVE SQSInv
  OBVIOUS
<1>1. queue = <<>> /\ unsent = Messages /\ visible = {} /\ client = "none"
  BY DEF Init, SQSInit
<1>2. queue \in Seq(Messages) /\ Len(queue) = 0
  BY <1>1, EmptySeq
<1>3. DOMAIN queue = {}
  BY <1>2, LenProperties
<1>4. InQueue = {}
  BY <1>3 DEF InQueue, ToSet
<1>5. latest \in [Messages -> Workers \cup {None}]
  BY DEF Init, SQSInit
<1>6. QueueOK
  BY <1>1, <1>2, <1>3, <1>4, <1>5, FS_EmptySet DEF QueueOK
<1>7. WorkersOK
  BY DEF Init, WorkersOK, WorkerOK
<1> QED
  BY <1>6, <1>7 DEF Init, SQSInv, Kept

\* What a worker knows stays true as more is processed or reported.
LEMMA WorkersKeep ==
    ASSUME WorkersOK, UNCHANGED <<pc, result, processed, reported>>
    PROVE  WorkersOK'
BY DEF WorkersOK, WorkerOK

\* A step of a component that leaves the queue and what is in it alone.
LEMMA QueueKeeps ==
    ASSUME QueueOK, UNCHANGED <<queue, unsent>>,
           visible' \subseteq InQueue, latest' \in [Messages -> Workers \cup {None}],
           client' \in {"none", "refused", "ready"}
    PROVE  QueueOK' /\ InQueue' = InQueue
BY DEF QueueOK, InQueue

LEMMA NewKeeps ==
    ASSUME SQSInv, New, UNCHANGED <<unsent, taken, workVars>>
    PROVE  SQSInv'
<1>1. QueueOK' /\ InQueue' = InQueue
  <2>1. client' \in {"none", "refused", "ready"}
    BY DEF New
  <2> QED
    BY <2>1, QueueKeeps DEF SQSInv, New, QueueOK
<1> QED
  BY <1>1, WorkersKeep DEF SQSInv, Kept, workVars

LEMMA SendKeeps ==
    ASSUME SQSInv, Send
    PROVE  SQSInv'
<1>1. PICK m \in unsent, sent \in BOOLEAN :
          /\ SendData(m, sent)
          /\ unsent' = unsent \ {m}
          /\ taken' = IF sent THEN taken \cup {m} ELSE taken
  BY DEF Send
<1>2. m \in Messages /\ m \notin InQueue
  BY <1>1 DEF SQSInv, QueueOK
<1>3. /\ latest' = latest /\ client' = client
      /\ UNCHANGED <<pc, result, processed, reported>>
  BY <1>1 DEF Send, SendData, workVars
<1>4. WorkersOK'
  BY <1>3, WorkersKeep DEF SQSInv
<1>5. CASE SendMessage(m)
  <2>1. queue' = Append(queue, m) /\ visible' = visible \cup {m}
    BY <1>5 DEF SendMessage
  <2>2. /\ queue' \in Seq(Messages)
        /\ \A i, j \in DOMAIN queue' : queue'[i] = queue'[j] => i = j
        /\ InQueue' = InQueue \cup {m}
        /\ IsFiniteSet(InQueue') /\ Len(queue') = Cardinality(InQueue')
    BY <1>2, <2>1, QueueGrows DEF SQSInv
  <2>3. QueueOK'
    BY <1>1, <1>3, <2>1, <2>2 DEF SQSInv, QueueOK
  <2>4. Kept'
    BY <1>1, <1>3, <2>2 DEF SQSInv, Kept
  <2> QED
    BY <1>4, <2>3, <2>4 DEF SQSInv
<1>6. CASE ~sent /\ UNCHANGED <<queue, visible>>
  <2>1. InQueue' = InQueue
    BY <1>6 DEF InQueue
  <2>2. QueueOK'
    BY <1>1, <1>3, <1>6, <2>1 DEF SQSInv, QueueOK
  <2>3. Kept'
    BY <1>1, <1>3, <1>6, <2>1 DEF SQSInv, Kept
  <2> QED
    BY <1>4, <2>2, <2>3 DEF SQSInv
<1> QED
  BY <1>1, <1>5, <1>6 DEF SendData

LEMMA ReceiveOneKeeps ==
    ASSUME SQSInv, NEW w \in Workers, ReceiveOne(w)
    PROVE  SQSInv'
<1>1. PICK r \in {Data(m) : m \in InQueue} \cup {Nothing, Failed} :
          /\ ReceiveData(w, r)
          /\ result' = [result EXCEPT ![w] = r]
          /\ pc' = [pc EXCEPT ![w] = IF r.handle = None THEN "idle" ELSE "got"]
  BY DEF ReceiveOne
<1>2. UNCHANGED <<queue, client, unsent, taken, processed, reported>>
  BY <1>1 DEF ReceiveOne, ReceiveData
<1>3. InQueue \subseteq Messages
  BY InQueueIs DEF SQSInv, QueueOK
<1>4. visible' \subseteq InQueue /\ latest' \in [Messages -> Workers \cup {None}]
  <2>1. CASE UNCHANGED <<visible, latest>>
    BY <2>1 DEF SQSInv, QueueOK
  <2>2. CASE \E m \in InQueue : ReceiveMessage(w, m)
    BY <1>3, <2>2 DEF ReceiveMessage, SQSInv, QueueOK
  <2> QED
    BY <1>1, <2>1, <2>2 DEF ReceiveData
<1>5. QueueOK' /\ InQueue' = InQueue
  BY <1>2, <1>4, QueueKeeps DEF SQSInv, QueueOK
<1>6. /\ r \in {Nothing, Failed} \cup {Data(m) : m \in Messages}
      /\ r.handle # None => /\ r.handle \in Messages
                            /\ r.err = (r.handle \in Undecodable)
  <2>1. CASE r \in {Nothing, Failed}
    BY <2>1 DEF Nothing, Failed
  <2>2. CASE \E m \in InQueue : r = Data(m)
    BY <1>3, <2>2 DEF Data
  <2> QED
    BY <2>1, <2>2
<1>7. WorkersOK'
  <2>1. /\ pc' \in [Workers -> {"idle", "got", "done"}]
        /\ result' \in [Workers -> {Nothing, Failed} \cup {Data(m) : m \in Messages}]
    BY <1>1, <1>6 DEF SQSInv, WorkersOK
  <2>2. WorkerOK(w)'
    <3>1. result'[w] = r /\ pc'[w] = IF r.handle = None THEN "idle" ELSE "got"
      BY <1>1 DEF SQSInv, WorkersOK
    <3> QED
      BY <1>6, <3>1 DEF WorkerOK
  <2>3. ASSUME NEW v \in Workers, v # w PROVE WorkerOK(v)'
    <3>1. result'[v] = result[v] /\ pc'[v] = pc[v] /\ WorkerOK(v)
      BY <1>1, <2>3 DEF SQSInv, WorkersOK
    <3> QED
      BY <1>2, <3>1 DEF WorkerOK
  <2> QED
    BY <1>2, <2>1, <2>2, <2>3 DEF SQSInv, WorkersOK
<1> QED
  BY <1>2, <1>5, <1>7 DEF SQSInv, Kept

LEMMA ProcessKeeps ==
    ASSUME SQSInv, NEW w \in Workers, Process(w)
    PROVE  SQSInv'
<1> DEFINE m == result[w].handle
<1>1. /\ pc[w] = "got" /\ pc' = [pc EXCEPT ![w] = "done"] /\ result' = result
      /\ UNCHANGED <<queue, visible, latest, client, unsent, taken>>
  BY DEF Process, sqsVars
<1>2. m \in Messages /\ result[w].err = (m \in Undecodable)
  BY <1>1 DEF SQSInv, WorkersOK, WorkerOK
<1>3. /\ processed \subseteq processed' /\ reported \subseteq reported'
      /\ m \in processed' \cup reported'
      /\ processed' \cap Undecodable = {} /\ reported' \subseteq Undecodable
  <2>1. CASE m \in Undecodable
    <3>1. reported' = reported \cup {m} /\ processed' = processed
      BY <1>2, <2>1 DEF Process
    <3> QED
      BY <2>1, <3>1 DEF SQSInv, WorkersOK
  <2>2. CASE m \notin Undecodable
    <3>1. reported' = reported /\ processed' = processed \cup ({m} \ Undecodable)
      BY <1>2, <2>2 DEF Process
    <3> QED
      BY <2>2, <3>1 DEF SQSInv, WorkersOK
  <2> QED
    BY <2>1, <2>2
<1>4. QueueOK' /\ InQueue' = InQueue
  BY <1>1, QueueKeeps DEF SQSInv, QueueOK
<1>5. WorkersOK'
  <2>1. pc' \in [Workers -> {"idle", "got", "done"}]
    BY <1>1 DEF SQSInv, WorkersOK
  <2>2. WorkerOK(w)'
    BY <1>1, <1>2, <1>3 DEF WorkerOK
  <2>3. ASSUME NEW v \in Workers, v # w PROVE WorkerOK(v)'
    <3>1. result'[v] = result[v] /\ pc'[v] = pc[v] /\ WorkerOK(v)
      BY <1>1, <2>3 DEF SQSInv, WorkersOK
    <3> QED
      BY <1>3, <3>1 DEF WorkerOK
  <2> QED
    BY <1>1, <1>3, <2>1, <2>2, <2>3 DEF SQSInv, WorkersOK
<1> QED
  BY <1>1, <1>3, <1>4, <1>5 DEF SQSInv, Kept

\* A worker that is done with its message, or that ends, asks again.
LEMMA ForgetsKeeps ==
    ASSUME WorkersOK, NEW w \in Workers, Forgets(w)
    PROVE  WorkersOK'
<1>1. /\ pc' = [pc EXCEPT ![w] = "idle"] /\ result' = [result EXCEPT ![w] = Nothing]
      /\ UNCHANGED <<processed, reported>>
  BY DEF Forgets
<1>2. /\ pc' \in [Workers -> {"idle", "got", "done"}]
      /\ result' \in [Workers -> {Nothing, Failed} \cup {Data(m) : m \in Messages}]
  BY <1>1 DEF WorkersOK
<1>3. WorkerOK(w)'
  BY <1>1 DEF WorkersOK, WorkerOK
<1>4. ASSUME NEW v \in Workers, v # w PROVE WorkerOK(v)'
  <2>1. result'[v] = result[v] /\ pc'[v] = pc[v] /\ WorkerOK(v)
    BY <1>1, <1>4 DEF WorkersOK
  <2> QED
    BY <1>1, <2>1 DEF WorkerOK
<1> QED
  BY <1>1, <1>2, <1>3, <1>4 DEF WorkersOK

LEMMA DeleteOneKeeps ==
    ASSUME SQSInv, NEW w \in Workers, DeleteOne(w)
    PROVE  SQSInv'
<1> DEFINE m == result[w].handle
<1>1. m \in Messages /\ m \in processed \cup reported
  BY DEF DeleteOne, SQSInv, WorkersOK, WorkerOK
<1>2. WorkersOK'
  BY ForgetsKeeps DEF DeleteOne, SQSInv
<1>3. UNCHANGED <<latest, client, unsent, taken, processed, reported>>
  BY DEF DeleteOne, Delete, Forgets
<1>4. CASE UNCHANGED <<queue, visible>>
  <2>1. QueueOK' /\ InQueue' = InQueue
    BY <1>3, <1>4, QueueKeeps DEF SQSInv, QueueOK
  <2> QED
    BY <1>2, <1>3, <2>1 DEF SQSInv, Kept
<1>5. CASE Removed(m)
  <2>1. visible' = visible \ {m}
    BY <1>5 DEF Removed
  <2>2. CASE m \notin InQueue /\ UNCHANGED queue
    <3>1. visible' \subseteq InQueue
      BY <2>1 DEF SQSInv, QueueOK
    <3>2. QueueOK' /\ InQueue' = InQueue
      BY <1>3, <2>2, <3>1, QueueKeeps DEF SQSInv, QueueOK
    <3> QED
      BY <1>2, <1>3, <3>2 DEF SQSInv, Kept
  <2>3. CASE \E k \in DOMAIN queue : queue[k] = m /\ queue' = RemoveAt(queue, k)
    <3>1. /\ queue' \in Seq(Messages)
          /\ \A i, j \in DOMAIN queue' : queue'[i] = queue'[j] => i = j
          /\ InQueue' = InQueue \ {m}
          /\ IsFiniteSet(InQueue') /\ Len(queue') = Cardinality(InQueue')
      BY <2>3, QueueShrinks DEF SQSInv
    <3>2. QueueOK'
      BY <1>3, <2>1, <3>1 DEF SQSInv, QueueOK
    <3>3. Kept'
      BY <1>1, <1>3, <3>1 DEF SQSInv, Kept
    <3> QED
      BY <1>2, <3>2, <3>3 DEF SQSInv
  <2> QED
    BY <1>5, <2>2, <2>3 DEF Removed
<1> QED
  BY <1>4, <1>5 DEF DeleteOne, Delete

LEMMA CrashKeeps ==
    ASSUME SQSInv, NEW w \in Workers, Crash(w)
    PROVE  SQSInv'
<1>1. UNCHANGED <<queue, visible, latest, client, unsent, taken, processed, reported>>
  BY DEF Crash, Forgets, sqsVars
<1>2. QueueOK' /\ InQueue' = InQueue
  BY <1>1, QueueKeeps DEF SQSInv, QueueOK
<1>3. WorkersOK'
  BY ForgetsKeeps DEF Crash, SQSInv
<1> QED
  BY <1>1, <1>2, <1>3 DEF SQSInv, Kept

LEMMA TimesOutKeeps ==
    ASSUME SQSInv, NEW m \in Messages, TimesOut(m), UNCHANGED <<unsent, taken, workVars>>
    PROVE  SQSInv'
<1>1. visible' \subseteq InQueue /\ UNCHANGED <<queue, client, latest>>
  BY DEF TimesOut, SQSInv, QueueOK
<1>2. QueueOK' /\ InQueue' = InQueue
  BY <1>1, QueueKeeps DEF SQSInv, QueueOK
<1> QED
  BY <1>2, WorkersKeep DEF SQSInv, Kept, workVars

LEMMA SQSInvKept ==
    ASSUME SQSInv, UNCHANGED <<sqsVars, unsent, taken, workVars>>
    PROVE  SQSInv'
<1>1. QueueOK' /\ InQueue' = InQueue
  BY QueueKeeps DEF SQSInv, QueueOK, sqsVars
<1> QED
  BY <1>1, WorkersKeep DEF SQSInv, Kept, workVars

LEMMA SQSInvNext == SQSInv /\ SQSNext => SQSInv'
BY NewKeeps, SendKeeps, ReceiveOneKeeps, ProcessKeeps, DeleteOneKeeps, CrashKeeps,
   TimesOutKeeps
   DEF SQSNext

\* NothingIsLost but for the offsets of the other clients.
LEMMA SQSTypes ==
    ASSUME SQSInv
    PROVE  /\ client \in {"none", "refused", "ready"}
           /\ InQueue \subseteq Messages /\ Len(queue) = Cardinality(InQueue)
           /\ visible \subseteq InQueue
           /\ latest \in [Messages -> Workers \cup {None}]
           /\ pc \in [Workers -> {"idle", "got", "done"}]
           /\ \A w \in Workers : pc[w] # "idle" => result[w].handle \in Messages
           /\ processed \cap reported = {}
           /\ taken \subseteq InQueue \cup processed \cup reported
BY InQueueIs DEF SQSInv, QueueOK, WorkersOK, WorkerOK, Kept

-----------------------------------------------------------------------------
(* The partition of Kafka.                                                 *)

LEMMA KafkaInvInit == Init => KafkaInv
<1> SUFFICES ASSUME Init PROVE KafkaInv
  OBVIOUS
<1>1. received = <<>> /\ received \in Seq(Nat) /\ Len(received) = 0
  BY EmptySeq DEF Init, KafkaInit
<1>2. DOMAIN received = {}
  BY <1>1, LenProperties
<1>3. /\ end = 0 /\ outbox = 0 /\ committed = 0 /\ position = 1 /\ stored = 0
      /\ consumer = "closed"
  BY DEF Init, KafkaInit
<1> QED
  BY <1>1, <1>2, <1>3, MessagingAssumption
     DEF KafkaInv, OffsetsOK, GroupOK, FirstOK

\* The offsets of a partition stay offsets of it as it grows.
LEMMA LaterEnd ==
    ASSUME NEW e \in Nat, NEW f \in Nat, e <= f
    PROVE  0 .. e + 1 \subseteq 0 .. f + 1 /\ 1 .. e + 1 \subseteq 1 .. f + 1
OBVIOUS

\* Steps of the producers: only the partition grows.
LEMMA ProducerKeeps ==
    ASSUME KafkaInv, KafkaSend \/ Produce \/ Delivered
    PROVE  KafkaInv'
<1>1. UNCHANGED <<lib, group, startOffset, consumerVars>>
  BY DEF KafkaSend, Produce, Delivered
<1>2. /\ end' \in {end, end + 1} /\ outbox' \in Nat /\ end' + outbox' <= MaxEnd
      /\ lib = "kafka" => outbox' = 0
  <2> USE MessagingAssumption DEF KafkaInv, OffsetsOK
  <2>1. CASE KafkaSend
    BY <2>1 DEF KafkaSend
  <2>2. CASE Produce
    BY <2>2 DEF Produce
  <2>3. CASE Delivered
    <3>1. /\ end \in Nat /\ outbox \in Nat /\ end + outbox <= MaxEnd /\ outbox > 0
          /\ outbox' = outbox - 1 /\ end' \in {end, end + 1}
      BY <2>3 DEF Delivered
    <3>2. lib # "kafka"
      BY <3>1
    <3> HIDE DEF KafkaInv, OffsetsOK
    <3>3. outbox' \in Nat
      BY <3>1
    <3>4. end' + outbox' <= MaxEnd
      <4>1. CASE end' = end
        BY <3>1, <4>1
      <4>2. CASE end' = end + 1
        BY <3>1, <4>2
      <4> QED
        BY <3>1, <4>1, <4>2
    <3> QED
      BY <3>1, <3>2, <3>3, <3>4
  <2> QED
    BY <2>1, <2>2, <2>3
<1>3. OffsetsOK'
  <2>1. UNCHANGED <<committed, position, stored, consumer, received>>
    BY <1>1 DEF consumerVars
  <2>2. OffsetsOK
    BY DEF KafkaInv
  <2>3. end \in Nat /\ end' \in Nat /\ end <= end'
    BY <1>2, <2>2 DEF OffsetsOK
  <2>4. /\ committed' \in 0 .. end' + 1 /\ position' \in 1 .. end' + 1
        /\ stored' \in 0 .. end' + 1
    <3>1. /\ committed \in 0 .. end + 1 /\ position \in 1 .. end + 1
          /\ stored \in 0 .. end + 1
      BY <2>2 DEF OffsetsOK
    <3>2. 0 .. end + 1 \subseteq 0 .. end' + 1 /\ 1 .. end + 1 \subseteq 1 .. end' + 1
      BY <2>3, LaterEnd
    <3> QED
      BY <2>1, <3>1, <3>2
  <2>5. lib' = lib /\ received' \in Seq(Nat) /\ consumer' \in {"closed", "open", "committing"}
    BY <1>1, <2>1, <2>2 DEF OffsetsOK
  <2> QED
    BY <1>2, <2>3, <2>4, <2>5 DEF OffsetsOK
<1>4. GroupOK' /\ FirstOK'
  BY <1>1 DEF KafkaInv, GroupOK, Grouped, FirstOK, FromFirst, Seen, SeenAmong, consumerVars
<1> QED
  BY <1>3, <1>4 DEF KafkaInv

\* Steps that return nothing: what was returned is among the first as it was.
LEMMA SeenKept ==
    ASSUME UNCHANGED received
    PROVE  \A o : Seen(o)' <=> Seen(o)
BY DEF Seen, SeenAmong

\* What Receive returns comes last.
LEMMA ReturnsLast ==
    ASSUME received \in Seq(Nat), NEW offset \in Nat, Returns(offset)
    PROVE  /\ received' \in Seq(Nat)
           /\ Len(received) \in Nat /\ Len(received') = Len(received) + 1
           /\ DOMAIN received = 1 .. Len(received)
           /\ DOMAIN received' = 1 .. Len(received) + 1
           /\ \A i \in 1 .. Len(received) : received'[i] = received[i]
           /\ received'[Len(received) + 1] = offset
<1>1. received' = Append(received, offset)
  BY DEF Returns
<1>2. received' \in Seq(Nat) /\ Len(received') = Len(received) + 1
  BY <1>1, AppendProperties
<1>3. DOMAIN received = 1 .. Len(received) /\ DOMAIN received' = 1 .. Len(received')
  BY <1>2, LenProperties
<1> QED
  BY <1>1, <1>2, <1>3, AppendProperties, LenProperties

\* The next offset after those that a group has returned, all less.
LEMMA Increases ==
    ASSUME received \in Seq(Nat), NEW offset \in Nat, Returns(offset),
           \A i, j \in DOMAIN received : i < j => received[i] < received[j],
           \A i \in DOMAIN received : received[i] < offset
    PROVE  /\ \A i, j \in DOMAIN received' : i < j => received'[i] < received'[j]
           /\ \A i \in DOMAIN received' : received'[i] < offset + 1
<1>1. /\ Len(received) \in Nat
      /\ DOMAIN received = 1 .. Len(received)
      /\ DOMAIN received' = 1 .. Len(received) + 1
      /\ \A i \in 1 .. Len(received) : received'[i] = received[i]
      /\ received'[Len(received) + 1] = offset
  BY ReturnsLast
<1>2. \A i \in 1 .. Len(received) : received[i] \in Nat
  BY ElementOfSeq
<1>3. ASSUME NEW i \in DOMAIN received', NEW j \in DOMAIN received', i < j
      PROVE  received'[i] < received'[j]
  <2>1. i \in 1 .. Len(received)
    BY <1>1, <1>3
  <2>2. CASE j \in 1 .. Len(received)
    BY <1>1, <1>3, <2>1, <2>2
  <2>3. CASE j = Len(received) + 1
    BY <1>1, <2>1, <2>3
  <2> QED
    BY <1>1, <2>2, <2>3
<1>4. ASSUME NEW i \in DOMAIN received' PROVE received'[i] < offset + 1
  <2>1. CASE i \in 1 .. Len(received)
    BY <1>1, <1>2, <2>1
  <2>2. CASE i = Len(received) + 1
    BY <1>1, <2>2
  <2> QED
    BY <1>1, <2>1, <2>2
<1> QED
  BY <1>3, <1>4

\* The next offset after all those that were seen.
LEMMA Covers ==
    ASSUME received \in Seq(Nat), NEW offset \in Nat \ {0}, Returns(offset),
           \A i \in DOMAIN received : \A o \in 1 .. received[i] : SeenAmong(o, i),
           \A o \in 1 .. offset - 1 : Seen(o)
    PROVE  /\ \A i \in DOMAIN received' : \A o \in 1 .. received'[i] : SeenAmong(o, i)'
           /\ \A o \in 1 .. offset : Seen(o)'
           /\ \A o : Seen(o) => Seen(o)'
<1>1. /\ Len(received) \in Nat /\ Len(received') = Len(received) + 1
      /\ DOMAIN received = 1 .. Len(received)
      /\ DOMAIN received' = 1 .. Len(received) + 1
      /\ \A i \in 1 .. Len(received) : received'[i] = received[i]
      /\ received'[Len(received) + 1] = offset
  BY ReturnsLast
<1>2. \A o : Seen(o) => Seen(o)'
  BY <1>1 DEF Seen, SeenAmong
<1>3. \A o \in 1 .. offset : Seen(o)'
  <2>1. Seen(offset)'
    BY <1>1 DEF Seen, SeenAmong
  <2>2. \A o \in 1 .. offset : o = offset \/ o \in 1 .. offset - 1
    OBVIOUS
  <2> QED
    BY <1>2, <2>1, <2>2
<1>4. ASSUME NEW i \in DOMAIN received', NEW o \in 1 .. received'[i]
      PROVE  SeenAmong(o, i)'
  <2>1. CASE i \in 1 .. Len(received)
    <3>1. SeenAmong(o, i)
      BY <1>1, <2>1
    <3> QED
      BY <1>1, <2>1, <3>1 DEF SeenAmong
  <2>2. CASE i = Len(received) + 1
    BY <1>1, <1>3, <2>2 DEF Seen, SeenAmong
  <2> QED
    BY <1>1, <2>1, <2>2
<1> QED
  BY <1>2, <1>3, <1>4

-----------------------------------------------------------------------------
(* The consumers of Kafka: the invariant is kept by each action, one lemma *)
(* for each.                                                               *)

LEMMA NewConsumerKeeps ==
    ASSUME KafkaInv, NewConsumer
    PROVE  KafkaInv'
<1>1. /\ consumer' = "open" /\ position' = StartsAt /\ stored' = 0
      /\ UNCHANGED <<lib, group, startOffset, end, outbox, committed, received>>
  BY DEF NewConsumer, topicVars
<1>2. position' \in 1 .. end + 1 /\ committed \in 0 .. end + 1 /\ end \in Nat
  BY <1>1 DEF StartsAt, KafkaInv, OffsetsOK
<1>3. OffsetsOK'
  BY <1>1, <1>2 DEF KafkaInv, OffsetsOK
<1>4. GroupOK'
  <2> SUFFICES ASSUME Grouped PROVE GroupOK'
    BY <1>1 DEF GroupOK, Grouped
  <2>1. committed <= position'
    BY <1>1, <1>2 DEF StartsAt, Grouped
  <2> QED
    BY <1>1, <2>1 DEF KafkaInv, GroupOK, Grouped
<1>5. FirstOK'
  <2> SUFFICES ASSUME FromFirst PROVE FirstOK'
    BY <1>1 DEF FirstOK, FromFirst
  <2>1. position' \in {committed, 1}
    BY <1>1 DEF StartsAt, FromFirst
  <2>2. FirstOK /\ \A o : Seen(o)' <=> Seen(o)
    BY <1>1, SeenKept DEF KafkaInv
  <2>3. \A o \in 1 .. position' - 1 : Seen(o)'
    BY <2>1, <2>2 DEF FirstOK
  <2>4. \A o \in 1 .. stored' - 1 : Seen(o)'
    BY <1>1
  <2> QED
    BY <1>1, <2>2, <2>3, <2>4 DEF FirstOK, FromFirst, SeenAmong
<1> QED
  BY <1>3, <1>4, <1>5 DEF KafkaInv

LEMMA ReceiveKeeps ==
    ASSUME KafkaInv, Receive
    PROVE  KafkaInv'
<1>1. /\ consumer = "open" /\ position <= end /\ position' = position + 1
      /\ stored' = IF lib = "kafkacgo" THEN position + 1 ELSE stored
      /\ UNCHANGED <<lib, group, startOffset, end, outbox, committed>>
  BY DEF Receive, topicVars
<1>2. /\ end \in Nat /\ position \in Nat \ {0} /\ committed \in 0 .. end + 1
      /\ stored \in 0 .. end + 1 /\ received \in Seq(Nat)
  BY DEF KafkaInv, OffsetsOK
<1>3. position' \in 1 .. end + 1 /\ stored' \in 0 .. end + 1
  BY <1>1, <1>2
<1>4. CASE Grouped
  <2>1. consumer' = "committing" /\ received' = received
    BY <1>4 DEF Receive, Grouped
  <2>2. OffsetsOK'
    BY <1>1, <1>2, <1>3, <2>1 DEF KafkaInv, OffsetsOK
  <2>3. GroupOK
    BY DEF KafkaInv
  <2>4. stored' = 0 /\ committed' < position'
    BY <1>1, <1>2, <1>4, <2>3 DEF GroupOK, Grouped
  <2>5. GroupOK'
    BY <1>1, <1>4, <2>1, <2>3, <2>4 DEF GroupOK, Grouped
  <2>6. FirstOK'
    BY <1>1, <1>4 DEF FirstOK, FromFirst, Grouped
  <2> QED
    BY <2>2, <2>5, <2>6 DEF KafkaInv
<1>5. CASE ~Grouped
  <2>1. Returns(position) /\ consumer' = "open"
    BY <1>1, <1>5 DEF Receive, Grouped
  <2>2. received' \in Seq(Nat)
    BY <1>2, <2>1, ReturnsLast
  <2>3. OffsetsOK'
    BY <1>1, <1>2, <1>3, <2>1, <2>2 DEF KafkaInv, OffsetsOK
  <2>4. GroupOK'
    BY <1>1, <1>5 DEF GroupOK, Grouped
  <2>5. FirstOK'
    <3> SUFFICES ASSUME FromFirst PROVE FirstOK'
      BY <1>1 DEF FirstOK, FromFirst
    <3>1. /\ \A i \in DOMAIN received : \A o \in 1 .. received[i] : SeenAmong(o, i)
          /\ \A o \in 1 .. position - 1 : Seen(o)
          /\ \A o \in 1 .. committed - 1 : Seen(o)
      BY DEF KafkaInv, FirstOK
    <3>2. /\ \A i \in DOMAIN received' : \A o \in 1 .. received'[i] : SeenAmong(o, i)'
          /\ \A o \in 1 .. position : Seen(o)'
          /\ \A o : Seen(o) => Seen(o)'
      BY <1>2, <2>1, <3>1, Covers
    <3>3. position' - 1 = position /\ stored' = position'
      BY <1>1, <1>2 DEF FromFirst
    <3>4. \A o \in 1 .. committed' - 1 : Seen(o)'
      BY <1>1, <3>1, <3>2
    <3> QED
      BY <2>1, <3>2, <3>3, <3>4 DEF FirstOK
  <2> QED
    BY <2>3, <2>4, <2>5 DEF KafkaInv
<1> QED
  BY <1>4, <1>5

\* Only the client of pkg/kafka with a group waits for a commit.
LEMMA CommitsKeeps ==
    ASSUME KafkaInv, Commits
    PROVE  KafkaInv'
<1>1. /\ consumer = "committing" /\ committed' = position /\ consumer' = "open"
      /\ Returns(position - 1)
      /\ UNCHANGED <<lib, group, startOffset, end, outbox, position, stored>>
  BY DEF Commits, topicVars
<1>2. /\ end \in Nat /\ position \in 1 .. end + 1 /\ committed \in Nat
      /\ received \in Seq(Nat) /\ position - 1 \in Nat
  BY DEF KafkaInv, OffsetsOK
<1>3. received' \in Seq(Nat)
  BY <1>1, <1>2, ReturnsLast
<1>4. OffsetsOK'
  BY <1>1, <1>2, <1>3 DEF KafkaInv, OffsetsOK
<1>5. GroupOK'
  <2> SUFFICES ASSUME Grouped PROVE GroupOK'
    BY <1>1 DEF GroupOK, Grouped
  <2>1. /\ stored = 0 /\ committed < position
        /\ \A i, j \in DOMAIN received : i < j => received[i] < received[j]
        /\ \A i \in DOMAIN received : received[i] < committed
    BY <1>1 DEF KafkaInv, GroupOK
  <2>2. \A i \in DOMAIN received : received[i] < position - 1
    <3>1. \A i \in DOMAIN received : received[i] \in Nat
      BY <1>2, LenProperties, ElementOfSeq
    <3> QED
      BY <1>2, <2>1, <3>1
  <2>3. /\ \A i, j \in DOMAIN received' : i < j => received'[i] < received'[j]
        /\ \A i \in DOMAIN received' : received'[i] < position - 1 + 1
    BY <1>1, <1>2, <2>1, <2>2, Increases
  <2>4. position - 1 + 1 = position
    BY <1>2
  <2> QED
    BY <1>1, <1>2, <2>1, <2>3, <2>4 DEF GroupOK
<1>6. FirstOK'
  BY <1>1 DEF KafkaInv, FirstOK, FromFirst
<1> QED
  BY <1>4, <1>5, <1>6 DEF KafkaInv

\* The steps that return no message.
LEMMA QuietKeeps ==
    ASSUME KafkaInv, CommitFails \/ AutoCommits \/ Close \/ Dies
    PROVE  KafkaInv'
<1>1. UNCHANGED <<lib, group, startOffset, end, outbox, position, stored, received>>
  BY DEF CommitFails, AutoCommits, Close, Dies, topicVars
<1>2. /\ consumer' \in {"open", "closed"}
      /\ \/ committed' = committed
         \/ committed' = stored /\ stored # 0
         \/ committed' = position /\ consumer = "committing"
      /\ consumer' = "open" => /\ consumer \in {"open", "committing"}
                               /\ committed' = committed \/ committed' = position
                                    \/ stored # 0
  BY DEF CommitFails, AutoCommits, Close, Dies
<1>3. OffsetsOK'
  BY <1>1, <1>2 DEF KafkaInv, OffsetsOK
<1>4. GroupOK'
  <2> SUFFICES ASSUME Grouped PROVE GroupOK'
    BY <1>1 DEF GroupOK, Grouped
  <2>1. GroupOK /\ OffsetsOK
    BY DEF KafkaInv
  <2>2. stored = 0 /\ committed \in Nat /\ position \in Nat
    BY <2>1 DEF GroupOK, OffsetsOK
  <2>3. committed <= committed' /\ committed' \in {committed, position}
    BY <1>2, <2>1, <2>2 DEF GroupOK
  <2>4. \A i \in DOMAIN received : received[i] < committed'
    <3>1. \A i \in DOMAIN received : received[i] \in Nat
      BY <2>1, LenProperties, ElementOfSeq DEF OffsetsOK
    <3> QED
      BY <2>1, <2>2, <2>3, <3>1 DEF GroupOK
  <2>5. consumer' = "open" => committed' <= position'
    BY <1>1, <1>2, <2>1, <2>2, <2>3 DEF GroupOK
  <2> QED
    BY <1>1, <1>2, <2>1, <2>4, <2>5 DEF GroupOK
<1>5. FirstOK'
  <2> SUFFICES ASSUME FromFirst PROVE FirstOK'
    BY <1>1 DEF FirstOK, FromFirst
  <2>1. FirstOK /\ \A o : Seen(o)' <=> Seen(o)
    BY <1>1, SeenKept DEF KafkaInv
  <2>2. committed' \in {committed, stored, position}
    BY <1>2
  <2>3. \A o \in 1 .. committed' - 1 : Seen(o)'
    BY <2>1, <2>2 DEF FirstOK
  <2> QED
    BY <1>1, <1>2, <2>1, <2>3 DEF FirstOK, FromFirst, SeenAmong
<1> QED
  BY <1>3, <1>4, <1>5 DEF KafkaInv

LEMMA KafkaInvKept ==
    ASSUME KafkaInv, UNCHANGED kafkaVars
    PROVE  KafkaInv'
BY DEF kafkaVars, KafkaInv, OffsetsOK, GroupOK, Grouped, FirstOK, FromFirst, Seen, SeenAmong

LEMMA KafkaInvNext == KafkaInv /\ KafkaNext => KafkaInv'
BY ProducerKeeps, NewConsumerKeeps, ReceiveKeeps, CommitsKeeps, QuietKeeps DEF KafkaNext

-----------------------------------------------------------------------------

LEMMA IInvNext == IInv /\ [Next]_vars => IInv'
<1> SUFFICES ASSUME IInv, [Next]_vars PROVE IInv'
  OBVIOUS
<1>1. CASE SQSNext
  <2>1. UNCHANGED kafkaVars
    BY <1>1 DEF SQSNext, Send, ReceiveOne, Process, DeleteOne, Crash, Forgets
  <2> QED
    BY <1>1, <2>1, SQSInvNext, KafkaInvKept DEF IInv
<1>2. CASE KafkaNext
  <2>1. UNCHANGED <<sqsVars, unsent, taken, workVars>>
    BY <1>2 DEF KafkaNext
  <2> QED
    BY <1>2, <2>1, KafkaInvNext, SQSInvKept DEF IInv
<1>3. CASE UNCHANGED vars
  BY <1>3, SQSInvKept, KafkaInvKept DEF IInv, vars
<1> QED
  BY <1>1, <1>2, <1>3 DEF Next

LEMMA Invariant == Spec => []IInv
<1>1. Init => IInv
  BY SQSInvInit, KafkaInvInit DEF IInv
<1> QED
  BY <1>1, IInvNext, PTL DEF Spec

\* Whatever fails, times out or ends, what SendData said was sent is in the queue,
\* or a worker has processed it, or has reported that it cannot be decoded.
THEOREM NothingLost == Spec => []NothingIsLost
<1>1. ASSUME IInv PROVE TypeOK
  <2>1. OffsetsOK
    BY <1>1 DEF IInv, KafkaInv
  <2>2. end \in Nat /\ end <= MaxEnd /\ MaxEnd \in Nat
    BY <2>1, MessagingAssumption DEF OffsetsOK
  <2>3. /\ committed \in 0 .. MaxEnd + 1 /\ position \in 1 .. MaxEnd + 1
        /\ consumer \in {"closed", "open", "committing"}
    BY <2>1, <2>2 DEF OffsetsOK
  <2> QED
    BY <1>1, <2>3, SQSTypes DEF IInv, TypeOK
<1>2. IInv => NothingIsLost
  BY <1>1, SQSTypes DEF IInv, NothingIsLost
<1> QED
  BY <1>2, Invariant, PTL

\* With a group, Receive of pkg/kafka returns no message twice and each in its
\* order, and Receive of pkg/kafkacgo passes over no message before it returned
\* it, across any commits, failures and restarts.
THEOREM InOrder == Spec => []ReceivesInOrder
<1>1. IInv => ReceivesInOrder
  BY DEF IInv, KafkaInv, GroupOK, Grouped, FirstOK, FromFirst, SeenAmong, ReceivesInOrder
<1> QED
  BY <1>1, Invariant, PTL
=============================================================================
