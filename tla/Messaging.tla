----------------------------- MODULE Messaging ------------------------------
(***************************************************************************)
(* A program with one of the library's queues: SQS, Kafka (segmentio) or   *)
(* Kafka (Confluent).  With SQS its workers do what the comments of the    *)
(* client say: receive, process, delete; a message that cannot be decoded  *)
(* is reported and deleted.  Any process can end at any step, and starts   *)
(* again.                                                                  *)
(***************************************************************************)
EXTENDS Integers, Sequences, FiniteSets, SequencesExt

CONSTANTS Libs,         \* the clients that a program can have
          Messages, Unencodable, Undecodable, Workers, None, Options,   \* SQS
          MaxEnd, MaxReceived                                           \* Kafka

ASSUME MessagingAssumption == MaxEnd \in Nat

VARIABLES opts, client, queue, visible, latest,                         \* SQS
          lib, group, startOffset, end, outbox,                         \* Kafka
          committed, position, stored, consumer, received,
          unsent,       \* the messages that the program has yet to send
          taken,        \* those that Send said were sent
          pc,           \* [Workers -> "idle", "got" or "done"]
          result,       \* [Workers -> what ReceiveData returned]
          processed,    \* the messages whose data a worker has processed
          reported      \* those whose error a worker has reported

INSTANCE SQS
INSTANCE Kafka

sqsVars == <<opts, client, queue, visible, latest>>
kafkaVars == <<lib, group, startOffset, end, outbox, committed, position, stored,
               consumer, received>>
workVars == <<pc, result, processed, reported>>
vars == <<sqsVars, kafkaVars, unsent, taken, workVars>>

Init ==
    /\ lib \in Libs
    /\ SQSInit /\ KafkaInit
    /\ lib # "sqs" => opts = CHOOSE o \in Options : TRUE
    /\ unsent = Messages
    /\ taken = {}
    /\ pc = [w \in Workers |-> "idle"]
    /\ result = [w \in Workers |-> Nothing]
    /\ processed = {}
    /\ reported = {}

Send ==
    /\ client = "ready"
    /\ \E m \in unsent, sent \in BOOLEAN :
           /\ SendData(m, sent)
           /\ unsent' = unsent \ {m}
           /\ taken' = IF sent THEN taken \cup {m} ELSE taken
    /\ UNCHANGED <<kafkaVars, workVars>>

\* A worker goes on with what has a handle, and asks again else.
ReceiveOne(w) ==
    /\ client = "ready"
    /\ pc[w] = "idle"
    /\ \E r \in {Data(m) : m \in InQueue} \cup {Nothing, Failed} :
           /\ ReceiveData(w, r)
           /\ result' = [result EXCEPT ![w] = r]
           /\ pc' = [pc EXCEPT ![w] = IF r.handle = None THEN "idle" ELSE "got"]
    /\ UNCHANGED <<kafkaVars, unsent, taken, processed, reported>>

\* Data that were not decoded are not the message.
Process(w) ==
    /\ pc[w] = "got"
    /\ LET m == {result[w].handle} IN
       IF result[w].err THEN reported' = reported \cup m /\ UNCHANGED processed
       ELSE processed' = processed \cup (m \ Undecodable) /\ UNCHANGED reported
    /\ pc' = [pc EXCEPT ![w] = "done"]
    /\ UNCHANGED <<sqsVars, kafkaVars, unsent, taken, result>>

Forgets(w) ==
    /\ pc' = [pc EXCEPT ![w] = "idle"]
    /\ result' = [result EXCEPT ![w] = Nothing]
    /\ UNCHANGED <<kafkaVars, unsent, taken, processed, reported>>

DeleteOne(w) ==
    /\ pc[w] = "done"
    /\ Delete(w, result[w].handle)
    /\ Forgets(w)

Crash(w) ==
    /\ pc[w] # "idle"
    /\ Forgets(w)
    /\ UNCHANGED sqsVars

SQSNext ==
    \/ New /\ UNCHANGED <<kafkaVars, unsent, taken, workVars>>
    \/ Send
    \/ \E w \in Workers : ReceiveOne(w) \/ Process(w) \/ DeleteOne(w) \/ Crash(w)
    \/ (\E m \in Messages : TimesOut(m)) /\ UNCHANGED <<kafkaVars, unsent, taken, workVars>>

KafkaNext ==
    /\ \/ KafkaSend \/ Produce \/ Delivered
       \/ NewConsumer \/ Receive \/ Commits \/ CommitFails \/ AutoCommits
       \/ Close \/ Dies
    /\ UNCHANGED <<sqsVars, unsent, taken, workVars>>

Next == IF lib = "sqs" THEN SQSNext ELSE KafkaNext

Spec == Init /\ [][Next]_vars

\* The visibility timeout ends; what a worker tries again and again is done in the
\* end: it is given each message that is there to be had, gets to the end of its
\* work before the message is given again, and the deletion succeeds.
Fairness ==
    \A m \in Messages \ Unencodable :
        /\ WF_vars(lib = "sqs" /\ TimesOut(m) /\ UNCHANGED <<kafkaVars, unsent, taken, workVars>>)
        /\ SF_vars(\E w \in Workers : ReceiveOne(w) /\ result'[w].handle = m)
        /\ SF_vars(\E w \in Workers : /\ result[w].handle = m /\ latest[m] = w
                                      /\ Process(w))
        /\ SF_vars(\E w \in Workers : /\ pc[w] = "done" /\ result[w].handle = m
                                      /\ DeleteSucceeds(w, m) /\ Forgets(w))

FairSpec == Spec /\ Fairness

----------------------------------------------------------------------------

TypeOK ==
    /\ client \in {"none", "refused", "ready"}
    /\ InQueue \subseteq Messages /\ Len(queue) = Cardinality(InQueue)
    /\ visible \subseteq InQueue
    /\ latest \in [Messages -> Workers \cup {None}]
    /\ pc \in [Workers -> {"idle", "got", "done"}]
    /\ \A w \in Workers : pc[w] # "idle" => result[w].handle \in Messages
    /\ processed \cap reported = {}
    /\ committed \in 0 .. MaxEnd + 1 /\ position \in 1 .. MaxEnd + 1
    /\ consumer \in {"closed", "open", "committing"}

\* What SendData said was sent stays in the queue until a worker has processed
\* it, or has been told that it cannot be decoded: whatever fails or ends in
\* between, nothing that was taken is lost, and nothing passes for data that is not.
NothingIsLost ==
    /\ TypeOK
    /\ taken \subseteq InQueue \cup processed \cup reported

\* Every message leaves the queue, those that cannot be decoded too (ReceiveData
\* returns the handle along with the error): none comes back for ever, and none
\* holds up a FIFO queue.
QueueDrains ==
    \A m \in Messages \ Unencodable :
        (lib = "sqs" /\ m \in InQueue) ~> (m \notin InQueue)

\* What Receive of the two Kafka clients promises across restarts.  With a group,
\* pkg/kafka returns no message twice, and in their order; pkg/kafkacgo, from the
\* first offset, passes over none before it returned it.
ReceivesInOrder ==
    /\ lib = "kafka" /\ group =>
           \A i, j \in DOMAIN received : i < j => received[i] < received[j]
    /\ lib = "kafkacgo" /\ startOffset = "first" =>
           \A i \in DOMAIN received : \A o \in 1 .. received[i] :
               \E j \in 1 .. i : received[j] = o
=============================================================================
