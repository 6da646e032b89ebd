------------------------------- MODULE Kafka --------------------------------
(***************************************************************************)
(* pkg/kafka and pkg/kafkacgo: the producer and the consumer of one        *)
(* partition.  A message stands for its offset, from 1 on.                 *)
(*                                                                         *)
(* Outside src/: ReadMessage of segmentio (pkg/kafka) takes a message,     *)
(* commits its offset when the reader has a group, and returns the message *)
(* if the commit did not fail; that of Confluent (pkg/kafkacgo) returns    *)
(* the message, whose offset is committed in the background and by Close.  *)
(* A consumer begins after the last commit of its group.  Neither producer *)
(* waits for a broker: one asks for no acknowledgement, the other puts the *)
(* message in a queue whose reports nobody reads.                          *)
(*                                                                         *)
(* A component of Messaging.                                               *)
(***************************************************************************)
EXTENDS Integers, Sequences

CONSTANTS MaxEnd,       \* bound of the model: messages in the partition
          MaxReceived   \* bound of the model: messages received

VARIABLES lib,          \* "kafka", "kafkacgo", or another client
          group,        \* the consumer has a group
          startOffset,  \* "first" or "last", where a group begins
          end,          \* the last offset of the partition
          outbox,       \* the messages that the producer of kafkacgo has queued
          committed,    \* the next offset of the group, 0 before the first commit
          position,     \* the next offset of the consumer
          stored,       \* the offset that the background commits, 0 for none
          consumer,     \* "closed", "open" or "committing"
          received      \* history: the offsets that Receive returned

topicVars == <<lib, group, startOffset, end, outbox>>
consumerVars == <<committed, position, stored, consumer, received>>

KafkaInit ==
    /\ group \in BOOLEAN /\ startOffset \in {"first", "last"}
    /\ CASE lib = "kafka" -> TRUE
         [] lib = "kafkacgo" -> group
         [] OTHER -> ~group /\ startOffset = "first"
    /\ end = 0 /\ outbox = 0
    /\ committed = 0 /\ position = 1 /\ stored = 0
    /\ consumer = "closed"
    /\ received = <<>>

\* Send of pkg/kafka returns; the message is in the partition or lost.
KafkaSend ==
    /\ lib = "kafka"
    /\ end < MaxEnd /\ end' = end + 1
    /\ UNCHANGED <<lib, group, startOffset, outbox, consumerVars>>

\* Send of pkg/kafkacgo queues the message; it is delivered later, or lost.
Produce ==
    /\ lib = "kafkacgo"
    /\ end + outbox < MaxEnd /\ outbox' = outbox + 1
    /\ UNCHANGED <<lib, group, startOffset, end, consumerVars>>

Delivered ==
    /\ outbox > 0
    /\ outbox' = outbox - 1
    /\ end' \in {end, end + 1}
    /\ UNCHANGED <<lib, group, startOffset, consumerVars>>

\* NewConsumer.
StartsAt ==
    IF group /\ committed # 0 THEN committed
    ELSE IF group /\ startOffset = "last" THEN end + 1 ELSE 1

NewConsumer ==
    /\ lib \in {"kafka", "kafkacgo"}
    /\ consumer = "closed"
    /\ consumer' = "open"
    /\ position' = StartsAt
    /\ stored' = 0
    /\ UNCHANGED <<topicVars, committed, received>>

Returns(offset) == /\ Len(received) < MaxReceived
                   /\ received' = Append(received, offset)

\* Receive.  With a group, ReadMessage of segmentio has a commit to wait for.
Receive_Fetches ==
    /\ consumer = "open"
    /\ position <= end
    /\ position' = position + 1
    /\ Returns(position)
    /\ stored' = IF lib = "kafkacgo" THEN position + 1 ELSE stored
    /\ UNCHANGED <<topicVars, committed, consumer>>
Receive ==
    /\ consumer = "open"
    /\ position <= end
    /\ position' = position + 1
    /\ IF lib = "kafka" /\ group
       THEN consumer' = "committing" /\ UNCHANGED received
       ELSE Returns(position) /\ UNCHANGED consumer
    /\ stored' = IF lib = "kafkacgo" THEN position + 1 ELSE stored
    /\ UNCHANGED <<topicVars, committed>>

Commits ==
    /\ consumer = "committing"
    /\ committed' = position
    /\ Returns(position - 1)
    /\ consumer' = "open"
    /\ UNCHANGED <<topicVars, position, stored>>

\* Receive returns an error; the next one goes on with the next message.
CommitFails ==
    /\ consumer = "committing"
    /\ committed' \in {committed, position}
    /\ consumer' = "open"
    /\ UNCHANGED <<topicVars, position, stored, received>>

AutoCommits ==
    /\ consumer = "open" /\ stored # 0
    /\ committed' = stored
    /\ UNCHANGED <<topicVars, position, stored, consumer, received>>

Close ==
    /\ consumer = "open"
    /\ consumer' = "closed"
    /\ committed' = IF stored # 0 THEN stored ELSE committed
    /\ UNCHANGED <<topicVars, position, stored, received>>

\* The process ends anywhere, and is started again.
Dies ==
    /\ consumer # "closed"
    /\ consumer' = "closed"
    /\ UNCHANGED <<topicVars, committed, position, stored, received>>
=============================================================================
