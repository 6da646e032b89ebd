-------------------------------- MODULE SQS ---------------------------------
(***************************************************************************)
(* pkg/sqs: the client of one queue.  A message stands for its body; one   *)
(* of Unencodable is data that MessageEncode refuses, one of Undecodable   *)
(* is a body that MessageDecode refuses for the type of the consumer.      *)
(*                                                                         *)
(* Outside src/: the queue hides a message that it gave until it is        *)
(* deleted or the visibility timeout is over, and then gives it again.  A  *)
(* FIFO queue gives its first message only.  Each reception has a receipt  *)
(* handle of its own, and one that is not the last may delete or not.  A   *)
(* call that fails may have been done.                                     *)
(*                                                                         *)
(* A component of Messaging.                                               *)
(***************************************************************************)
EXTENDS Integers, Sequences, SequencesExt

CONSTANTS Messages, Unencodable, Undecodable,
          Workers,      \* the consumers
          None,         \* no message, no worker, no receipt handle
          Options       \* what New is given: [fifo, msgGroupID, wait, visibility]

VARIABLES opts,         \* the options of New
          client,       \* "none", "refused" or "ready"
          queue,        \* the messages in the queue, in the order they came
          visible,      \* those that can be received
          latest        \* [Messages -> who has the last receipt handle]

InQueue == ToSet(queue)

SQSInit ==
    /\ opts \in Options
    /\ client = "none"
    /\ queue = <<>>
    /\ visible = {}
    /\ latest = [m \in Messages |-> None]

\* The options that loadConfig takes.
Accepts(o) ==
    /\ o.wait \in 0 .. 20
    /\ o.visibility \in 0 .. 43200
    /\ o.fifo => o.msgGroupID = "valid"

\* New also fails when LoadDefaultConfig cannot load the configuration of AWS.
New ==
    /\ client = "none"
    /\ client' \in {"ready", "refused"}
    /\ client' = "ready" => Accepts(opts)
    /\ UNCHANGED <<opts, queue, visible, latest>>

SendMessage(m) ==
    /\ queue' = Append(queue, m)
    /\ visible' = visible \cup {m}

\* SendData, and what it returns.
SendData_Silent(m, sent) ==
    /\ \/ sent /\ m \notin Unencodable /\ SendMessage(m)
       \/ sent /\ m \in Unencodable /\ UNCHANGED <<queue, visible>>
       \/ ~sent /\ UNCHANGED <<queue, visible>>
    /\ UNCHANGED <<opts, client, latest>>
SendData(m, sent) ==
    /\ \/ sent /\ m \notin Unencodable /\ SendMessage(m)
       \/ ~sent /\ m \notin Unencodable /\ SendMessage(m)
       \/ ~sent /\ UNCHANGED <<queue, visible>>
    /\ UNCHANGED <<opts, client, latest>>

ReceiveMessage(w, m) ==
    /\ m \in visible
    /\ opts.fifo => m = Head(queue)
    /\ visible' = IF opts.visibility = 0 THEN visible ELSE visible \ {m}
    /\ latest' = [latest EXCEPT ![m] = w]

\* What ReceiveData returns for a message: the handle also when the body cannot
\* be decoded.
Data_NoHandle(m) == [handle |-> IF m \in Undecodable THEN None ELSE m,
                     err |-> m \in Undecodable]
Data(m) == [handle |-> m, err |-> m \in Undecodable]

Nothing == [handle |-> None, err |-> FALSE]
Failed == [handle |-> None, err |-> TRUE]

\* Receive and ReceiveData: a message, none in time, or an error, with which the
\* queue may have hidden a message all the same.
ReceiveData(w, result) ==
    /\ \/ \E m \in InQueue : ReceiveMessage(w, m) /\ result \in {Data(m), Failed}
       \/ result \in {Nothing, Failed} /\ UNCHANGED <<visible, latest>>
    /\ UNCHANGED <<opts, client, queue>>

\* The visibility timeout of a message is over.
TimesOut(m) ==
    /\ m \in InQueue \ visible
    /\ visible' = visible \cup {m}
    /\ UNCHANGED <<opts, client, queue, latest>>

Removed(m) ==
    /\ \/ \E i \in DOMAIN queue : queue[i] = m /\ queue' = RemoveAt(queue, i)
       \/ m \notin InQueue /\ UNCHANGED queue
    /\ visible' = visible \ {m}

\* Delete: nothing is asked for an empty handle; the queue deletes under the last
\* handle, and under another, or with an error, as it likes.
Delete(w, handle) ==
    /\ IF handle = None THEN UNCHANGED <<queue, visible>>
       ELSE Removed(handle) \/ UNCHANGED <<queue, visible>>
    /\ UNCHANGED <<opts, client, latest>>

DeleteSucceeds(w, handle) ==
    /\ handle # None
    /\ latest[handle] = w
    /\ Removed(handle)
    /\ UNCHANGED <<opts, client, latest>>
=============================================================================
