SPECIFICATION FairSpec
CONSTANTS
  Libs = {"sqs", "kafka", "kafkacgo"}
  Messages = {m1, m2, m3}
  Unencodable = {m3}
  Undecodable = {m2}
  Workers = {w1, w2}
  None = None
  Options <- MCOptions
  MaxEnd = 4
  MaxReceived = 6
INVARIANTS NothingIsLost ReceivesInOrder
PROPERTIES QueueDrains
CHECK_DEADLOCK FALSE
