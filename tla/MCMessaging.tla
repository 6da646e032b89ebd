---------------------------- MODULE MCMessaging -----------------------------
\* The model of Messaging that TLC checks: a standard queue, a FIFO queue, and
\* options that New refuses.
EXTENDS Messaging

Standard == [fifo |-> FALSE, msgGroupID |-> "", wait |-> 20, visibility |-> 600]
MCOptions == {Standard,
              [Standard EXCEPT !.fifo = TRUE, !.msgGroupID = "valid"],
              [Standard EXCEPT !.fifo = TRUE, !.msgGroupID = "invalid"],
              [Standard EXCEPT !.wait = 21],
              [Standard EXCEPT !.visibility = -1]}
=============================================================================
