----------------------------- MODULE MCService -----------------------------
\* The model of Service that TLC checks: both kinds of requests, on the server
\* that is started last.
EXTENDS Service

MCBindOrder == <<"public">>
MCServerOf == [r \in Requests |-> "public"]
=============================================================================
