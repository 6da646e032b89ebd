------------------------------ MODULE PublicIP ------------------------------
(***************************************************************************)
(* pkg/ipify over pkg/httpclient: GetPublicIP asks the service that tells  *)
(* the public address, through a Client whose transport is instrumented    *)
(* (InstrumentRoundTripper), on behalf of an inbound request.              *)
(*                                                                         *)
(* Do ends the context of the request as it returns, before GetPublicIP    *)
(* reads the body; with a debug logger it has read the whole body by then. *)
(*                                                                         *)
(* Outside src/: the transport answers or fails (it does one of them, as   *)
(* the contexts have a timeout).  A body whose context is over can still   *)
(* be read as far as its bytes have come, or fails to be.                  *)
(*                                                                         *)
(* A component of Web.                                                     *)
(***************************************************************************)
EXTENDS Naturals

CONSTANTS Requests,     \* the inbound requests
          NoID          \* no trace ID

VARIABLES call,         \* [Requests -> where GetPublicIP is]
          answer,       \* [Requests -> the response of the service]
          outHeader,    \* [Requests -> the trace ID that the service is sent]
          tripsIn,      \* the counters of InstrumentRoundTripper
          tripsOut

\* status 0 is an error of Do; whole: the service sends the body to its end;
\* body: "none", "open", "buffered" (read by Do), "read", "failed" or "dropped",
\* the last three closed.
NoAnswer == [status |-> 0, whole |-> FALSE, body |-> "none"]
Answers == [status : {0, 200, 503}, whole : BOOLEAN,
            body : {"none", "open", "buffered", "read", "failed", "dropped"}]

Calls == {"none", "calling", "answered", "returned", "ended"}

IPInit ==
    /\ call = [r \in Requests |-> "none"]
    /\ answer = [r \in Requests |-> NoAnswer]
    /\ outHeader = [r \in Requests |-> NoID]
    /\ tripsIn = 0
    /\ tripsOut = 0

\* Do takes the trace ID of the context, and the request goes out.
GetPublicIP(r, id) ==
    /\ call[r] = "none"
    /\ call' = [call EXCEPT ![r] = "calling"]
    /\ outHeader' = [outHeader EXCEPT ![r] = id]
    /\ tripsIn' = tripsIn + 1
    /\ UNCHANGED <<answer, tripsOut>>

TransportAnswers(r) ==
    /\ call[r] = "calling"
    /\ \E status \in {200, 503}, whole \in BOOLEAN :
           answer' = [answer EXCEPT ![r] =
                          [status |-> status, whole |-> whole, body |-> "open"]]
    /\ call' = [call EXCEPT ![r] = "answered"]
    /\ tripsOut' = tripsOut + 1
    /\ UNCHANGED <<outHeader, tripsIn>>

\* The service does not answer, or not in time: Do and GetPublicIP return errors.
TransportFails(r) ==
    /\ call[r] = "calling"
    /\ call' = [call EXCEPT ![r] = "ended"]
    /\ tripsOut' = tripsOut + 1
    /\ UNCHANGED <<answer, outHeader, tripsIn>>

\* A debug logger has the response dumped, and Do returns: its context is over.
DoReturns(r, debug) ==
    /\ call[r] = "answered"
    /\ answer' = [answer EXCEPT ![r].body =
                      IF debug /\ answer[r].whole THEN "buffered" ELSE @]
    /\ call' = [call EXCEPT ![r] = "returned"]
    /\ UNCHANGED <<outHeader, tripsIn, tripsOut>>

\* The status is looked at, then the body is read to its end, and closed.
BodyAfterReturn_Leaked(b) ==
    CASE b.status # 200       -> {"open"}
      [] b.body = "buffered"  -> {"read"}
      [] b.whole              -> {"read", "failed"}
      [] OTHER                -> {"failed"}
BodyAfterReturn(b) ==
    CASE b.status # 200       -> {"dropped"}
      [] b.body = "buffered"  -> {"read"}
      [] b.whole              -> {"read", "failed"}
      [] OTHER                -> {"failed"}

ReadBody(r) ==
    /\ call[r] = "returned"
    /\ \E body \in BodyAfterReturn(answer[r]) :
           answer' = [answer EXCEPT ![r].body = body]
    /\ call' = [call EXCEPT ![r] = "ended"]
    /\ UNCHANGED <<outHeader, tripsIn, tripsOut>>

GotIP(r) == answer[r].body = "read"
=============================================================================
