----------------------------- MODULE WebProofs ------------------------------
(***************************************************************************)
(* Proofs about Web, for any requests, configurations, users, times and    *)
(* bounds: what the proxy of a response knows, the counters, the trace IDs *)
(* and the answers of the IP handler; and that a token lets its user in    *)
(* for as long after a login as it should.                                 *)
(*                                                                         *)
(* The invariant says what a request has at each point of its life: an     *)
(* idle one nothing, one that calls GetPublicIP a body that is open, read  *)
(* or closed with the call, and all of them the ID and the token that they *)
(* came with.                                                              *)
(***************************************************************************)
EXTENDS Web, FiniteSetTheorems, TLAPS

Response == [headerWritten : BOOLEAN, status : Nat, size : Nat, tee : BOOLEAN,
             sent : Nat, bytes : Nat, copied : Nat, flushed : BOOLEAN, again : Nat]

\* What the proxy has recorded is what net/http sent, up to a first flush and to
\* what is counted again; before the first header, neither has a status, and after
\* it net/http has one.
Recorded(x) ==
    /\ IF x.flushed THEN x.status = 0 /\ x.sent = 200 ELSE x.status = x.sent
    /\ x.size = x.bytes + x.again
    /\ x.headerWritten <=> x.sent # 0

Calling == {r \in Requests : call[r] = "calling"}

RequestTypes ==
    /\ pc \in [Requests -> {"idle", "handling", "returned", "panicking", "done"}]
    /\ DOMAIN req = Requests
    /\ \A r \in Requests : req[r].header \in HeaderIDs \cup {NoID}
    /\ traceID \in [Requests -> TraceIDs \cup {NoID}]
    /\ logged \in [Requests -> SUBSET TraceIDs]
    /\ rw \in [Requests -> Response]
    /\ inbound \in [{"in", "out", "inFlight", "requests"} -> Nat]

IPTypes ==
    /\ call \in [Requests -> Calls]
    /\ answer \in [Requests -> Answers]
    /\ outHeader \in [Requests -> TraceIDs \cup {NoID}]
    /\ tripsIn \in Nat /\ tripsOut \in Nat

TokenTypes ==
    /\ clock \in 0 .. MaxClock
    /\ \A t \in issued : t.form = "signed" /\ t.user \in Users
    /\ login \in [Users -> {Never} \cup 0 .. MaxClock]

Types ==
    /\ server \in {"new", "refused", "panicked", "listening", "crashed"}
    /\ RequestTypes /\ IPTypes /\ TokenTypes

\* The counters of the requests and of the round trips.
Counted ==
    /\ IsFiniteSet(Active)
    /\ Cardinality(Active) = IF Statsd THEN inbound.in - inbound.out
                                      ELSE inbound.inFlight
    /\ IsFiniteSet(Calling)
    /\ Cardinality(Calling) = tripsIn - tripsOut

\* What a request is at each point of its life.
Life(r) ==
    /\ pc[r] = "idle" => req[r] = NoRequest
    /\ pc[r] \in {"panicking", "done"} => req[r].path = "app"
    /\ pc[r] = "handling" /\ req[r].path # "app" => rw[r] = NewResponse
    /\ r \in Active => Recorded(rw[r])

\* Its trace ID, and where it has gone.
Traced(r) ==
    /\ traceID[r] = IF pc[r] = "idle" THEN NoID ELSE HeaderID(r, req[r].header, "outer")
    /\ outHeader[r] = IF call[r] = "none" THEN NoID ELSE traceID[r]
    /\ req[r].header # NoID \/ cfg.router = "jsendx" => logged[r] \subseteq {traceID[r]}

\* How far GetPublicIP has come, and what became of the body.
Asked(r) ==
    /\ call[r] # "none" => req[r].path = "ip" /\ pc[r] \in {"handling", "returned"}
    /\ call[r] \in {"none", "calling"} => answer[r] = NoAnswer
    /\ call[r] = "answered" => answer[r].body = "open"
    /\ call[r] = "returned" =>
           answer[r].body = "open" \/ (answer[r].body = "buffered" /\ answer[r].whole)
    /\ call[r] = "ended" => /\ answer[r].body \notin {"open", "buffered"}
                            /\ answer[r].body = "read" => answer[r].whole
    /\ req[r].path = "ip" /\ pc[r] = "returned" =>
           call[r] = "ended" /\ (rw[r].sent = 200 <=> GotIP(r))

RequestInv(r) == Life(r) /\ Traced(r) /\ Asked(r)

\* A token that was signed ends no later than one of its user's last login would.
Granted ==
    /\ \A t \in issued : /\ login[t.user] # Never
                         /\ t.exp \in Int /\ t.exp <= ExpiresAt(login[t.user])
    /\ \A u \in Users : login[u] <= clock
    /\ \A r \in Requests : req[r].token.form = "signed" => req[r].token \in issued

IInv == /\ Types
        /\ Counted
        /\ \A r \in Requests : RequestInv(r)
        /\ Granted

-----------------------------------------------------------------------------
(* Responses.                                                              *)

\* The first status goes to the client.
LEMMA NetWriteHeaderFields ==
    ASSUME NEW x \in Response, NEW code \in Nat
    PROVE  /\ NetWriteHeader(x, code) \in Response
           /\ NetWriteHeader(x, code).sent = IF x.sent = 0 THEN code ELSE x.sent
           /\ NetWriteHeader(x, code).headerWritten = x.headerWritten
           /\ NetWriteHeader(x, code).status = x.status
           /\ NetWriteHeader(x, code).size = x.size
           /\ NetWriteHeader(x, code).tee = x.tee
           /\ NetWriteHeader(x, code).bytes = x.bytes
           /\ NetWriteHeader(x, code).copied = x.copied
           /\ NetWriteHeader(x, code).flushed = x.flushed /\ NetWriteHeader(x, code).again = x.again
BY DEF NetWriteHeader, Response

\* Bytes that come first send the status 200.
LEMMA NetWriteFields ==
    ASSUME NEW x \in Response, NEW n \in Nat
    PROVE  /\ NetWrite(x, n) \in Response
           /\ NetWrite(x, n).sent = IF x.sent = 0 THEN 200 ELSE x.sent
           /\ NetWrite(x, n).headerWritten = x.headerWritten
           /\ NetWrite(x, n).status = x.status
           /\ NetWrite(x, n).size = x.size
           /\ NetWrite(x, n).tee = x.tee
           /\ NetWrite(x, n).bytes = x.bytes + n
           /\ NetWrite(x, n).copied = x.copied
           /\ NetWrite(x, n).flushed = x.flushed /\ NetWrite(x, n).again = x.again
<1> DEFINE y == NetWriteHeader(x, OK)
<1>1. OK = 200 /\ OK \in Nat
  BY DEF OK
<1>2. /\ y \in Response /\ y.sent = IF x.sent = 0 THEN 200 ELSE x.sent
      /\ y.headerWritten = x.headerWritten /\ y.status = x.status /\ y.size = x.size
      /\ y.tee = x.tee /\ y.bytes = x.bytes /\ y.copied = x.copied
      /\ y.flushed = x.flushed /\ y.again = x.again
  BY <1>1, NetWriteHeaderFields
<1>3. NetWrite(x, n) = [y EXCEPT !.bytes = y.bytes + n]
  BY DEF NetWrite
<1> HIDE DEF y
<1> QED
  BY <1>2, <1>3 DEF Response

\* The proxy records the first status.
LEMMA WriteHeaderFields ==
    ASSUME NEW x \in Response, NEW code \in Nat
    PROVE  /\ WriteHeader(x, code) \in Response
           /\ WriteHeader(x, code).headerWritten
           /\ WriteHeader(x, code).status = IF x.headerWritten THEN x.status ELSE code
           /\ WriteHeader(x, code).sent =
                  IF x.headerWritten \/ x.sent # 0 THEN x.sent ELSE code
           /\ WriteHeader(x, code).size = x.size
           /\ WriteHeader(x, code).tee = x.tee
           /\ WriteHeader(x, code).bytes = x.bytes
           /\ WriteHeader(x, code).copied = x.copied
           /\ WriteHeader(x, code).flushed = x.flushed /\ WriteHeader(x, code).again = x.again
<1> DEFINE y == [x EXCEPT !.status = code, !.headerWritten = TRUE]
<1>1. /\ y \in Response /\ y.headerWritten /\ y.status = code /\ y.sent = x.sent
      /\ y.size = x.size /\ y.tee = x.tee /\ y.bytes = x.bytes /\ y.copied = x.copied
      /\ y.flushed = x.flushed /\ y.again = x.again
  BY DEF Response
<1>2. WriteHeader(x, code) = IF x.headerWritten THEN x ELSE NetWriteHeader(y, code)
  BY DEF WriteHeader
<1> HIDE DEF y
<1>3. CASE x.headerWritten
  BY <1>2, <1>3
<1>4. CASE ~x.headerWritten
  BY <1>1, <1>2, <1>4, NetWriteHeaderFields
<1> QED
  BY <1>3, <1>4

\* What a call of Write leaves.
LEMMA WriteFields ==
    ASSUME NEW x \in Response, NEW n \in Nat
    PROVE  /\ Write(x, n) \in Response
           /\ Write(x, n).headerWritten
           /\ Write(x, n).status = IF x.headerWritten THEN x.status ELSE 200
           /\ Write(x, n).sent = IF x.sent = 0 THEN 200 ELSE x.sent
           /\ Write(x, n).size = x.size + n
           /\ Write(x, n).tee = x.tee
           /\ Write(x, n).bytes = x.bytes + n
           /\ Write(x, n).flushed = x.flushed /\ Write(x, n).again = x.again
<1> DEFINE h == MaybeWriteHeader(x)
           y == NetWrite(h, n)
<1>1. OK = 200 /\ OK \in Nat
  BY DEF OK
<1>2. /\ h \in Response /\ h.headerWritten
      /\ h.status = (IF x.headerWritten THEN x.status ELSE 200)
      /\ h.sent = (IF x.headerWritten \/ x.sent # 0 THEN x.sent ELSE 200)
      /\ h.size = x.size /\ h.tee = x.tee /\ h.bytes = x.bytes
      /\ h.flushed = x.flushed /\ h.again = x.again
  BY <1>1, WriteHeaderFields DEF MaybeWriteHeader
<1> HIDE DEF h
<1>3. /\ y \in Response /\ y.headerWritten = h.headerWritten /\ y.status = h.status
      /\ y.sent = (IF h.sent = 0 THEN 200 ELSE h.sent)
      /\ y.size = h.size /\ y.tee = h.tee /\ y.bytes = h.bytes + n
      /\ y.flushed = h.flushed /\ y.again = h.again
  BY <1>2, NetWriteFields
<1> DEFINE c == IF x.tee THEN y.copied + n ELSE y.copied
           z == Write(x, n)
<1>4. z = [y EXCEPT !.size = y.size + n, !.copied = c] /\ c \in Nat
  <2>1. z = [y EXCEPT !.size = y.size + n, !.copied = c]
    BY DEF Write, h
  <2>2. y.copied \in Nat
    BY <1>3 DEF Response
  <2> QED
    BY <2>1, <2>2
<1> HIDE DEF y, c
<1>5. /\ z \in Response /\ z.headerWritten = y.headerWritten /\ z.status = y.status
      /\ z.sent = y.sent /\ z.size = y.size + n /\ z.tee = y.tee /\ z.bytes = y.bytes
      /\ z.flushed = y.flushed /\ z.again = y.again
  <2> HIDE DEF z
  <2>1. y.size + n \in Nat
    BY <1>3 DEF Response
  <2>2. z \in Response
    BY <1>3, <1>4, <2>1 DEF Response
  <2>3. /\ z.headerWritten = y.headerWritten /\ z.status = y.status /\ z.sent = y.sent
        /\ z.size = y.size + n /\ z.tee = y.tee /\ z.bytes = y.bytes
        /\ z.flushed = y.flushed /\ z.again = y.again
    BY <1>3, <1>4 DEF Response
  <2> QED
    BY <2>2, <2>3
<1> HIDE DEF z
<1>6. /\ z.headerWritten /\ z.status = (IF x.headerWritten THEN x.status ELSE 200)
      /\ z.sent = (IF x.sent = 0 THEN 200 ELSE x.sent)
      /\ z.size = x.size + n /\ z.tee = x.tee /\ z.bytes = x.bytes + n
      /\ z.flushed = x.flushed /\ z.again = x.again
  BY <1>2, <1>3, <1>5
<1> QED
  BY <1>5, <1>6 DEF z

\* What a flush leaves.
LEMMA FlushFields ==
    ASSUME NEW x \in Response
    PROVE  /\ Flush(x) \in Response
           /\ Flush(x).headerWritten
           /\ Flush(x).status = x.status
           /\ Flush(x).sent = IF x.sent = 0 THEN 200 ELSE x.sent
           /\ Flush(x).size = x.size
           /\ Flush(x).bytes = x.bytes
           /\ Flush(x).flushed <=> x.flushed \/ ~x.headerWritten
           /\ Flush(x).again = x.again
<1> DEFINE y == NetWriteHeader(x, OK)
           f == x.flushed \/ ~x.headerWritten
<1>1. /\ y \in Response /\ y.sent = (IF x.sent = 0 THEN 200 ELSE x.sent)
      /\ y.status = x.status /\ y.size = x.size /\ y.bytes = x.bytes
      /\ y.headerWritten = x.headerWritten
      /\ y.flushed = x.flushed /\ y.again = x.again
  BY NetWriteHeaderFields DEF OK
<1>2. Flush(x) = [y EXCEPT !.headerWritten = TRUE, !.flushed = f]
  BY <1>1 DEF Flush
<1>3. f \in BOOLEAN
  OBVIOUS
<1> HIDE DEF y, f
<1>4. /\ Flush(x) \in Response /\ Flush(x).headerWritten /\ Flush(x).sent = y.sent
      /\ Flush(x).status = y.status /\ Flush(x).size = y.size /\ Flush(x).bytes = y.bytes
      /\ Flush(x).flushed = f /\ Flush(x).again = y.again
  BY <1>1, <1>2, <1>3 DEF Response
<1> QED
  BY <1>1, <1>4 DEF f

\* What a call of ReadFrom leaves, if it reads.
LEMMA ReadFromFields ==
    ASSUME NEW x \in Response, NEW readerFrom \in BOOLEAN, NEW n \in Nat
    PROVE  /\ ReadFrom(x, readerFrom, n) \in Response
           /\ \/ ReadFrom(x, readerFrom, n) = x
              \/ /\ ReadFrom(x, readerFrom, n).headerWritten
                 /\ ReadFrom(x, readerFrom, n).status =
                        IF x.headerWritten THEN x.status ELSE 200
                 /\ ReadFrom(x, readerFrom, n).sent = IF x.sent = 0 THEN 200 ELSE x.sent
                 /\ ReadFrom(x, readerFrom, n).bytes = x.bytes + n
                 /\ ReadFrom(x, readerFrom, n).flushed = x.flushed
                 /\ \/ /\ ReadFrom(x, readerFrom, n).size = x.size + n
                       /\ ReadFrom(x, readerFrom, n).again = x.again
                    \/ /\ ReadFrom(x, readerFrom, n).size = x.size + n + n
                       /\ ReadFrom(x, readerFrom, n).again = x.again + n
<1> DEFINE z == ReadFrom(x, readerFrom, n)
<1>1. CASE x.tee
  <2> DEFINE y == Write(x, n)
  <2>1. /\ y \in Response /\ y.headerWritten
        /\ y.status = (IF x.headerWritten THEN x.status ELSE 200)
        /\ y.sent = (IF x.sent = 0 THEN 200 ELSE x.sent)
        /\ y.size = x.size + n /\ y.bytes = x.bytes + n
        /\ y.flushed = x.flushed /\ y.again = x.again
    BY WriteFields
  <2> DEFINE s == y.size + n
             g == y.again + n
  <2>2. z = [y EXCEPT !.size = s, !.again = g]
    BY <1>1 DEF ReadFrom
  <2>3. s \in Nat /\ g \in Nat
    BY <2>1 DEF Response
  <2> HIDE DEF y, z, s, g
  <2>4. /\ z \in Response /\ z.headerWritten = y.headerWritten /\ z.status = y.status
        /\ z.sent = y.sent /\ z.size = s /\ z.bytes = y.bytes
        /\ z.flushed = y.flushed /\ z.again = g
    BY <2>1, <2>2, <2>3 DEF Response
  <2> QED
    BY <2>1, <2>4 DEF z, s, g
<1>2. CASE ~x.tee /\ readerFrom
  <2> DEFINE h == MaybeWriteHeader(x)
             y == NetWrite(h, n)
  <2>1. /\ h \in Response /\ h.headerWritten
        /\ h.status = (IF x.headerWritten THEN x.status ELSE 200)
        /\ h.sent = (IF x.headerWritten \/ x.sent # 0 THEN x.sent ELSE 200)
        /\ h.size = x.size /\ h.bytes = x.bytes
        /\ h.flushed = x.flushed /\ h.again = x.again
    BY WriteHeaderFields DEF MaybeWriteHeader, OK
  <2>2. z = [y EXCEPT !.size = y.size + n]
    BY <1>2 DEF ReadFrom
  <2> HIDE DEF h
  <2>3. /\ y \in Response /\ y.headerWritten /\ y.status = h.status
        /\ y.sent = (IF h.sent = 0 THEN 200 ELSE h.sent)
        /\ y.size = h.size /\ y.bytes = h.bytes + n
        /\ y.flushed = h.flushed /\ y.again = h.again
    BY <2>1, NetWriteFields
  <2>4. y.size \in Nat
    BY <2>3 DEF Response
  <2> HIDE DEF y, z
  <2>5. /\ z \in Response /\ z.headerWritten /\ z.status = y.status /\ z.sent = y.sent
        /\ z.size = y.size + n /\ z.bytes = y.bytes
        /\ z.flushed = y.flushed /\ z.again = y.again
    BY <2>2, <2>3, <2>4 DEF Response
  <2> QED
    BY <2>1, <2>3, <2>5 DEF z
<1>3. CASE ~x.tee /\ ~readerFrom
  BY <1>3 DEF ReadFrom
<1> QED
  BY <1>1, <1>2, <1>3

\* Each call that a handler can make keeps what is recorded.
LEMMA CallsRecord ==
    ASSUME NEW x \in Response, Recorded(x), NEW n \in Nat, NEW code \in Nat \ {0}
    PROVE  /\ WriteHeader(x, code) \in Response /\ Recorded(WriteHeader(x, code))
           /\ Write(x, n) \in Response /\ Recorded(Write(x, n))
           /\ Flush(x) \in Response /\ Recorded(Flush(x))
           /\ Tee(x) \in Response /\ Recorded(Tee(x))
           /\ \A readerFrom \in BOOLEAN : /\ ReadFrom(x, readerFrom, n) \in Response
                                          /\ Recorded(ReadFrom(x, readerFrom, n))
           /\ Reply(x, code, n) \in Response /\ Recorded(Reply(x, code, n))
<1>0. /\ x.sent \in Nat /\ x.size \in Nat /\ x.bytes \in Nat /\ x.again \in Nat
      /\ x.headerWritten \in BOOLEAN /\ x.flushed \in BOOLEAN
  BY DEF Response
<1>1. WriteHeader(x, code) \in Response /\ Recorded(WriteHeader(x, code))
  <2> DEFINE y == WriteHeader(x, code)
  <2>1. /\ y \in Response /\ y.headerWritten /\ y.size = x.size /\ y.bytes = x.bytes
        /\ y.status = (IF x.headerWritten THEN x.status ELSE code)
        /\ y.sent = (IF x.headerWritten \/ x.sent # 0 THEN x.sent ELSE code)
        /\ y.flushed = x.flushed /\ y.again = x.again
    BY WriteHeaderFields
  <2> HIDE DEF y
  <2>2. Recorded(y)
    BY <1>0, <2>1 DEF Recorded
  <2> QED
    BY <2>1, <2>2 DEF y
<1>2. ASSUME NEW w \in Response, Recorded(w)
      PROVE  Write(w, n) \in Response /\ Recorded(Write(w, n))
  <2> DEFINE y == Write(w, n)
  <2>1. /\ w.sent \in Nat /\ w.size \in Nat /\ w.bytes \in Nat /\ w.again \in Nat
        /\ w.headerWritten \in BOOLEAN /\ w.flushed \in BOOLEAN
    BY DEF Response
  <2>2. /\ y \in Response /\ y.headerWritten /\ y.size = w.size + n /\ y.bytes = w.bytes + n
        /\ y.status = (IF w.headerWritten THEN w.status ELSE 200)
        /\ y.sent = (IF w.sent = 0 THEN 200 ELSE w.sent)
        /\ y.flushed = w.flushed /\ y.again = w.again
    BY WriteFields
  <2> HIDE DEF y
  <2>3. Recorded(y)
    BY <1>2, <2>1, <2>2 DEF Recorded
  <2> QED
    BY <2>2, <2>3 DEF y
<1>3. Flush(x) \in Response /\ Recorded(Flush(x))
  BY <1>0, FlushFields DEF Recorded
<1>4. Tee(x) \in Response /\ Recorded(Tee(x))
  BY DEF Tee, Response, Recorded
<1>5. ASSUME NEW readerFrom \in BOOLEAN
      PROVE  /\ ReadFrom(x, readerFrom, n) \in Response
             /\ Recorded(ReadFrom(x, readerFrom, n))
  <2> DEFINE z == ReadFrom(x, readerFrom, n)
  <2>1. /\ z \in Response
        /\ \/ z = x
           \/ /\ z.headerWritten
              /\ z.status = (IF x.headerWritten THEN x.status ELSE 200)
              /\ z.sent = (IF x.sent = 0 THEN 200 ELSE x.sent)
              /\ z.bytes = x.bytes + n
              /\ z.flushed = x.flushed
              /\ \/ z.size = x.size + n /\ z.again = x.again
                 \/ z.size = x.size + n + n /\ z.again = x.again + n
    BY ReadFromFields
  <2> HIDE DEF z
  <2>2. z # x => Recorded(z)
    BY <1>0, <2>1 DEF Recorded
  <2>3. Recorded(z)
    BY <2>2
  <2> QED
    BY <2>1, <2>3 DEF z
<1>6. Reply(x, code, n) \in Response /\ Recorded(Reply(x, code, n))
  BY <1>1, <1>2 DEF Reply
<1> QED
  BY <1>1, <1>2, <1>3, <1>4, <1>5, <1>6

\* A response that has just begun.
LEMMA NewResponseRecorded == NewResponse \in Response /\ Recorded(NewResponse)
BY DEF NewResponse, Response, Recorded

\* A handler that only sends a status sends that status.
LEMMA ReplySends ==
    ASSUME NEW code \in Nat \ {0}, NEW n \in Nat
    PROVE  Reply(NewResponse, code, n).sent = code /\ Reply(NewResponse, code, n).status = code
<1> DEFINE h == WriteHeader(NewResponse, code)
<1>1. ~NewResponse.headerWritten /\ NewResponse.sent = 0
  BY DEF NewResponse
<1>2. h \in Response /\ h.headerWritten /\ h.sent = code /\ h.status = code
  BY <1>1, NewResponseRecorded, WriteHeaderFields
<1> DEFINE y == Write(h, n)
<1>3. Reply(NewResponse, code, n) = y
  BY DEF Reply
<1> HIDE DEF h
<1>4. y.sent = (IF h.sent = 0 THEN 200 ELSE h.sent) /\ y.status = h.status
  BY <1>2, WriteFields
<1> HIDE DEF y
<1> QED
  BY <1>2, <1>3, <1>4

\* The handler of a panic sends what net/http sends.
LEMMA NetReplyType ==
    ASSUME NEW x \in Response, NEW code \in Nat, NEW n \in Nat
    PROVE  NetReply(x, code, n) \in Response
BY NetWriteHeaderFields, NetWriteFields DEF NetReply

-----------------------------------------------------------------------------
(* Seconds.                                                                *)

\* The second of a later tick is not earlier.
LEMMA SecondsMonotone ==
    ASSUME NEW a \in Nat, NEW b \in Nat, a <= b
    PROVE  Seconds(a) \in Nat /\ Seconds(b) \in Nat /\ Seconds(a) <= Seconds(b)
BY TokenAssumption DEF Seconds

\* Two ticks of which one is in no later a second than the other.
LEMMA SecondsApart ==
    ASSUME NEW a \in Nat, NEW b \in Nat, Seconds(a) <= Seconds(b)
    PROVE  a < b + TicksPerSecond
BY TokenAssumption DEF Seconds

-----------------------------------------------------------------------------
(* What the actions have in common.                                        *)

\* At the start every request is idle.
LEMMA IInvInit == Init => IInv
<1> SUFFICES ASSUME Init PROVE IInv
  OBVIOUS
<1> USE DEF Init, RoutesInit, IPInit, TokenInit
<1>1. RequestTypes
  BY NewResponseRecorded DEF RequestTypes, NoRequest
<1>2. IPTypes
  BY DEF IPTypes, Calls, Answers, NoAnswer
<1>3. TokenTypes
  BY TokenAssumption DEF TokenTypes, Never
<1>4. Active = {} /\ Calling = {}
  BY DEF Active, Calling
<1>5. Counted
  BY <1>4, FS_EmptySet DEF Counted
<1>6. \A r \in Requests : RequestInv(r)
  BY <1>4 DEF RequestInv, Life, Traced, Asked, NoRequest
<1>7. Granted
  <2>1. NoRequest.token.form = "missing"
    BY DEF NoRequest, NoToken
  <2>2. \A r \in Requests : req[r].token.form # "signed"
    BY <2>1
  <2>3. issued = {} /\ \A u \in Users : login[u] <= clock
    BY DEF Never
  <2> QED
    BY <2>2, <2>3 DEF Granted
<1> QED
  BY <1>1, <1>2, <1>3, <1>5, <1>6, <1>7 DEF IInv, Types

\* A trace ID is that of the header, or a fresh one.
LEMMA HeaderIDType ==
    ASSUME NEW r \in Requests, NEW header \in HeaderIDs \cup {NoID},
           NEW layer \in {"outer", "inner"}
    PROVE  HeaderID(r, header, layer) \in TraceIDs
BY DEF HeaderID, TraceIDs, Fresh

\* What nobody touches stays as it is.
LEMMA Untouched ==
    ASSUME NEW q \in Requests, RequestInv(q), cfg' = cfg,
           pc'[q] = pc[q], req'[q] = req[q], traceID'[q] = traceID[q],
           logged'[q] = logged[q], rw'[q] = rw[q], call'[q] = call[q],
           answer'[q] = answer[q], outHeader'[q] = outHeader[q]
    PROVE  RequestInv(q)'
<1>1. Life(q)'
  BY DEF RequestInv, Life, Active
<1>2. Traced(q)'
  BY DEF RequestInv, Traced
<1>3. Asked(q)'
  BY DEF RequestInv, Asked, GotIP
<1> QED
  BY <1>1, <1>2, <1>3 DEF RequestInv

\* The counters, when nobody comes, goes or calls.
LEMMA CountedKept ==
    ASSUME Counted, Active' = Active, Calling' = Calling,
           UNCHANGED <<cfg, inbound, tripsIn, tripsOut>>
    PROVE  Counted'
BY DEF Counted, Statsd

\* What the tokens, the clock and the logins become in one step.
TokenStep ==
    \/ UNCHANGED tokenVars
    \/ Tick
    \/ \E u \in Users, status \in Nat : Login(u, Signs, status)
    \/ \E r \in Requests, status \in Nat : Renew(req[r].token, Signs, status)

\* A login gives a token that ends ExpirationTime later, and a renewal gives the
\* token again, as it was.
LEMMA TokensKept ==
    ASSUME IInv, TokenStep, UNCHANGED req
    PROVE  TokenTypes' /\ Granted'
<1> USE TokenAssumption DEF Never
<1>0. /\ TokenTypes /\ Granted
      /\ \A u \in Users : login[u] \in {-1} \cup 0 .. MaxClock
      /\ clock \in Nat
  BY DEF IInv, Types, TokenTypes
<1>1. CASE UNCHANGED tokenVars
  BY <1>0, <1>1 DEF tokenVars, TokenTypes, Granted
<1>2. CASE Tick
  <2>1. clock' \in 0 .. MaxClock /\ clock' >= clock /\ issued' = issued /\ login' = login
    BY <1>0, <1>2 DEF Tick, TokenTypes
  <2> QED
    BY <1>0, <2>1 DEF TokenTypes, Granted
<1>3. ASSUME NEW u \in Users, NEW status \in Nat, Login(u, Signs, status)
      PROVE  TokenTypes' /\ Granted'
  <2> DEFINE new == [form |-> "signed", user |-> u, exp |-> ExpiresAt(clock)]
  <2>1. /\ issued \subseteq issued' /\ issued' \subseteq issued \cup {new}
        /\ login' = [login EXCEPT ![u] = clock] /\ clock' = clock
    BY <1>3 DEF Login, SendToken
  <2>2. new.form = "signed" /\ new.user = u /\ new.exp = ExpiresAt(clock)
    OBVIOUS
  <2> HIDE DEF new
  <2>3. TokenTypes'
    BY <1>0, <2>1, <2>2 DEF TokenTypes
  <2>4. /\ login'[u] = clock /\ login'[u] # -1
        /\ \A v \in Users : v # u => login'[v] = login[v]
    BY <1>0, <2>1 DEF TokenTypes
  <2>5. ExpiresAt(clock) \in Int
    BY <1>0, SecondsMonotone DEF ExpiresAt
  <2>6. ASSUME NEW t \in issued'
        PROVE  login'[t.user] # -1 /\ t.exp \in Int /\ t.exp <= ExpiresAt(login'[t.user])
    <3>1. CASE t = new
      BY <2>2, <2>4, <2>5, <3>1
    <3>2. CASE t \in issued
      <4>1. t.user \in Users /\ login[t.user] # -1
            /\ t.exp \in Int /\ t.exp <= ExpiresAt(login[t.user])
        BY <1>0, <3>2 DEF TokenTypes, Granted
      <4>2. CASE t.user = u
        <5>1. login[u] \in Nat /\ login[u] <= clock
          BY <1>0, <4>1, <4>2 DEF Granted
        <5>2. ExpiresAt(login[u]) <= ExpiresAt(clock) /\ ExpiresAt(login[u]) \in Int
          BY <5>1, <1>0, SecondsMonotone DEF ExpiresAt
        <5> QED
          BY <2>4, <2>5, <4>1, <4>2, <5>2
      <4> QED
        BY <2>4, <4>1, <4>2
    <3> QED
      BY <2>1, <3>1, <3>2
  <2>7. \A v \in Users : login'[v] <= clock'
    BY <1>0, <2>1, <2>4 DEF Granted
  <2>8. \A r \in Requests : req'[r].token.form = "signed" => req'[r].token \in issued'
    BY <1>0, <2>1 DEF Granted
  <2> QED
    BY <2>3, <2>6, <2>7, <2>8 DEF Granted
<1>4. ASSUME NEW r \in Requests, NEW status \in Nat, Renew(req[r].token, Signs, status)
      PROVE  TokenTypes' /\ Granted'
  <2>1. req[r].token \in issued
    BY <1>0, <1>4 DEF Renew, CheckToken, Granted
  <2>2. issued' = issued /\ clock' = clock /\ login' = login
    BY <1>4, <2>1 DEF Renew, SendToken
  <2> QED
    BY <1>0, <2>2 DEF TokenTypes, Granted
<1> QED
  BY <1>1, <1>2, <1>3, <1>4 DEF TokenStep

\* A response that is sent, by a handler that does nothing else with it.
LEMMA RespondKeeps ==
    ASSUME IInv, NEW r \in Requests, pc[r] = "handling", req[r].path # "app",
           NEW status \in Nat \ {0}, NEW lines \in SUBSET {LoggerID(r)},
           Respond(r, status, lines), UNCHANGED <<routesVars, ipVars>>,
           req[r].path = "ip" => call[r] = "ended" /\ status = IPStatus(r)
    PROVE  /\ RequestTypes' /\ IPTypes' /\ server' = server /\ Counted'
           /\ \A q \in Requests : RequestInv(q)'
           /\ rw'[r].status = status
<1>0. RequestTypes /\ IPTypes /\ Counted /\ \A q \in Requests : RequestInv(q)
  BY DEF IInv, Types
<1>1. PICK n \in 0 .. 1 : rw' = [rw EXCEPT ![r] = Reply(rw[r], status, n)]
  BY DEF Respond
<1>2. /\ logged' = [logged EXCEPT ![r] = logged[r] \cup lines]
      /\ pc' = [pc EXCEPT ![r] = "returned"]
      /\ UNCHANGED <<req, traceID, inbound, cfg, server, call, answer, outHeader,
                     tripsIn, tripsOut>>
  BY DEF Respond, routesVars, ipVars
<1>3. rw[r] = NewResponse
  BY <1>0 DEF RequestInv, Life
<1> DEFINE y == Reply(NewResponse, status, n)
<1>4. y \in Response /\ Recorded(y) /\ y.sent = status /\ y.status = status
  BY NewResponseRecorded, CallsRecord, ReplySends
<1>5. rw' = [rw EXCEPT ![r] = y]
  BY <1>1, <1>3
<1> HIDE DEF y
<1>6. LoggerID(r) \in TraceIDs
  <2>1. req[r].header \in HeaderIDs \cup {NoID}
    BY <1>0 DEF RequestTypes
  <2> QED
    BY <2>1, HeaderIDType DEF LoggerID
<1>7. RequestTypes'
  BY <1>0, <1>2, <1>4, <1>5, <1>6 DEF RequestTypes
<1>8. IPTypes'
  BY <1>0, <1>2 DEF IPTypes
<1>9. Counted'
  <2>1. Active' = Active
    BY <1>0, <1>2 DEF Active, RequestTypes
  <2>2. Calling' = Calling
    BY <1>2 DEF Calling
  <2> QED
    BY <1>0, <1>2, <2>1, <2>2, CountedKept
<1>10. RequestInv(r)'
  <2>1. /\ pc'[r] = "returned" /\ rw'[r] = y /\ logged'[r] = logged[r] \cup lines
        /\ req'[r] = req[r] /\ traceID'[r] = traceID[r] /\ call'[r] = call[r]
        /\ answer'[r] = answer[r] /\ outHeader'[r] = outHeader[r] /\ cfg' = cfg
    BY <1>0, <1>2, <1>5 DEF RequestTypes
  <2>2. Life(r)'
    BY <1>4, <2>1 DEF Life, Active
  <2>3. Traced(r)'
    <3>1. traceID[r] = HeaderID(r, req[r].header, "outer")
      BY <1>0 DEF RequestInv, Traced
    <3>2. req[r].header # NoID \/ cfg.router = "jsendx" => LoggerID(r) = traceID[r]
      BY <3>1 DEF LoggerID, HeaderID, InjectsAgain
    <3> QED
      BY <1>0, <2>1, <3>2 DEF RequestInv, Traced
  <2>4. Asked(r)'
    BY <1>0, <1>4, <2>1 DEF RequestInv, Asked, GotIP, IPStatus
  <2> QED
    BY <2>2, <2>3, <2>4 DEF RequestInv
<1>11. ASSUME NEW q \in Requests, q # r PROVE RequestInv(q)'
  <2>1. /\ pc'[q] = pc[q] /\ rw'[q] = rw[q] /\ logged'[q] = logged[q]
    BY <1>0, <1>2, <1>5, <1>11 DEF RequestTypes
  <2> QED
    BY <1>0, <1>2, <2>1, Untouched
<1>12. rw'[r].status = status
  BY <1>0, <1>4, <1>5 DEF RequestTypes
<1> QED
  BY <1>2, <1>7, <1>8, <1>9, <1>10, <1>11, <1>12

-----------------------------------------------------------------------------
(* The invariant is kept by each action: one lemma for each.               *)

LEMMA StartKeeps ==
    ASSUME IInv, StartRefused \/ StartPanics \/ Start,
           UNCHANGED <<ipVars, tokenVars, reqVars>>
    PROVE  IInv'
<1>1. server' \in {"refused", "panicked", "listening"} /\ cfg' = cfg
  BY DEF StartRefused, StartPanics, Start
<1>2. Types'
  BY <1>1 DEF IInv, Types, RequestTypes, IPTypes, TokenTypes, ipVars, tokenVars, reqVars
<1>3. Counted'
  BY <1>1, CountedKept DEF IInv, Active, Calling, ipVars, reqVars
<1>4. \A r \in Requests : RequestInv(r)'
  BY <1>1, Untouched DEF IInv, ipVars, reqVars
<1>5. Granted'
  BY DEF IInv, Granted, tokenVars, reqVars
<1> QED
  BY <1>2, <1>3, <1>4, <1>5 DEF IInv

LEMMA TickKeeps ==
    ASSUME IInv, Tick, UNCHANGED <<routesVars, ipVars, reqVars>>
    PROVE  IInv'
<1>1. TokenTypes' /\ Granted'
  BY TokensKept DEF TokenStep, reqVars
<1>2. Types'
  BY <1>1 DEF IInv, Types, RequestTypes, IPTypes, routesVars, ipVars, reqVars
<1>3. Counted'
  BY CountedKept DEF IInv, Active, Calling, routesVars, ipVars, reqVars
<1>4. \A r \in Requests : RequestInv(r)'
  BY Untouched DEF IInv, routesVars, ipVars, reqVars
<1> QED
  BY <1>1, <1>2, <1>3, <1>4 DEF IInv

LEMMA ReceiveKeeps ==
    ASSUME IInv, NEW r \in Requests, Receive(r)
    PROVE  IInv'
<1>0. /\ RequestTypes /\ IPTypes /\ TokenTypes /\ Counted /\ Granted
      /\ \A q \in Requests : RequestInv(q)
  BY DEF IInv, Types
<1>a. PICK path \in bound \cup {"404", "405"}, header \in HeaderIDs \cup {NoID} :
          /\ \E token \in Tokens(path) :
                 req' = [req EXCEPT ![r] = [path |-> path, header |-> header,
                                            token |-> token]]
          /\ traceID' = [traceID EXCEPT ![r] = HeaderID(r, header, "outer")]
  BY DEF Receive
<1>1. PICK token \in Tokens(path) :
          req' = [req EXCEPT ![r] = [path |-> path, header |-> header, token |-> token]]
  BY <1>a
<1>2. /\ pc[r] \in {"idle", "done"}
      /\ pc' = [pc EXCEPT ![r] = "handling"]
      /\ logged' = [logged EXCEPT ![r] = {}]
      /\ rw' = [rw EXCEPT ![r] = NewResponse]
      /\ UNCHANGED <<cfg, server, call, answer, outHeader, tripsIn, tripsOut,
                     clock, issued, login>>
  BY DEF Receive, routesVars, ipVars, tokenVars
<1>3. inbound' = IF Statsd THEN [inbound EXCEPT !.in = inbound.in + 1]
                           ELSE [inbound EXCEPT !.inFlight = inbound.inFlight + 1]
  BY DEF Receive, Enter
<1>4. HeaderID(r, header, "outer") \in TraceIDs
  BY HeaderIDType
<1> DEFINE new == [path |-> path, header |-> header, token |-> token]
<1>5. new.path = path /\ new.header = header /\ new.token = token
  OBVIOUS
<1>6. req' = [req EXCEPT ![r] = new]
  BY <1>1
<1> HIDE DEF new
<1>7. /\ DOMAIN req' = Requests /\ req'[r] = new
      /\ \A q \in Requests : q # r => req'[q] = req[q]
  BY <1>0, <1>6 DEF RequestTypes
<1>8. inbound' \in [{"in", "out", "inFlight", "requests"} -> Nat]
  BY <1>0, <1>3 DEF RequestTypes
<1>9. RequestTypes'
  BY <1>0, <1>a, <1>2, <1>4, <1>5, <1>7, <1>8, NewResponseRecorded DEF RequestTypes
<1>10. Types'
  BY <1>2, <1>9 DEF IInv, Types, IPTypes, TokenTypes
<1>11. Counted'
  <2>1. Active' = Active \cup {r} /\ r \notin Active
    BY <1>0, <1>2 DEF Active, RequestTypes
  <2>2. IsFiniteSet(Active') /\ Cardinality(Active') = Cardinality(Active) + 1
    BY <1>0, <2>1, FS_AddElement DEF Counted
  <2>3. Calling' = Calling
    BY <1>2 DEF Calling
  <2>4. IF Statsd THEN inbound'.in = inbound.in + 1 /\ inbound'.out = inbound.out
                  ELSE inbound'.inFlight = inbound.inFlight + 1
    BY <1>0, <1>3 DEF RequestTypes
  <2>5. /\ inbound.in \in Nat /\ inbound.out \in Nat /\ inbound.inFlight \in Nat
        /\ Statsd' <=> Statsd
    BY <1>0, <1>2 DEF RequestTypes, Statsd
  <2> QED
    BY <1>0, <1>2, <2>2, <2>3, <2>4, <2>5 DEF Counted
<1>12. RequestInv(r)'
  <2>1. call[r] = "none" /\ answer[r] = NoAnswer
    BY <1>0, <1>2 DEF RequestInv, Asked, Life, NoRequest
  <2>2. /\ pc'[r] = "handling" /\ rw'[r] = NewResponse /\ logged'[r] = {}
        /\ traceID'[r] = HeaderID(r, header, "outer")
    BY <1>0, <1>a, <1>2 DEF RequestTypes
  <2>3. outHeader[r] = NoID
    BY <1>0, <2>1 DEF RequestInv, Traced
  <2>4. Life(r)'
    BY <2>2, NewResponseRecorded DEF Life, Active
  <2>5. Traced(r)'
    BY <1>2, <1>5, <1>7, <2>1, <2>2, <2>3 DEF Traced
  <2>6. Asked(r)'
    BY <1>2, <2>1, <2>2 DEF Asked
  <2> QED
    BY <2>4, <2>5, <2>6 DEF RequestInv
<1>13. ASSUME NEW q \in Requests, q # r PROVE RequestInv(q)'
  <2>1. /\ pc'[q] = pc[q] /\ rw'[q] = rw[q] /\ logged'[q] = logged[q]
        /\ traceID'[q] = traceID[q]
    BY <1>0, <1>a, <1>2, <1>13 DEF RequestTypes
  <2> QED
    BY <1>0, <1>2, <1>7, <1>13, <2>1, Untouched
<1>14. Granted'
  <2>1. token.form = "signed" => token \in issued
    <3>1. /\ NoToken.form = "missing" /\ Malformed.form = "malformed"
          /\ Forged.form = "forged"
      BY DEF NoToken, Malformed, Forged
    <3>2. token \in issued \cup {NoToken, Malformed, Forged}
      BY DEF Tokens
    <3> QED
      BY <3>1, <3>2
  <2> QED
    BY <1>0, <1>2, <1>5, <1>7, <2>1 DEF Granted
<1> QED
  BY <1>10, <1>11, <1>12, <1>13, <1>14 DEF IInv

LEMMA HandleDefaultKeeps ==
    ASSUME IInv, NEW r \in Requests, HandleDefault(r)
    PROVE  IInv'
<1> DEFINE lines == IF req[r].path \in {"metrics", "pprof"} THEN {} ELSE {LoggerID(r)}
<1>1. /\ pc[r] = "handling" /\ req[r].path # "app" /\ req[r].path # "ip"
      /\ Respond(r, StatusOf(req[r].path), lines)
      /\ UNCHANGED <<routesVars, ipVars, tokenVars>>
  BY DEF HandleDefault, Handling, DefaultRoutes
<1>2. StatusOf(req[r].path) \in Nat \ {0} /\ lines \in SUBSET {LoggerID(r)}
  BY DEF StatusOf
<1> HIDE DEF lines
<1>3. /\ RequestTypes' /\ IPTypes' /\ server' = server /\ Counted'
      /\ \A q \in Requests : RequestInv(q)'
  BY <1>1, <1>2, RespondKeeps
<1>4. TokenTypes' /\ Granted'
  BY <1>1, TokensKept DEF TokenStep, Respond
<1> QED
  BY <1>3, <1>4 DEF IInv, Types

LEMMA IPRepliesKeeps ==
    ASSUME IInv, NEW r \in Requests, IPReplies(r)
    PROVE  IInv'
<1>1. /\ pc[r] = "handling" /\ req[r].path = "ip" /\ call[r] = "ended"
      /\ Respond(r, IPStatus(r), {LoggerID(r)})
      /\ UNCHANGED <<routesVars, ipVars, tokenVars>>
  BY DEF IPReplies, Handling, Send
<1>2. IPStatus(r) \in Nat \ {0}
  BY DEF IPStatus
<1>3. /\ RequestTypes' /\ IPTypes' /\ server' = server /\ Counted'
      /\ \A q \in Requests : RequestInv(q)'
  BY <1>1, <1>2, RespondKeeps
<1>4. TokenTypes' /\ Granted'
  BY <1>1, TokensKept DEF TokenStep, Respond
<1> QED
  BY <1>3, <1>4 DEF IInv, Types

LEMMA HandleLoginKeeps ==
    ASSUME IInv, NEW r \in Requests, HandleLogin(r)
    PROVE  IInv'
<1>1. PICK status \in {200, 400, 401, 500} :
          /\ \/ \E creds \in {"malformed", "unknown", "wrong"} :
                    LoginRefused(creds, status)
             \/ \E user \in Users : Login(user, Signs, status)
          /\ Send(r, status)
  BY DEF HandleLogin
<1>2. /\ pc[r] = "handling" /\ req[r].path = "login"
      /\ UNCHANGED <<routesVars, ipVars>>
  BY DEF HandleLogin, Handling
<1>3. /\ RequestTypes' /\ IPTypes' /\ server' = server /\ Counted'
      /\ \A q \in Requests : RequestInv(q)'
  BY <1>1, <1>2, RespondKeeps DEF Send
<1>4. TokenStep
  BY <1>1 DEF TokenStep, LoginRefused, tokenVars
<1>5. TokenTypes' /\ Granted'
  BY <1>1, <1>4, TokensKept DEF Send, Respond
<1> QED
  BY <1>3, <1>5 DEF IInv, Types

LEMMA HandleRenewKeeps ==
    ASSUME IInv, NEW r \in Requests, HandleRenew(r)
    PROVE  IInv'
<1>1. PICK status \in {200, 400, 401, 500} :
          /\ \/ RenewRefused(req[r].token, status)
             \/ Renew(req[r].token, Signs, status)
          /\ Send(r, status)
  BY DEF HandleRenew
<1>2. /\ pc[r] = "handling" /\ req[r].path = "renew"
      /\ UNCHANGED <<routesVars, ipVars>>
  BY DEF HandleRenew, Handling
<1>3. /\ RequestTypes' /\ IPTypes' /\ server' = server /\ Counted'
      /\ \A q \in Requests : RequestInv(q)'
  BY <1>1, <1>2, RespondKeeps DEF Send
<1>4. TokenStep
  BY <1>1 DEF TokenStep, RenewRefused, tokenVars
<1>5. TokenTypes' /\ Granted'
  BY <1>1, <1>4, TokensKept DEF Send, Respond
<1> QED
  BY <1>3, <1>5 DEF IInv, Types

LEMMA HandlePrivateKeeps ==
    ASSUME IInv, NEW r \in Requests, HandlePrivate(r)
    PROVE  /\ IInv'
           /\ rw'[r].status = 200 => CheckToken(req[r].token)
<1> DEFINE status == IF CheckToken(req[r].token) THEN 200 ELSE 401
<1>1. /\ pc[r] = "handling" /\ req[r].path = "private"
      /\ Respond(r, status, {LoggerID(r)})
      /\ UNCHANGED <<routesVars, ipVars, tokenVars>>
  BY DEF HandlePrivate, Handling, Send
<1>2. status \in Nat \ {0} /\ (status = 200 => CheckToken(req[r].token))
  OBVIOUS
<1> HIDE DEF status
<1>3. /\ RequestTypes' /\ IPTypes' /\ server' = server /\ Counted'
      /\ \A q \in Requests : RequestInv(q)'
      /\ rw'[r].status = status
  BY <1>1, <1>2, RespondKeeps
<1>4. TokenTypes' /\ Granted'
  BY <1>1, TokensKept DEF TokenStep, Respond
<1> QED
  BY <1>2, <1>3, <1>4 DEF IInv, Types

\* What a step of GetPublicIP leaves alone, and what it can add to the log.
LEMMA IPStepKeeps ==
    ASSUME IInv, NEW r \in Requests, HandleIP(r), IPTypes', Asked(r)',
           outHeader'[r] = traceID[r], call'[r] # "none",
           \A q \in Requests : q # r => /\ call'[q] = call[q] /\ answer'[q] = answer[q]
                                        /\ outHeader'[q] = outHeader[q],
           IsFiniteSet(Calling'), Cardinality(Calling') = tripsIn' - tripsOut',
           \/ UNCHANGED logged
           \/ logged' = [logged EXCEPT ![r] = logged[r] \cup {traceID[r]}]
    PROVE  IInv'
<1>0. RequestTypes /\ TokenTypes /\ Counted /\ \A q \in Requests : RequestInv(q)
  BY DEF IInv, Types
<1>1. /\ pc[r] = "handling" /\ req[r].path = "ip"
      /\ UNCHANGED <<cfg, server, clock, issued, login, pc, req, traceID, rw, inbound>>
  BY DEF HandleIP, Handling, routesVars, tokenVars
<1>2. traceID[r] \in TraceIDs
  BY <1>0, <1>1, HeaderIDType DEF RequestInv, Traced, RequestTypes
<1>3. RequestTypes'
  BY <1>0, <1>1, <1>2 DEF RequestTypes
<1>4. Types'
  BY <1>1, <1>3 DEF IInv, Types, TokenTypes
<1>5. Counted'
  <2>1. Active' = Active
    BY <1>1 DEF Active
  <2> QED
    BY <1>0, <1>1, <2>1 DEF Counted, Statsd
<1>6. RequestInv(r)'
  <2>1. Life(r)'
    BY <1>0, <1>1 DEF RequestInv, Life, Active
  <2>2. logged'[r] \in {logged[r], logged[r] \cup {traceID[r]}}
    BY <1>0 DEF RequestTypes
  <2>3. Traced(r)'
    BY <1>0, <1>1, <2>2 DEF RequestInv, Traced
  <2> QED
    BY <2>1, <2>3 DEF RequestInv
<1>7. ASSUME NEW q \in Requests, q # r PROVE RequestInv(q)'
  <2>1. logged'[q] = logged[q]
    BY <1>0, <1>7 DEF RequestTypes
  <2> QED
    BY <1>0, <1>1, <1>7, <2>1, Untouched
<1>8. Granted'
  BY <1>1 DEF IInv, Granted
<1> QED
  BY <1>4, <1>5, <1>6, <1>7, <1>8 DEF IInv

LEMMA HandleIPKeeps ==
    ASSUME IInv, NEW r \in Requests, HandleIP(r)
    PROVE  IInv'
<1>0. /\ RequestTypes /\ IPTypes /\ Counted /\ RequestInv(r)
      /\ pc[r] = "handling" /\ req[r].path = "ip"
      /\ UNCHANGED <<pc, req, traceID, rw>>
      /\ traceID[r] \in TraceIDs \cup {NoID}
  BY DEF IInv, Types, HandleIP, Handling, RequestTypes
<1>1. CASE GetPublicIP(r, traceID[r]) /\ UNCHANGED logged
  <2>1. /\ call[r] = "none" /\ call' = [call EXCEPT ![r] = "calling"]
        /\ outHeader' = [outHeader EXCEPT ![r] = traceID[r]]
        /\ tripsIn' = tripsIn + 1 /\ answer' = answer /\ tripsOut' = tripsOut
    BY <1>1 DEF GetPublicIP
  <2>2. IPTypes'
    BY <1>0, <2>1 DEF IPTypes, Calls
  <2>3. Asked(r)'
    BY <1>0, <2>1 DEF RequestInv, Asked, IPTypes
  <2>4. Calling' = Calling \cup {r} /\ r \notin Calling
    BY <1>0, <2>1 DEF Calling, IPTypes
  <2>5. IsFiniteSet(Calling') /\ Cardinality(Calling') = Cardinality(Calling) + 1
    BY <1>0, <2>4, FS_AddElement DEF Counted
  <2>6. Cardinality(Calling') = tripsIn' - tripsOut'
    BY <1>0, <2>1, <2>5 DEF Counted, IPTypes
  <2>7. outHeader'[r] = traceID[r] /\ call'[r] # "none"
    BY <1>0, <2>1 DEF IPTypes
  <2>8. \A q \in Requests : q # r => /\ call'[q] = call[q] /\ answer'[q] = answer[q]
                                     /\ outHeader'[q] = outHeader[q]
    BY <1>0, <2>1 DEF IPTypes
  <2> QED
    BY <1>1, <2>2, <2>3, <2>5, <2>6, <2>7, <2>8, IPStepKeeps
<1>2. ASSUME call[r] = "calling",
             call' = [call EXCEPT ![r] = "answered"] \/ call' = [call EXCEPT ![r] = "ended"],
             tripsOut' = tripsOut + 1, UNCHANGED <<outHeader, tripsIn>>
      PROVE  /\ call' \in [Requests -> Calls] /\ call'[r] # "none" /\ tripsOut' \in Nat
             /\ \A q \in Requests : q # r => call'[q] = call[q]
             /\ IsFiniteSet(Calling') /\ Cardinality(Calling') = tripsIn' - tripsOut'
             /\ outHeader[r] = traceID[r]
  <2>1. Calling' = Calling \ {r} /\ r \in Calling
    BY <1>0, <1>2 DEF Calling, IPTypes
  <2>2. IsFiniteSet(Calling') /\ Cardinality(Calling') = Cardinality(Calling) - 1
    BY <1>0, <2>1, FS_RemoveElement DEF Counted
  <2>3. Cardinality(Calling') = tripsIn' - tripsOut'
    BY <1>0, <1>2, <2>2 DEF Counted, IPTypes
  <2>4. outHeader[r] = traceID[r]
    BY <1>0, <1>2 DEF RequestInv, Traced
  <2> QED
    BY <1>0, <1>2, <2>2, <2>3, <2>4 DEF IPTypes, Calls
<1>3. CASE TransportAnswers(r) /\ UNCHANGED logged
  <2>1. PICK status \in {200, 503}, whole \in BOOLEAN :
            answer' = [answer EXCEPT ![r] =
                           [status |-> status, whole |-> whole, body |-> "open"]]
    BY <1>3 DEF TransportAnswers
  <2>2. /\ call[r] = "calling" /\ call' = [call EXCEPT ![r] = "answered"]
        /\ tripsOut' = tripsOut + 1 /\ UNCHANGED <<outHeader, tripsIn>>
    BY <1>3 DEF TransportAnswers
  <2> DEFINE a == [status |-> status, whole |-> whole, body |-> "open"]
  <2>3. a \in Answers /\ a.body = "open"
    BY DEF Answers
  <2> HIDE DEF a
  <2>4. /\ answer' \in [Requests -> Answers] /\ answer'[r] = a /\ call'[r] = "answered"
        /\ \A q \in Requests : q # r => answer'[q] = answer[q]
    BY <1>0, <2>1, <2>2, <2>3 DEF IPTypes, a
  <2>5. Asked(r)'
    BY <1>0, <2>3, <2>4 DEF Asked
  <2>6. IPTypes'
    BY <1>0, <1>2, <2>2, <2>4 DEF IPTypes
  <2> QED
    BY <1>2, <1>3, <2>2, <2>4, <2>5, <2>6, IPStepKeeps
<1>4. CASE /\ TransportFails(r)
           /\ logged' = [logged EXCEPT ![r] = logged[r] \cup {outHeader[r]}]
  <2>1. /\ call[r] = "calling" /\ call' = [call EXCEPT ![r] = "ended"]
        /\ tripsOut' = tripsOut + 1 /\ UNCHANGED <<answer, outHeader, tripsIn>>
    BY <1>4 DEF TransportFails
  <2>2. answer[r] = NoAnswer /\ NoAnswer.body = "none" /\ call'[r] = "ended"
    BY <1>0, <2>1 DEF RequestInv, Asked, NoAnswer, IPTypes
  <2>3. Asked(r)'
    BY <1>0, <2>1, <2>2 DEF Asked
  <2>4. IPTypes'
    BY <1>0, <1>2, <2>1 DEF IPTypes
  <2> QED
    BY <1>2, <1>4, <2>1, <2>3, <2>4, IPStepKeeps
<1>5. ASSUME NEW body \in {"open", "buffered", "read", "failed", "dropped"},
             NEW to \in {"returned", "ended"},
             call[r] \in {"answered", "returned"},
             answer' = [answer EXCEPT ![r].body = body],
             call' = [call EXCEPT ![r] = to], UNCHANGED <<outHeader, tripsIn, tripsOut>>
      PROVE  /\ IPTypes' /\ outHeader'[r] = traceID[r] /\ outHeader[r] = traceID[r]
             /\ call'[r] = to /\ answer'[r].body = body /\ answer'[r].whole = answer[r].whole
             /\ \A q \in Requests : q # r => /\ call'[q] = call[q] /\ answer'[q] = answer[q]
                                             /\ outHeader'[q] = outHeader[q]
             /\ IsFiniteSet(Calling') /\ Cardinality(Calling') = tripsIn' - tripsOut'
  <2> DEFINE a == [answer[r] EXCEPT !.body = body]
  <2>1. answer[r] \in Answers
    BY <1>0 DEF IPTypes
  <2>2. a \in Answers /\ a.body = body /\ a.whole = answer[r].whole
    BY <2>1 DEF Answers
  <2>3. answer' = [answer EXCEPT ![r] = a]
    BY <1>5
  <2> HIDE DEF a
  <2>4. Calling' = Calling
    BY <1>0, <1>5 DEF Calling, IPTypes
  <2>5. outHeader[r] = traceID[r]
    BY <1>0, <1>5 DEF RequestInv, Traced
  <2> QED
    BY <1>0, <1>5, <2>2, <2>3, <2>4, <2>5 DEF IPTypes, Calls, Counted
<1>6. CASE /\ DoReturns(r, Debug)
           /\ logged' = [logged EXCEPT ![r] = logged[r] \cup {outHeader[r]}]
  <2> DEFINE body == IF Debug /\ answer[r].whole THEN "buffered" ELSE answer[r].body
  <2>1. /\ call[r] = "answered" /\ answer' = [answer EXCEPT ![r].body = body]
        /\ call' = [call EXCEPT ![r] = "returned"] /\ UNCHANGED <<outHeader, tripsIn, tripsOut>>
    BY <1>6 DEF DoReturns
  <2>2. body = "open" \/ (body = "buffered" /\ answer[r].whole)
    BY <1>0, <2>1 DEF RequestInv, Asked
  <2> HIDE DEF body
  <2>3. /\ IPTypes' /\ outHeader'[r] = traceID[r] /\ outHeader[r] = traceID[r]
        /\ call'[r] = "returned" /\ answer'[r].body = body
        /\ answer'[r].whole = answer[r].whole
        /\ \A q \in Requests : q # r => /\ call'[q] = call[q] /\ answer'[q] = answer[q]
                                        /\ outHeader'[q] = outHeader[q]
        /\ IsFiniteSet(Calling') /\ Cardinality(Calling') = tripsIn' - tripsOut'
    BY <2>1, <2>2, <1>5
  <2>4. Asked(r)'
    BY <1>0, <2>2, <2>3 DEF Asked
  <2> QED
    BY <1>6, <2>3, <2>4, IPStepKeeps
<1>7. CASE ReadBody(r) /\ UNCHANGED logged
  <2>1. PICK body \in BodyAfterReturn(answer[r]) : answer' = [answer EXCEPT ![r].body = body]
    BY <1>7 DEF ReadBody
  <2>2. /\ call[r] = "returned" /\ call' = [call EXCEPT ![r] = "ended"]
        /\ UNCHANGED <<outHeader, tripsIn, tripsOut>>
    BY <1>7 DEF ReadBody
  <2>3. body \in {"read", "failed", "dropped"} /\ (body = "read" => answer[r].whole)
    BY <1>0, <2>2 DEF BodyAfterReturn, RequestInv, Asked
  <2>4. /\ IPTypes' /\ outHeader'[r] = traceID[r]
        /\ call'[r] = "ended" /\ answer'[r].body = body
        /\ answer'[r].whole = answer[r].whole
        /\ \A q \in Requests : q # r => /\ call'[q] = call[q] /\ answer'[q] = answer[q]
                                        /\ outHeader'[q] = outHeader[q]
        /\ IsFiniteSet(Calling') /\ Cardinality(Calling') = tripsIn' - tripsOut'
    BY <2>1, <2>2, <2>3, <1>5
  <2>5. Asked(r)'
    BY <1>0, <2>3, <2>4 DEF Asked
  <2> QED
    BY <1>7, <2>4, <2>5, IPStepKeeps
<1> QED
  BY <1>1, <1>3, <1>4, <1>6, <1>7 DEF HandleIP

LEMMA AppCallsKeeps ==
    ASSUME IInv, NEW r \in Requests, AppCalls(r)
    PROVE  IInv'
<1>0. /\ RequestTypes /\ Counted /\ \A q \in Requests : RequestInv(q)
      /\ rw[r] \in Response
  BY DEF IInv, Types, RequestTypes
<1>1. /\ pc[r] = "handling" /\ req[r].path = "app"
      /\ UNCHANGED <<cfg, server, ipVars, tokenVars, pc, req, traceID, logged, inbound>>
  BY DEF AppCalls, Handling, routesVars
<1>2. Recorded(rw[r])
  BY <1>0, <1>1 DEF RequestInv, Life, Active
<1>3. PICK x : x \in Response /\ Recorded(x) /\ rw' = [rw EXCEPT ![r] = x]
  <2>1. \A code \in {200, 500} : WriteHeader(rw[r], code) \in Response
                                 /\ Recorded(WriteHeader(rw[r], code))
    BY <1>0, <1>2, CallsRecord
  <2>2. /\ Write(rw[r], 1) \in Response /\ Recorded(Write(rw[r], 1))
        /\ Flush(rw[r]) \in Response /\ Recorded(Flush(rw[r]))
        /\ Tee(rw[r]) \in Response /\ Recorded(Tee(rw[r]))
        /\ \A readerFrom \in BOOLEAN : /\ ReadFrom(rw[r], readerFrom, 1) \in Response
                                       /\ Recorded(ReadFrom(rw[r], readerFrom, 1))
    BY <1>0, <1>2, CallsRecord
  <2> QED
    BY <2>1, <2>2 DEF AppCalls
<1>4. Types'
  BY <1>0, <1>1, <1>3 DEF IInv, Types, RequestTypes, IPTypes, TokenTypes, ipVars, tokenVars
<1>5. Counted'
  BY <1>0, <1>1, CountedKept DEF Active, Calling, ipVars
<1>6. RequestInv(r)'
  <2>1. rw'[r] = x
    BY <1>0, <1>3 DEF RequestTypes
  <2> QED
    BY <1>0, <1>1, <1>3, <2>1 DEF RequestInv, Life, Traced, Asked, Active, ipVars
<1>7. ASSUME NEW q \in Requests, q # r PROVE RequestInv(q)'
  <2>1. rw'[q] = rw[q]
    BY <1>0, <1>3, <1>7 DEF RequestTypes
  <2> QED
    BY <1>0, <1>1, <2>1, Untouched DEF ipVars
<1>8. Granted'
  BY <1>1 DEF IInv, Granted, tokenVars
<1> QED
  BY <1>4, <1>5, <1>6, <1>7, <1>8 DEF IInv

LEMMA AppOverflowsKeeps ==
    ASSUME IInv, NEW r \in Requests, AppOverflows(r)
    PROVE  IInv'
<1>1. server' = "crashed" /\ UNCHANGED <<cfg, ipVars, tokenVars, reqVars>>
  BY DEF AppOverflows
<1>2. Types'
  BY <1>1 DEF IInv, Types, RequestTypes, IPTypes, TokenTypes, ipVars, tokenVars, reqVars
<1>3. Counted'
  BY <1>1, CountedKept DEF IInv, Active, Calling, ipVars, reqVars
<1>4. \A q \in Requests : RequestInv(q)'
  BY <1>1, Untouched DEF IInv, ipVars, reqVars
<1>5. Granted'
  BY <1>1 DEF IInv, Granted, tokenVars, reqVars
<1> QED
  BY <1>2, <1>3, <1>4, <1>5 DEF IInv

LEMMA AppEndsKeeps ==
    ASSUME IInv, NEW r \in Requests, AppEnds(r)
    PROVE  IInv'
<1>0. RequestTypes /\ Counted /\ \A q \in Requests : RequestInv(q)
  BY DEF IInv, Types
<1>1. /\ pc[r] = "handling" /\ req[r].path = "app"
      /\ \/ pc' = [pc EXCEPT ![r] = "returned"]
         \/ pc' = [pc EXCEPT ![r] = "panicking"]
      /\ UNCHANGED <<cfg, server, ipVars, tokenVars, req, traceID, logged, rw, inbound>>
  BY DEF AppEnds, Handling, routesVars
<1>2. pc' \in [Requests -> {"idle", "handling", "returned", "panicking", "done"}]
  BY <1>0, <1>1 DEF RequestTypes
<1>3. /\ pc'[r] \in {"returned", "panicking"}
      /\ \A q \in Requests : q # r => pc'[q] = pc[q]
  BY <1>0, <1>1 DEF RequestTypes
<1>4. Types'
  BY <1>0, <1>1, <1>2 DEF IInv, Types, RequestTypes, IPTypes, TokenTypes, ipVars, tokenVars
<1>5. Counted'
  <2>1. Active' = Active
    BY <1>1, <1>3 DEF Active
  <2> QED
    BY <1>0, <1>1, <2>1, CountedKept DEF Calling, ipVars
<1>6. RequestInv(r)'
  BY <1>0, <1>1, <1>3 DEF RequestInv, Life, Traced, Asked, Active, ipVars
<1>7. ASSUME NEW q \in Requests, q # r PROVE RequestInv(q)'
  BY <1>0, <1>1, <1>3, <1>7, Untouched DEF ipVars
<1>8. Granted'
  BY <1>1 DEF IInv, Granted, tokenVars
<1> QED
  BY <1>4, <1>5, <1>6, <1>7, <1>8 DEF IInv

\* A request that goes out is counted.
LEMMA LeftCounts ==
    ASSUME IInv, NEW r \in Requests, pc[r] \in {"returned", "panicking"},
           NEW returns \in BOOLEAN, inbound' = Left(returns),
           Active' = Active \ {r}, Calling' = Calling,
           UNCHANGED <<cfg, tripsIn, tripsOut>>
    PROVE  Counted' /\ inbound' \in [{"in", "out", "inFlight", "requests"} -> Nat]
<1>0. RequestTypes /\ Counted
  BY DEF IInv, Types
<1>1. r \in Active
  BY DEF Active
<1>2. /\ IsFiniteSet(Active') /\ Cardinality(Active') = Cardinality(Active) - 1
      /\ Cardinality(Active') \in Nat
  BY <1>0, <1>1, FS_RemoveElement, FS_CardinalityType DEF Counted
<1>3. /\ inbound.in \in Nat /\ inbound.out \in Nat /\ inbound.inFlight \in Nat
      /\ inbound.requests \in Nat /\ (Statsd' <=> Statsd)
  BY <1>0 DEF RequestTypes, Statsd
<1>4. CASE Statsd
  <2>1. inbound' = [inbound EXCEPT !.out = inbound.out + 1]
    BY <1>4 DEF Left
  <2>2. /\ inbound'.in = inbound.in /\ inbound'.out = inbound.out + 1
        /\ inbound' \in [{"in", "out", "inFlight", "requests"} -> Nat]
    BY <1>0, <1>3, <2>1 DEF RequestTypes
  <2> QED
    BY <1>0, <1>2, <1>3, <1>4, <2>2 DEF Counted
<1>5. CASE ~Statsd
  <2> DEFINE n == IF returns THEN inbound.requests + 1 ELSE inbound.requests
  <2>1. inbound' = [inbound EXCEPT !.inFlight = inbound.inFlight - 1, !.requests = n]
    BY <1>5 DEF Left
  <2>2. n \in Nat
    BY <1>3
  <2> HIDE DEF n
  <2>3. inbound.inFlight - 1 \in Nat
    BY <1>0, <1>2, <1>3, <1>5 DEF Counted
  <2>4. /\ inbound'.inFlight = inbound.inFlight - 1
        /\ inbound' \in [{"in", "out", "inFlight", "requests"} -> Nat]
    BY <1>0, <2>1, <2>2, <2>3 DEF RequestTypes
  <2> QED
    BY <1>0, <1>2, <1>3, <1>5, <2>4 DEF Counted
<1> QED
  BY <1>4, <1>5

LEMMA ReturnKeeps ==
    ASSUME IInv, NEW r \in Requests, Return(r)
    PROVE  IInv'
<1>0. RequestTypes /\ IPTypes /\ TokenTypes /\ \A q \in Requests : RequestInv(q)
  BY DEF IInv, Types
<1>1. /\ pc[r] = "returned" /\ inbound' = Left(TRUE)
      /\ pc' = [pc EXCEPT ![r] = "idle"]
      /\ req' = [req EXCEPT ![r] = NoRequest]
      /\ traceID' = [traceID EXCEPT ![r] = NoID]
      /\ logged' = [logged EXCEPT ![r] = {}]
      /\ rw' = [rw EXCEPT ![r] = NewResponse]
      /\ call' = [call EXCEPT ![r] = "none"]
      /\ answer' = [answer EXCEPT ![r] = NoAnswer]
      /\ outHeader' = [outHeader EXCEPT ![r] = NoID]
      /\ UNCHANGED <<cfg, server, tripsIn, tripsOut, clock, issued, login>>
  BY DEF Return, routesVars, tokenVars
<1>2. /\ pc'[r] = "idle" /\ req'[r] = NoRequest /\ traceID'[r] = NoID /\ logged'[r] = {}
      /\ rw'[r] = NewResponse /\ call'[r] = "none" /\ answer'[r] = NoAnswer
      /\ outHeader'[r] = NoID
  BY <1>0, <1>1 DEF RequestTypes, IPTypes
<1>3. ASSUME NEW q \in Requests, q # r
      PROVE  /\ pc'[q] = pc[q] /\ req'[q] = req[q] /\ traceID'[q] = traceID[q]
             /\ logged'[q] = logged[q] /\ rw'[q] = rw[q] /\ call'[q] = call[q]
             /\ answer'[q] = answer[q] /\ outHeader'[q] = outHeader[q]
  BY <1>0, <1>1, <1>3 DEF RequestTypes, IPTypes
<1>4. Active' = Active \ {r}
  BY <1>2, <1>3 DEF Active
<1>5. Calling' = Calling
  <2>1. call[r] # "calling"
    BY <1>0, <1>1 DEF RequestInv, Asked
  <2> QED
    BY <1>2, <1>3, <2>1 DEF Calling
<1>6. Counted' /\ inbound' \in [{"in", "out", "inFlight", "requests"} -> Nat]
  BY <1>1, <1>4, <1>5, LeftCounts
<1>7. NoRequest.header = NoID /\ NoRequest.path = "none" /\ NoRequest.token.form = "missing"
  <2>1. NoRequest.token = NoToken
    BY DEF NoRequest
  <2> QED
    BY <2>1 DEF NoRequest, NoToken
<1>8. RequestTypes'
  <2>1. \A q \in Requests : req'[q].header \in HeaderIDs \cup {NoID}
    BY <1>0, <1>2, <1>3, <1>7 DEF RequestTypes
  <2> QED
    BY <1>0, <1>1, <1>6, <2>1, NewResponseRecorded DEF RequestTypes
<1>9. IPTypes'
  BY <1>0, <1>1 DEF IPTypes, Calls, Answers, NoAnswer
<1>10. Types'
  BY <1>1, <1>8, <1>9 DEF IInv, Types, TokenTypes
<1>11. RequestInv(r)'
  BY <1>2, <1>7, NewResponseRecorded DEF RequestInv, Life, Traced, Asked, Active
<1>12. ASSUME NEW q \in Requests, q # r PROVE RequestInv(q)'
  BY <1>0, <1>1, <1>3, <1>12, Untouched
<1>13. Granted'
  <2>1. \A q \in Requests : req'[q].token.form = "signed" => req'[q].token \in issued'
    BY <1>1, <1>2, <1>3, <1>7 DEF IInv, Granted
  <2> QED
    BY <1>1, <2>1 DEF IInv, Granted
<1> QED
  BY <1>6, <1>10, <1>11, <1>12, <1>13 DEF IInv

LEMMA PanicKeeps ==
    ASSUME IInv, NEW r \in Requests, Panic(r)
    PROVE  IInv'
<1>0. /\ RequestTypes /\ Counted /\ \A q \in Requests : RequestInv(q)
      /\ rw[r] \in Response
  BY DEF IInv, Types, RequestTypes
<1>1. /\ pc[r] = "panicking" /\ inbound' = Left(FALSE)
      /\ logged' = [logged EXCEPT ![r] = logged[r] \cup {PanicLoggerID(r)}]
      /\ pc' = [pc EXCEPT ![r] = "done"]
      /\ UNCHANGED <<cfg, server, ipVars, tokenVars, req, traceID>>
  BY DEF Panic, routesVars
<1>2. PICK n \in 0 .. 1 : rw' = [rw EXCEPT ![r] = NetReply(rw[r], 500, n)]
  BY DEF Panic
<1>3. NetReply(rw[r], 500, n) \in Response
  BY <1>0, NetReplyType
<1>4. PanicLoggerID(r) \in TraceIDs
  <2>1. req[r].header \in HeaderIDs \cup {NoID}
    BY <1>0 DEF RequestTypes
  <2> QED
    BY <2>1, HeaderIDType DEF PanicLoggerID
<1>5. pc'[r] = "done" /\ logged'[r] = logged[r] \cup {PanicLoggerID(r)}
  BY <1>0, <1>1 DEF RequestTypes
<1>6. ASSUME NEW q \in Requests, q # r
      PROVE  pc'[q] = pc[q] /\ logged'[q] = logged[q] /\ rw'[q] = rw[q]
  BY <1>0, <1>1, <1>2, <1>6 DEF RequestTypes
<1>7. Counted' /\ inbound' \in [{"in", "out", "inFlight", "requests"} -> Nat]
  <2>1. Active' = Active \ {r}
    BY <1>5, <1>6 DEF Active
  <2>2. Calling' = Calling
    BY <1>1 DEF Calling, ipVars
  <2> QED
    BY <1>1, <2>1, <2>2, LeftCounts DEF ipVars
<1>8. Types'
  <2>1. RequestTypes'
    BY <1>0, <1>1, <1>2, <1>3, <1>4, <1>7 DEF RequestTypes
  <2> QED
    BY <1>1, <2>1 DEF IInv, Types, IPTypes, TokenTypes, ipVars, tokenVars
<1>9. RequestInv(r)'
  <2>1. req[r].path = "app" /\ traceID[r] = HeaderID(r, req[r].header, "outer")
    BY <1>0, <1>1 DEF RequestInv, Life, Traced
  <2>2. req[r].header # NoID \/ cfg.router = "jsendx" => PanicLoggerID(r) = traceID[r]
    BY <2>1 DEF PanicLoggerID, HeaderID
  <2>3. Traced(r)'
    BY <1>0, <1>1, <1>5, <2>1, <2>2 DEF RequestInv, Traced, ipVars
  <2>4. Life(r)'
    BY <1>1, <1>5, <2>1 DEF Life, Active
  <2>5. Asked(r)'
    BY <1>0, <1>1, <1>5, <2>1 DEF RequestInv, Asked, ipVars
  <2> QED
    BY <2>3, <2>4, <2>5 DEF RequestInv
<1>10. ASSUME NEW q \in Requests, q # r PROVE RequestInv(q)'
  BY <1>0, <1>1, <1>6, <1>10, Untouched DEF ipVars
<1>11. Granted'
  BY <1>1 DEF IInv, Granted, tokenVars
<1> QED
  BY <1>7, <1>8, <1>9, <1>10, <1>11 DEF IInv

LEMMA StutterKeeps ==
    ASSUME IInv, UNCHANGED vars
    PROVE  IInv'
<1>1. UNCHANGED <<cfg, server, ipVars, tokenVars, reqVars>>
  BY DEF vars, routesVars
<1>2. Types'
  BY <1>1 DEF IInv, Types, RequestTypes, IPTypes, TokenTypes, ipVars, tokenVars, reqVars
<1>3. Counted'
  BY <1>1, CountedKept DEF IInv, Active, Calling, ipVars, reqVars
<1>4. \A q \in Requests : RequestInv(q)'
  BY <1>1, Untouched DEF IInv, ipVars, reqVars
<1>5. Granted'
  BY <1>1 DEF IInv, Granted, tokenVars, reqVars
<1> QED
  BY <1>2, <1>3, <1>4, <1>5 DEF IInv

-----------------------------------------------------------------------------

\* Every step keeps the invariant, which therefore always holds.
LEMMA IInvNext == IInv /\ [Next]_vars => IInv'
BY StartKeeps, TickKeeps, ReceiveKeeps, HandleDefaultKeeps, HandleIPKeeps, IPRepliesKeeps,
   HandleLoginKeeps, HandleRenewKeeps, HandlePrivateKeeps, AppCallsKeeps,
   AppOverflowsKeeps, AppEndsKeeps, ReturnKeeps, PanicKeeps, StutterKeeps
   DEF Next, Serve

LEMMA Invariant == Spec => []IInv
BY IInvInit, IInvNext, PTL DEF Spec

LEMMA TypeCorrect == IInv => TypeOK
BY DEF IInv, Types, RequestTypes, IPTypes, TokenTypes, TypeOK

\* InstrumentHandler records the status and the size that net/http has sent by the
\* time the handler is over, whatever calls it makes on the proxy and in whatever
\* order, up to the two exceptions: 0 for the 200 of a flush that comes first, and
\* twice the bytes that ReadFrom sends along with a tee.
THEOREM ProxyRecords == Spec => []RecordsWhatWasSent
<1>1. IInv => RecordsWhatWasSent
  BY DEF IInv, RequestInv, Life, Recorded, RecordsWhatWasSent, OK, Active
<1> QED
  BY <1>1, Invariant, PTL

\* The counters of InstrumentHandler, of statsd and of prometheus, differ by the
\* handlers that run, panics included, and those of httpclient by the round trips.
THEOREM CountersAddUp == Spec => []RequestsCounted
<1>1. IInv => RequestsCounted
  BY TypeCorrect DEF IInv, Counted, Calling, RequestsCounted
<1> QED
  BY <1>1, Invariant, PTL

\* The trace ID of a request is that of its header, in what the handler sends on
\* and, but for the handlers of defaultRouter, in its log.
THEOREM OneTraceID == Spec => []TraceFollowsRequest
<1>1. ASSUME IInv, NEW r \in Requests, req[r].header # NoID
      PROVE  traceID[r] = req[r].header
  <2>1. pc[r] # "idle"
    BY <1>1 DEF IInv, RequestInv, Life, NoRequest
  <2> QED
    BY <1>1, <2>1 DEF IInv, RequestInv, Traced, HeaderID
<1>2. IInv => TraceFollowsRequest
  BY <1>1 DEF IInv, RequestInv, Traced, TraceFollowsRequest
<1> QED
  BY <1>2, Invariant, PTL

\* The IP handler answers 200 with an address that was read whole, 424 when
\* GetPublicIP failed, and its body is closed by then.
THEOREM IPAnswersAreTrue == Spec => []IPTellsOutcome
<1>1. ASSUME IInv, NEW r \in Requests, req[r].path = "ip", pc[r] = "returned"
      PROVE  /\ rw[r].sent = 200 <=> answer[r].whole /\ answer[r].body = "read"
             /\ answer[r].body \notin {"open", "buffered"}
  BY <1>1 DEF IInv, RequestInv, Asked, GotIP
<1>2. IInv => IPTellsOutcome
  BY <1>1 DEF IPTellsOutcome
<1> QED
  BY <1>2, Invariant, PTL

\* Only the handler of a request ends it, and for a private path it is the one that
\* asks IsAuthorized.
LEMMA OnlyPrivateReturns ==
    ASSUME IInv, Next, NEW r \in Requests, pc[r] = "handling", pc'[r] = "returned",
           req[r].path = "private"
    PROVE  HandlePrivate(r) /\ UNCHANGED tokenVars
<1>0. pc \in [Requests -> {"idle", "handling", "returned", "panicking", "done"}]
  BY DEF IInv, Types, RequestTypes
<1>1. PICK q \in Requests : Receive(q) \/ Serve(q)
  BY DEF Next, reqVars
<1>2. ASSUME q # r PROVE pc'[r] = pc[r]
  <2>1. pc' = pc \/ \E to : pc' = [pc EXCEPT ![q] = to]
    BY <1>1 DEF Receive, Serve, HandleDefault, HandleIP, IPReplies, HandleLogin,
                HandleRenew, HandlePrivate, AppCalls, AppOverflows, AppEnds, Return, Panic,
                Send, Respond, reqVars
  <2> QED
    BY <1>0, <1>2, <2>1
<1>3. q = r
  BY <1>2
<1>4. Serve(r) /\ ~Receive(r)
  BY <1>1, <1>3 DEF Receive
<1> QED
  BY <1>4 DEF Serve, HandleDefault, HandleIP, IPReplies, HandleLogin, HandleRenew,
              HandlePrivate, AppCalls, AppOverflows, AppEnds, Return, Panic, Handling,
              DefaultRoutes

\* IsAuthorized lets a user in no later than the expiration time after that user's
\* last login (and the second that it ends in), renewals or not.
THEOREM AccessEnds == Spec => AccessAfterLogin
<1> DEFINE Access ==
        \A r \in Requests :
           /\ pc[r] = "handling" /\ pc'[r] = "returned"
           /\ req[r].path = "private" /\ rw'[r].status = 200
           => \E u \in Users :
                  /\ req[r].token.user = u
                  /\ login[u] # Never
                  /\ clock < login[u] + ExpirationTime + TicksPerSecond
<1>1. ASSUME IInv, Next PROVE Access
  <2> SUFFICES ASSUME NEW r \in Requests, pc[r] = "handling", pc'[r] = "returned",
                      req[r].path = "private", rw'[r].status = 200
               PROVE  \E u \in Users :
                          /\ req[r].token.user = u
                          /\ login[u] # Never
                          /\ clock < login[u] + ExpirationTime + TicksPerSecond
    OBVIOUS
  <2> DEFINE t == req[r].token
             u == t.user
  <2>1. CheckToken(t)
    BY <1>1, OnlyPrivateReturns, HandlePrivateKeeps
  <2>2. t \in issued
    BY <1>1, <2>1 DEF CheckToken, IInv, Granted
  <2>3. /\ u \in Users /\ login[u] # Never
        /\ t.exp \in Int /\ t.exp <= ExpiresAt(login[u])
    BY <1>1, <2>2 DEF IInv, Types, TokenTypes, Granted
  <2>4. login[u] \in Nat /\ clock \in Nat /\ ExpirationTime \in Nat
    BY <1>1, <2>3, TokenAssumption DEF IInv, Types, TokenTypes
  <2>5. Seconds(clock) <= Seconds(login[u] + ExpirationTime)
    <3>1. Seconds(clock) <= t.exp
      BY <2>1 DEF CheckToken
    <3>2. Seconds(clock) \in Nat /\ Seconds(login[u] + ExpirationTime) \in Nat
      BY <2>4, SecondsMonotone
    <3> QED
      BY <2>3, <3>1, <3>2 DEF ExpiresAt
  <2>6. clock < login[u] + ExpirationTime + TicksPerSecond
    BY <2>4, <2>5, SecondsApart
  <2> QED
    BY <2>3, <2>6
<1>2. IInv /\ [Next]_vars => [Access]_vars
  BY <1>1
<1> QED
  BY <1>2, Invariant, PTL DEF Spec, AccessAfterLogin
=============================================================================
