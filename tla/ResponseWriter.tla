--------------------------- MODULE ResponseWriter ---------------------------
(***************************************************************************)
(* pkg/httputil: the proxy that NewResponseWriterWrapper puts in front of  *)
(* the ResponseWriter of net/http, and the functions that send a response  *)
(* through it.  A response is a record:                                    *)
(*   headerWritten, status, size, tee   the fields of the proxy            *)
(*   sent, bytes                        what the client gets: the status   *)
(*                                      (0 until there is one), the bytes  *)
(*   copied                             the bytes that went to the tee     *)
(*   flushed                            history: a flush came before the   *)
(*                                      first status                       *)
(*   again                              history: the bytes that ReadFrom   *)
(*                                      sent along with a tee              *)
(*                                                                         *)
(* Outside src/: the ResponseWriter of net/http (Net...) sends the first   *)
(* status that it is given, 200 when bytes or a flush come first.          *)
(***************************************************************************)
EXTENDS Naturals

OK == 200

NewResponse == [headerWritten |-> FALSE, status |-> 0, size |-> 0,
                tee |-> FALSE, sent |-> 0, bytes |-> 0, copied |-> 0,
                flushed |-> FALSE, again |-> 0]

NetWriteHeader(x, code) == IF x.sent = 0 THEN [x EXCEPT !.sent = code] ELSE x
NetWrite(x, n) == [NetWriteHeader(x, OK) EXCEPT !.bytes = @ + n]

\* The first status counts: the others do not reach net/http.
WriteHeader_Last(x, code) ==
    NetWriteHeader([x EXCEPT !.status = code, !.headerWritten = TRUE], code)
WriteHeader(x, code) ==
    IF x.headerWritten THEN x
    ELSE NetWriteHeader([x EXCEPT !.status = code, !.headerWritten = TRUE], code)

MaybeWriteHeader(x) == WriteHeader(x, OK)

\* n of the bytes are written: fewer than there are when the connection breaks.
Write(x, n) ==
    LET y == NetWrite(MaybeWriteHeader(x), n)
    IN  [y EXCEPT !.size = @ + n, !.copied = IF x.tee THEN @ + n ELSE @]

\* ReadFrom gives the reader to net/http, but for a response with a tee, where
\* io.Copy comes back to the proxy: to Write when the reader is a WriterTo, and
\* else to ReadFrom again, until the stack overflows.  Without a tee, a response
\* of net/http that takes no reader (over HTTP/2) leaves an error and no status.
ReadFromRecurses(x, writerTo) == x.tee /\ ~writerTo
ReadFrom(x, readerFrom, n) ==
    IF x.tee THEN [Write(x, n) EXCEPT !.size = @ + n, !.again = @ + n]
    ELSE IF readerFrom THEN [NetWrite(MaybeWriteHeader(x), n) EXCEPT !.size = @ + n]
    ELSE x

\* Flush makes net/http send a status of its own, which the proxy does not see.
Flush(x) == [NetWriteHeader(x, OK) EXCEPT !.headerWritten = TRUE,
                                          !.flushed = @ \/ ~x.headerWritten]

Tee(x) == [x EXCEPT !.tee = TRUE]

\* SendStatus, SendText, SendJSON, SendXML and Send of jsendx: the status, then
\* the body, of which n bytes are written.
Reply(x, code, n) == Write(WriteHeader(x, code), n)

\* The same through net/http alone, as the handlers of a panic do.
NetReply(x, code, n) == NetWrite(NetWriteHeader(x, code), n)
=============================================================================
