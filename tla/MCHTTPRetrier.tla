--------------------------- MODULE MCHTTPRetrier ---------------------------
(* Small instances of HTTPRetrier for TLC. *)
EXTENDS HTTPRetrier

\* A status that is final, one that only reads retry, one that all retry.
MCStatuses == {"200", "404", "503"}

AllBodies == {NoBody, Replayable, OneShot}
=============================================================================
