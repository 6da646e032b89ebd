----------------------------- MODULE MCRetrier -----------------------------
(* Small instances of Retrier for TLC. *)
EXTENDS Retrier

\* DefaultRetryIf retries on every error.
DefaultRetryIf == Errors

\* A retryIfFn that knows a fatal error.
RetryTransient == {"transient"}

MCErrors == {"transient", "fatal"}
=============================================================================
