------------------------------- MODULE Token --------------------------------
(***************************************************************************)
(* pkg/jwt: the handlers that give a token to a user who logs in, sign it  *)
(* again when it is close to its end, and look at the one of a request.    *)
(* Nothing is kept on the server: a token is what it was signed with.      *)
(*                                                                         *)
(* The clock ticks TicksPerSecond times a second; a token ends at a whole  *)
(* second (exp.Unix()), the times of the configuration are in ticks.       *)
(*                                                                         *)
(* Outside src/: the user hashes, and the JWT library, which accepts only  *)
(* what was signed with the key, until the second of ExpiresAt is over.    *)
(*                                                                         *)
(* A component of Web.                                                     *)
(***************************************************************************)
EXTENDS Integers

CONSTANTS Users,
          TicksPerSecond,
          ExpirationTime,       \* expirationTime and renewTime, in ticks
          RenewTime,
          MaxClock              \* bound of the model: the last tick

VARIABLES clock,
          issued,       \* the tokens that were signed
          login         \* history: [Users -> when the user last logged in]

Never == -1
Seconds(t) == t \div TicksPerSecond

\* What the Authorization header of a request holds.
Forms == {"missing", "malformed", "forged", "signed"}
NoToken == [form |-> "missing", user |-> "", exp |-> 0]
Malformed == [NoToken EXCEPT !.form = "malformed"]      \* not "Bearer <TOKEN>"
Forged == [NoToken EXCEPT !.form = "forged"]            \* not signed with the key

TokenInit ==
    /\ clock = 0
    /\ issued = {}
    /\ login = [u \in Users |-> Never]

Tick ==
    /\ clock < MaxClock
    /\ clock' = clock + 1
    /\ UNCHANGED <<issued, login>>

\* sendTokenResponse, with a key that the signing method can use or not.
SendToken(token, signs, status) ==
    /\ status = IF signs THEN 200 ELSE 500
    /\ issued' = IF signs THEN issued \cup {token} ELSE issued

\* LoginHandler.
LoginRefused(creds, status) ==
    /\ \/ creds = "malformed" /\ status = 400
       \/ creds \in {"unknown", "wrong"} /\ status = 401
    /\ UNCHANGED <<clock, issued, login>>

ExpiresAt(t) == Seconds(t + ExpirationTime)

Login(user, signs, status) ==
    /\ SendToken([form |-> "signed", user |-> user, exp |-> ExpiresAt(clock)],
                 signs, status)
    /\ login' = [login EXCEPT ![user] = clock]
    /\ UNCHANGED clock

\* checkToken.
CheckToken_NoExpiry(token) == token.form = "signed"
CheckToken(token) == token.form = "signed" /\ Seconds(clock) <= token.exp

TooEarly(token) == token.exp * TicksPerSecond - clock > RenewTime

\* RenewHandler.  The claims are those of the token, and so is ExpiresAt.
RenewRefused(token, status) ==
    /\ \/ ~CheckToken(token) /\ status = 401
       \/ CheckToken(token) /\ TooEarly(token) /\ status = 400
    /\ UNCHANGED <<clock, issued, login>>

Renew(token, signs, status) ==
    /\ CheckToken(token)
    /\ ~TooEarly(token)
    /\ SendToken(token, signs, status)
    /\ UNCHANGED <<clock, login>>
=============================================================================
