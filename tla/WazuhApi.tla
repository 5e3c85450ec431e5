------------------------------ MODULE WazuhApi ------------------------------
(***************************************************************************)
(* The manager client's token protocol: WazuhClient.get and authenticate,   *)
(* against a manager that expires tokens, forgets them when it restarts,    *)
(* and may answer anything, piece by piece, or nothing.  Time passes in     *)
(* ticks.  urlopen's timeout is one of each socket operation: a call fails  *)
(* when nothing has come for MaxDelay ticks, however long it takes in all.  *)
(***************************************************************************)
EXTENDS Naturals

CONSTANTS
  TTL,          \* TOKEN_TTL: how long the client trusts a token
  Lifetime,     \* how long the manager accepts it
  MaxDelay,     \* the client's timeout, for each socket operation
  MaxRestarts,  \* bound: manager restarts
  NoToken

\* "Renew early."
ASSUME TimesAssumption ==
  /\ TTL \in Nat \ {0} /\ Lifetime \in Nat /\ TTL <= Lifetime
  /\ MaxDelay \in Nat /\ MaxRestarts \in Nat
ASSUME NoTokenAssumption ==
  NoToken \notin [age : Nat, lag : Nat, standing : {"good", "revoked"}]

VARIABLES
  token,        \* the token the client holds
  minted,       \* the token in an authentication response under way
  pc,           \* the call that is under way
  waited,       \* how long it has been
  quiet,        \* how long nothing has come of it
  logins,       \* authentications since get was called
  outcome,      \* how the last get ended
  restarts      \* manager restarts so far

vars == <<token, minted, pc, waited, quiet, logins, outcome, restarts>>

LoggingIn == {"login", "relogin"}
Fetching == {"request", "retry"}

\* age counts from _token_at; by the manager's clock the token is older by lag,
\* its time under way and whatever the two clocks differ by.
Token(age, lag, standing) == [age |-> age, lag |-> lag, standing |-> standing]
Fresh == Token(0, 0, "good")
Revoked(t) == t.standing = "revoked"

TrustsLifetime(t) == t # NoToken /\ t.age < Lifetime
TokenValid(t) == t # NoToken /\ t.age < TTL
Accepted(t) == t # NoToken /\ t.age + t.lag < Lifetime /\ ~Revoked(t)

Init ==
  /\ token = NoToken /\ minted = NoToken
  /\ pc = "idle" /\ waited = 0 /\ quiet = 0 /\ logins = 0
  /\ outcome = "none" /\ restarts = 0

Call(there) == pc' = there /\ waited' = 0 /\ quiet' = 0
Finish(how) == Call("idle") /\ outcome' = how

\* get: authenticate first unless the cached token will do.
Get ==
  /\ pc = "idle" /\ outcome' = "none" /\ minted' = NoToken
  /\ IF TokenValid(token) THEN Call("request") /\ logins' = 0
                          ELSE Call("login") /\ logins' = 1
  /\ UNCHANGED <<token, restarts>>

\* The manager accepts the credentials; its response is on the way.
Mint ==
  /\ pc \in LoggingIn /\ minted = NoToken
  /\ minted' = Fresh
  /\ UNCHANGED <<token, pc, waited, quiet, logins, outcome, restarts>>

LoggedIn ==
  /\ pc \in LoggingIn /\ minted # NoToken
  /\ token' = minted /\ minted' = NoToken
  /\ Call(IF pc = "login" THEN "request" ELSE "retry")
  /\ UNCHANGED <<logins, outcome, restarts>>

\* Some of the answer, but not the end of it: the timeout starts again.
PieceArrives ==
  /\ pc # "idle" /\ quiet' = 0
  /\ UNCHANGED <<token, minted, pc, waited, logins, outcome, restarts>>

\* Whatever else comes of a call raises: no connection, a timeout, bad
\* credentials, a token that cannot be read, 429, any status but 200.
FailsWhenAnswered ==
  /\ pc # "idle" /\ quiet < MaxDelay /\ Finish("error")
  /\ UNCHANGED <<token, minted, logins, restarts>>
Fails ==
  /\ pc # "idle" /\ Finish("error")
  /\ UNCHANGED <<token, minted, logins, restarts>>

Served ==
  /\ pc \in Fetching /\ Accepted(token)
  /\ Finish("ok")
  /\ UNCHANGED <<token, minted, logins, restarts>>

\* 401, for whatever reason the manager has: authenticate again, once.
UnauthorizedAlwaysRetried ==
  /\ pc \in Fetching
  /\ Call("relogin") /\ logins' = logins + 1
  /\ minted' = NoToken
  /\ UNCHANGED <<token, outcome, restarts>>
UnauthorizedTriesAgain ==
  /\ pc \in Fetching
  /\ IF pc = "request" THEN Call("retry") /\ UNCHANGED outcome
                       ELSE Finish("refused")
  /\ UNCHANGED <<token, minted, logins, restarts>>
Unauthorized ==
  /\ pc \in Fetching
  /\ IF pc = "request"
       THEN Call("relogin") /\ logins' = logins + 1 /\ UNCHANGED outcome
       ELSE Finish("refused") /\ UNCHANGED logins
  /\ minted' = NoToken
  /\ UNCHANGED <<token, restarts>>

Forgotten(t) == IF t = NoToken THEN t ELSE Token(t.age, t.lag, "revoked")

\* The manager forgets every token; bounded, or no token would ever age.
ManagerRestarts ==
  /\ restarts < MaxRestarts /\ restarts' = restarts + 1
  /\ token' = Forgotten(token) /\ minted' = Forgotten(minted)
  /\ UNCHANGED <<pc, waited, quiet, logins, outcome>>

\* Times matter up to Lifetime only.
OneMore(n) == IF n < Lifetime THEN n + 1 ELSE n
Older(t) == IF t = NoToken THEN t ELSE Token(OneMore(t.age), t.lag, t.standing)
Later(t) == IF t = NoToken THEN t ELSE Token(t.age, OneMore(t.lag), t.standing)

Tick ==
  /\ pc # "idle" => quiet < MaxDelay
  /\ IF pc = "idle" THEN UNCHANGED <<waited, quiet>>
                    ELSE waited' = OneMore(waited) /\ quiet' = quiet + 1
  /\ token' = Older(token) /\ minted' = Later(minted)
  /\ UNCHANGED <<pc, logins, outcome, restarts>>

\* The manager's clock gains on time.monotonic, which rests while the host
\* sleeps.  (The other way round the client renews all the earlier.)
ClocksDiffer ==
  /\ token' = Later(token) /\ minted' = Later(minted)
  /\ UNCHANGED <<pc, waited, quiet, logins, outcome, restarts>>

\* daemon._build_fetcher makes a client for each refresh.
NewClient ==
  /\ pc = "idle" /\ token # NoToken
  /\ token' = NoToken /\ outcome' = "none"
  /\ UNCHANGED <<minted, pc, waited, quiet, logins, restarts>>

Next ==
  \/ Get \/ Mint \/ LoggedIn \/ PieceArrives \/ Fails \/ Served \/ Unauthorized
  \/ ManagerRestarts \/ Tick \/ ClocksDiffer \/ NewClient

Spec == Init /\ [][Next]_vars

\* Time passes, and the socket timeout fires; the manager owes us nothing.
FairSpec == Spec /\ WF_vars(Tick) /\ WF_vars(quiet = MaxDelay /\ Fails)

----------------------------------------------------------------------------
Tokens == [age : 0..Lifetime, lag : 0..Lifetime, standing : {"good", "revoked"}]

(* Type correctness: every variable stays in its domain. *)
TypeOK ==
  /\ token \in Tokens \cup {NoToken} /\ minted \in Tokens \cup {NoToken}
  /\ pc \in {"idle"} \cup LoggingIn \cup Fetching
  /\ waited \in 0..Lifetime /\ quiet \in 0..MaxDelay
  /\ logins \in Nat
  /\ outcome \in {"none", "ok", "error", "refused"}
  /\ restarts \in 0..MaxRestarts

(***************************************************************************)
(* "Re-authenticating at most once on 401 ... without ever looping": one    *)
(* get costs at most two logins, whatever the manager answers.              *)
(***************************************************************************)
AtMostTwoLogins == logins <= 2

(***************************************************************************)
(* "Renew early so a refresh never races expiry": a token does not run out  *)
(* between the check of its age and the manager's look at it, as long as    *)
(* the margin between TTL and Lifetime covers the request so far, the       *)
(* token's own time under way and the difference of the clocks.             *)
(***************************************************************************)
NeverRacesExpiry ==
  pc = "request" /\ ~Accepted(token) =>
    Revoked(token) \/ token.lag + waited > Lifetime - TTL

(***************************************************************************)
(* The single retry recovers: when a get gives up on 401, the manager has   *)
(* turned down a token that it would accept, or this get's own new token    *)
(* was forgotten since, or took all its life time to be delivered and used. *)
(***************************************************************************)
RetryRecovers ==
  [][pc = "retry" /\ outcome' = "refused" /\ ~Accepted(token)
       => /\ token.age <= waited
          /\ Revoked(token) \/ token.lag + waited >= Lifetime]_vars

(***************************************************************************)
(* Every get ends, unless the manager sends an answer that never does, each *)
(* piece of it in time.                                                     *)
(***************************************************************************)
EveryGetEnds == []<><<PieceArrives>>_vars \/ (pc # "idle" ~> pc = "idle")
=============================================================================
