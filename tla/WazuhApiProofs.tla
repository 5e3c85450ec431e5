--------------------------- MODULE WazuhApiProofs ---------------------------
(***************************************************************************)
(* Theorems about WazuhApi, for any token life times and timeouts that      *)
(* TimesAssumption allows, and a manager as slow as can be.                 *)
(***************************************************************************)
EXTENDS WazuhApi, TLAPS

LEMMA TokenFacts ==
  /\ NoToken \notin Tokens
  /\ \A t \in Tokens :
       t.age \in 0..Lifetime /\ t.lag \in 0..Lifetime /\ t.standing \in {"good", "revoked"}
BY TimesAssumption, NoTokenAssumption DEF Tokens

LEMMA MadeToken ==
  ASSUME NEW a \in 0..Lifetime, NEW l \in 0..Lifetime, NEW r \in {"good", "revoked"}
  PROVE  /\ Token(a, l, r) \in Tokens
         /\ Token(a, l, r).age = a
         /\ Token(a, l, r).lag = l
         /\ Token(a, l, r).standing = r
BY DEF Token, Tokens

LEMMA FreshFacts == Fresh \in Tokens /\ Fresh.age = 0
BY MadeToken, TimesAssumption DEF Fresh

LEMMA OneMoreFacts ==
  ASSUME NEW n \in 0..Lifetime
  PROVE  OneMore(n) \in 0..Lifetime /\ OneMore(n) >= n /\ OneMore(n) <= n + 1
BY TimesAssumption DEF OneMore

LEMMA ForgottenFacts ==
  ASSUME NEW t \in Tokens
  PROVE  Forgotten(t) \in Tokens /\ Forgotten(t).age = t.age
BY TokenFacts, MadeToken DEF Forgotten

LEMMA OlderFacts ==
  ASSUME NEW t \in Tokens
  PROVE  Older(t) \in Tokens /\ Older(t).age = OneMore(t.age)
<1>1. Older(t) = Token(OneMore(t.age), t.lag, t.standing)
  BY TokenFacts DEF Older
<1> QED BY <1>1, TokenFacts, OneMoreFacts, MadeToken

LEMMA LaterFacts ==
  ASSUME NEW t \in Tokens
  PROVE  Later(t) \in Tokens /\ Later(t).age = t.age
<1>1. Later(t) = Token(t.age, OneMore(t.lag), t.standing)
  BY TokenFacts DEF Later
<1> QED BY <1>1, TokenFacts, OneMoreFacts, MadeToken

LEMMA TokensStay ==
  /\ Forgotten(NoToken) = NoToken /\ Older(NoToken) = NoToken /\ Later(NoToken) = NoToken
  /\ \A t \in Tokens \cup {NoToken} :
       /\ Forgotten(t) \in Tokens \cup {NoToken}
       /\ Older(t) \in Tokens \cup {NoToken}
       /\ Later(t) \in Tokens \cup {NoToken}
BY ForgottenFacts, OlderFacts, LaterFacts DEF Forgotten, Older, Later

(***************************************************************************)
(* Type correctness of WazuhApi.                                            *)
(***************************************************************************)
THEOREM TypeCorrect == Spec => []TypeOK
<1> USE TimesAssumption DEF TypeOK, LoggingIn, Fetching, Call, Finish
<1>1. Init => TypeOK
  BY DEF Init
<1>2. TypeOK /\ [Next]_vars => TypeOK'
  <2> SUFFICES ASSUME TypeOK, [Next]_vars PROVE TypeOK'
    OBVIOUS
  <2>1. CASE Get
    BY <2>1 DEF Get
  <2>2. CASE Mint
    BY <2>2, FreshFacts DEF Mint
  <2>3. CASE LoggedIn \/ PieceArrives
    BY <2>3 DEF LoggedIn, PieceArrives
  <2>4. CASE Fails \/ Served \/ Unauthorized
    BY <2>4 DEF Fails, Served, Unauthorized
  <2>5. CASE ManagerRestarts \/ ClocksDiffer
    BY <2>5, TokensStay DEF ManagerRestarts, ClocksDiffer
  <2>6. CASE Tick
    <3>1. waited' \in 0..Lifetime /\ quiet' \in 0..MaxDelay
      BY <2>6, OneMoreFacts DEF Tick
    <3> QED BY <2>6, <3>1, TokensStay DEF Tick
  <2>7. CASE NewClient \/ UNCHANGED vars
    BY <2>7 DEF NewClient, vars
  <2> QED BY <2>1, <2>2, <2>3, <2>4, <2>5, <2>6, <2>7 DEF Next
<1> QED BY <1>1, <1>2, PTL DEF Spec

----------------------------------------------------------------------------
(* How old a token can be when the manager looks at it *)

\* A token's age is that of its delivery; it grows during a request by the
\* time that the request takes, and is counted from zero for the retry.
Ages ==
  /\ minted # NoToken => minted.age = 0
  /\ pc = "request" => token # NoToken /\ token.age < TTL + waited
  /\ pc = "retry" => token # NoToken /\ token.age <= waited

\* Each of a get's logins leads on, never back, and the get ends once.
Logins ==
  /\ pc \in {"login", "request"} => logins <= 1
  /\ logins <= 2
  /\ pc # "idle" => outcome = "none"

Inv == TypeOK /\ Ages /\ Logins

LEMMA InvStep ==
  ASSUME Inv, [Next]_vars
  PROVE  Ages' /\ Logins'
<1> USE TimesAssumption
    DEF Inv, TypeOK, Ages, Logins, LoggingIn, Fetching, Call, Finish
<1>1. CASE Get
  BY <1>1, TokenFacts DEF Get, TokenValid
<1>2. CASE Mint
  BY <1>2, FreshFacts DEF Mint
<1>3. CASE LoggedIn \/ PieceArrives
  BY <1>3, TokenFacts DEF LoggedIn, PieceArrives
<1>4. CASE Fails \/ Served \/ Unauthorized
  BY <1>4 DEF Fails, Served, Unauthorized
<1>5. CASE ManagerRestarts
  BY <1>5, TokenFacts, ForgottenFacts, TokensStay DEF ManagerRestarts
<1>6. CASE ClocksDiffer
  BY <1>6, TokenFacts, LaterFacts, TokensStay DEF ClocksDiffer
<1>7. CASE Tick
  <2>1. /\ UNCHANGED <<pc, logins, outcome>>
        /\ token' = Older(token) /\ minted' = Later(minted)
        /\ pc # "idle" => waited' = OneMore(waited)
    BY <1>7 DEF Tick
  <2>2. minted' # NoToken => minted'.age = 0
    BY <2>1, LaterFacts, TokensStay
  <2>3. ASSUME pc \in Fetching
        PROVE  /\ token' # NoToken /\ token'.age = OneMore(token.age)
               /\ waited' = OneMore(waited) /\ token.age \in 0..Lifetime
    BY <2>1, <2>3, TokenFacts, OlderFacts
  <2>4. \A a, w \in 0..Lifetime :
          /\ a < TTL + w => OneMore(a) < TTL + OneMore(w)
          /\ a <= w => OneMore(a) <= OneMore(w)
    BY DEF OneMore
  <2> QED BY <2>1, <2>2, <2>3, <2>4
<1>8. CASE NewClient \/ UNCHANGED vars
  BY <1>8 DEF NewClient, vars
<1> QED BY <1>1, <1>2, <1>3, <1>4, <1>5, <1>6, <1>7, <1>8 DEF Next

LEMMA Invariance == Spec => []Inv
<1>1. Init /\ TypeOK => Inv
  BY TimesAssumption DEF Init, Inv, Ages, Logins, LoggingIn
<1>2. Inv /\ TypeOK' /\ [Next]_vars => Inv'
  BY InvStep DEF Inv
<1> QED BY <1>1, <1>2, TypeCorrect, PTL DEF Spec

(***************************************************************************)
(* One get costs at most two logins, whatever the manager answers.          *)
(***************************************************************************)
THEOREM TwoLogins == Spec => []AtMostTwoLogins
<1>1. Inv => AtMostTwoLogins
  BY DEF Inv, Logins, AtMostTwoLogins
<1> QED BY <1>1, Invariance, PTL

(***************************************************************************)
(* While the margin between TTL and Lifetime covers the request, the        *)
(* token's own delivery and the difference of the clocks, a token that the  *)
(* client trusts has not run out, however slowly the answers come.          *)
(***************************************************************************)
THEOREM NoRaceWithExpiry == Spec => []NeverRacesExpiry
<1>1. Inv => NeverRacesExpiry
  <2> SUFFICES ASSUME Inv, pc = "request", ~Accepted(token), ~Revoked(token)
               PROVE  token.lag + waited > Lifetime - TTL
    BY DEF NeverRacesExpiry
  <2>1. token \in Tokens /\ token.age < TTL + waited /\ waited \in Nat
    BY TimesAssumption DEF Inv, TypeOK, Ages
  <2>2. token.age + token.lag >= Lifetime
    BY <2>1, TokenFacts, TimesAssumption DEF Accepted
  <2> QED BY <2>1, <2>2, TokenFacts, TimesAssumption
<1> QED BY <1>1, Invariance, PTL

(***************************************************************************)
(* A get gives up on 401 only when the manager turns down a token that is   *)
(* good, or forgot the one of the get's own making, or that token took all  *)
(* its life time to be delivered and used.                                  *)
(***************************************************************************)
THEOREM OneRetryIsEnough == Spec => RetryRecovers
<1>1. ASSUME Inv
      PROVE  [pc = "retry" /\ outcome' = "refused" /\ ~Accepted(token)
                => /\ token.age <= waited
                   /\ Revoked(token) \/ token.lag + waited >= Lifetime]_vars
  <2> SUFFICES ASSUME pc = "retry", ~Accepted(token)
               PROVE  /\ token.age <= waited
                      /\ Revoked(token) \/ token.lag + waited >= Lifetime
    OBVIOUS
  <2>1. token \in Tokens /\ token.age <= waited /\ waited \in Nat
    BY <1>1, TimesAssumption DEF Inv, TypeOK, Ages
  <2> QED BY <2>1, TokenFacts, TimesAssumption DEF Accepted
<1> QED BY <1>1, Invariance, PTL DEF Spec, RetryRecovers
=============================================================================
