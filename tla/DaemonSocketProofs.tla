------------------------- MODULE DaemonSocketProofs -------------------------
(***************************************************************************)
(* Theorems about DaemonSocket, for any number of daemons and of kills.     *)
(***************************************************************************)
EXTENDS DaemonSocket, TLAPS

(***************************************************************************)
(* Type correctness of DaemonSocket.                                        *)
(***************************************************************************)
THEOREM TypeCorrect == Spec => []TypeOK
<1>1. Init => TypeOK
  BY BoundsAssumption DEF Init, TypeOK, PCs
<1>2. TypeOK /\ [Next]_vars => TypeOK'
  <2> SUFFICES ASSUME TypeOK, [Next]_vars PROVE TypeOK'
    OBVIOUS
  <2> USE BoundsAssumption
      DEF TypeOK, PCs, Probing, Committed, Exiting, At, Goto
  <2>1. ASSUME NEW d \in Daemons, Start(d) \/ Close(d) \/ Kill(d)
        PROVE  TypeOK'
    BY <2>1 DEF Start, Close, Kill
  <2>2. ASSUME NEW d \in Daemons, Run(d)
        PROVE  TypeOK'
    <3>1. CASE Check(d) \/ Probe(d) \/ Unlink(d) \/ Load(d)
      BY <3>1 DEF Check, Probe, Unlink, Load
    <3>2. CASE Bind(d) \/ Listen(d) \/ Chmod(d)
      BY <3>2 DEF Bind, Listen, Chmod
    <3>3. CASE ExitCheck(d) \/ ExitUnlink(d)
      BY <3>3 DEF ExitCheck, ExitUnlink
    <3> QED BY <2>2, <3>1, <3>2, <3>3 DEF Run
  <2>3. CASE UNCHANGED vars
    BY <2>3 DEF vars
  <2> QED BY <2>1, <2>2, <2>3 DEF Next
<1> QED BY <1>1, <1>2, PTL DEF Spec

----------------------------------------------------------------------------
(* Daemons that are started one at a time *)

\* A daemon that is past its probe has the path to itself, but for daemons
\* that are on their way out; once it has bound the path, not even those.
Ownership(d) ==
  /\ pc[d] \in Probing => NoOther(d, Probing \cup Committed)
  /\ pc[d] \in Committed => NoOther(d, Probing \cup Committed \cup {"serve"})
  /\ pc[d] \in {"load", "bind"} => path = None
  /\ pc[d] \in {"listen", "chmod"} => path = d /\ NoOther(d, Exiting)
  /\ At(d, "serve") =>
       path = d /\ NoOther(d, {"serve"} \cup Committed \cup Exiting)

Inv == TypeOK /\ \A d \in Daemons : Ownership(d)

LEMMA InvStep ==
  ASSUME ~Overlapping, Inv, TypeOK', [Next]_vars, NEW x \in Daemons
  PROVE  Ownership(x)'
<1> USE DaemonsAssumption
    DEF Inv, TypeOK, Ownership, NoOther, Probing, Committed, Exiting, At, Goto, PCs
<1>1. ASSUME NEW d \in Daemons, Start(d) \/ Close(d) \/ Kill(d)
      PROVE  Ownership(x)'
  <2>1. CASE Start(d)
    BY <2>1 DEF Start
  <2>2. CASE Close(d)
    BY <2>2 DEF Close
  <2>3. CASE Kill(d)
    BY <2>3 DEF Kill
  <2> QED BY <1>1, <2>1, <2>2, <2>3
<1>2. ASSUME NEW d \in Daemons, Run(d)
      PROVE  Ownership(x)'
  <2>1. CASE Check(d)
    BY <2>1 DEF Check
  <2>2. CASE Probe(d)
    BY <2>2 DEF Probe, Live, Listening
  <2>3. CASE Unlink(d)
    BY <2>3 DEF Unlink
  <2>4. CASE Load(d)
    BY <2>4 DEF Load
  <2>5. CASE Bind(d)
    BY <2>5 DEF Bind
  <2>6. CASE Listen(d)
    BY <2>6 DEF Listen
  <2>7. CASE Chmod(d)
    BY <2>7 DEF Chmod
  <2>8. CASE ExitCheck(d)
    BY <2>8 DEF ExitCheck
  <2>9. CASE ExitUnlink(d)
    BY <2>9 DEF ExitUnlink
  <2> QED BY <1>2, <2>1, <2>2, <2>3, <2>4, <2>5, <2>6, <2>7, <2>8, <2>9 DEF Run
<1>3. CASE UNCHANGED vars
  BY <1>3 DEF vars
<1> QED BY <1>1, <1>2, <1>3 DEF Next

LEMMA OwnershipInvariance ==
  ASSUME ~Overlapping
  PROVE  Spec => []Inv
<1>1. Init /\ TypeOK => Inv
  BY DEF Init, Inv, Ownership, Probing, Committed, Exiting, At
<1>2. Inv /\ TypeOK' /\ [Next]_vars => Inv'
  BY InvStep DEF Inv
<1> QED BY <1>1, <1>2, TypeCorrect, PTL DEF Spec

(***************************************************************************)
(* Started one at a time, killed at any point: a daemon that serves is the  *)
(* one the path leads to, and nobody else serves.                           *)
(***************************************************************************)
THEOREM OneServer ==
  ASSUME ~Overlapping
  PROVE  Spec => []SoleServer
<1>1. Inv => SoleServer
  BY DEF Inv, Ownership, SoleServer
<1> QED BY <1>1, OwnershipInvariance, PTL

(***************************************************************************)
(* Started one at a time, no daemon unlinks a socket that is listened on.   *)
(***************************************************************************)
THEOREM LiveSocketsSurvive ==
  ASSUME ~Overlapping
  PROVE  Spec => LiveSocketKept
<1>1. ASSUME Inv, [Next]_vars
      PROVE  [\A d \in Daemons : path = d /\ Listening(d) /\ Listening(d)' => path' = d]_vars
  <2> SUFFICES ASSUME NEW d \in Daemons, path = d, Listening(d), Listening(d)'
               PROVE  path' = d
    OBVIOUS
  <2> USE <1>1, DaemonsAssumption
      DEF Inv, TypeOK, Ownership, NoOther, Listening, Committed, Exiting, At, Goto
  <2>1. ASSUME NEW e \in Daemons, Start(e) \/ Close(e) \/ Kill(e)
        PROVE  path' = d
    BY <2>1 DEF Start, Close, Kill
  <2>2. ASSUME NEW e \in Daemons, Run(e)
        PROVE  path' = d
    BY <2>2 DEF Run, Check, Probe, Unlink, Load, Bind, Listen, Chmod,
                ExitCheck, ExitUnlink
  <2> QED BY <2>1, <2>2 DEF Next, vars
<1> QED BY <1>1, OwnershipInvariance, PTL DEF Spec, LiveSocketKept
=============================================================================
