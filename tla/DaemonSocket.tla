---------------------------- MODULE DaemonSocket ----------------------------
(***************************************************************************)
(* How daemons share the socket path: the startup and the exit of           *)
(* daemon.main.  Every step on the file system is an action of its own,     *)
(* because another daemon may be anywhere between two of them.              *)
(*                                                                          *)
(* The path is absent or names the socket bound last under it, written as   *)
(* its owner.  A socket outlives its owner; it is live while the owner      *)
(* listens on it.                                                           *)
(***************************************************************************)
EXTENDS Naturals

CONSTANTS
  Daemons,       \* the processes that may run guardraild
  Units,         \* those of them that systemd keeps running
  None,          \* no socket at the path
  Overlapping,   \* TRUE when nothing orders the daemons' startups and exits
  MaxStops       \* bound: how many times a daemon is killed or told to end

ASSUME DaemonsAssumption == None \notin Daemons /\ Units \subseteq Daemons
ASSUME BoundsAssumption == Overlapping \in BOOLEAN /\ MaxStops \in Nat

VARIABLES
  path,          \* SOCKET_PATH: None, or the owner of the socket it names
  pc,            \* where each daemon is in main
  stops          \* kills and shutdowns so far

vars == <<path, pc, stops>>

Probing   == {"check", "probe"}
Committed == {"unlink", "load", "bind", "listen", "chmod"}
Exiting   == {"exitcheck", "exitunlink"}
PCs == {"off", "serve"} \cup Probing \cup Committed \cup Exiting

\* connect() succeeds from listen() on, before serve_forever accepts.
Listening(d) == pc[d] \in {"chmod", "serve"}
Live == path # None /\ Listening(path)

Init ==
  /\ path \in Daemons \cup {None}
  /\ pc = [d \in Daemons |-> "off"]
  /\ stops = 0

At(d, here) == pc[d] = here
Goto(d, there) == pc' = [pc EXCEPT ![d] = there]
NoOther(d, places) == \A e \in Daemons \ {d} : pc[e] \notin places

\* Unless they overlap, daemons are started one at a time ...
Start(d) ==
  /\ At(d, "off") /\ Goto(d, "check")
  /\ Overlapping \/ NoOther(d, Probing \cup Committed)
  /\ UNCHANGED <<path, stops>>

\* os.path.exists(SOCKET_PATH)
Check(d) ==
  /\ At(d, "check")
  /\ Goto(d, IF path = None THEN "load" ELSE "probe")
  /\ UNCHANGED <<path, stops>>

\* Exit 1 when somebody answers; refused, or gone by now, is an OSError.
ProbeExistsOnly(d) ==
  /\ At(d, "probe") /\ Goto(d, "unlink")
  /\ UNCHANGED <<path, stops>>
ProbeNoUnlink(d) ==
  /\ At(d, "probe") /\ Goto(d, IF Live THEN "off" ELSE "load")
  /\ UNCHANGED <<path, stops>>
Probe(d) ==
  /\ At(d, "probe")
  /\ Goto(d, IF Live THEN "off" ELSE "unlink")
  /\ UNCHANGED <<path, stops>>

\* os.unlink of whatever has the name now; of nothing, it ends the daemon.
Unlink(d) ==
  /\ At(d, "unlink")
  /\ Goto(d, IF path = None THEN "off" ELSE "load")
  /\ path' = None
  /\ UNCHANGED stops

\* refresh_patterns and the warm-up scan: some twelve seconds.
Load(d) ==
  /\ At(d, "load") /\ Goto(d, "bind")
  /\ UNCHANGED <<path, stops>>

\* A name that exists ends the daemon (EADDRINUSE).  Unless they overlap, a
\* daemon that was exiting is gone by the time another one has loaded.
Bind(d) ==
  /\ At(d, "bind")
  /\ Overlapping \/ NoOther(d, Exiting)
  /\ IF path = None THEN Goto(d, "listen") /\ path' = d
                    ELSE Goto(d, "off") /\ UNCHANGED path
  /\ UNCHANGED stops

Listen(d) ==
  /\ At(d, "listen") /\ Goto(d, "chmod")
  /\ UNCHANGED <<path, stops>>

\* os.chmod goes through the name, too.
Chmod(d) ==
  /\ At(d, "chmod")
  /\ Goto(d, IF path = None THEN "off" ELSE "serve")
  /\ UNCHANGED <<path, stops>>

\* KeyboardInterrupt or the idle reaper: server_close.  A systemd unit has
\* neither.
Close(d) ==
  /\ At(d, "serve") /\ Goto(d, "exitcheck")
  /\ d \notin Units
  /\ stops < MaxStops /\ stops' = stops + 1
  /\ UNCHANGED path

ExitCheck(d) ==
  /\ At(d, "exitcheck")
  /\ Goto(d, IF path = None THEN "off" ELSE "exitunlink")
  /\ UNCHANGED <<path, stops>>

\* Unlinks the name, whoever bound it; when it is gone this only fails.
ExitUnlink(d) ==
  /\ At(d, "exitunlink") /\ Goto(d, "off")
  /\ path' = None
  /\ UNCHANGED stops

\* No signal but SIGINT is handled: the socket stays behind.  (systemd does not
\* restart a unit that somebody ended with SIGTERM; such a unit is no unit here.)
Kill(d) ==
  /\ pc[d] # "off" /\ Goto(d, "off")
  /\ stops < MaxStops /\ stops' = stops + 1
  /\ UNCHANGED path

Run(d) ==
  \/ Check(d) \/ Probe(d) \/ Unlink(d) \/ Load(d) \/ Bind(d) \/ Listen(d)
  \/ Chmod(d) \/ ExitCheck(d) \/ ExitUnlink(d)

Next == \E d \in Daemons : Start(d) \/ Run(d) \/ Close(d) \/ Kill(d)

Spec == Init /\ [][Next]_vars

\* A running process runs; systemd restarts its units after every failure.
FairSpec ==
  /\ Spec
  /\ \A d \in Daemons : WF_vars(Run(d))
  /\ \A d \in Units : WF_vars(Start(d))

----------------------------------------------------------------------------
(* Type correctness: every variable stays in its domain. *)
TypeOK ==
  /\ path \in Daemons \cup {None}
  /\ pc \in [Daemons -> PCs]
  /\ stops \in 0..MaxStops

(***************************************************************************)
(* One socket, one server: a daemon that serves is the one the path leads   *)
(* to, and no other daemon serves or is about to take the path from it.     *)
(***************************************************************************)
SoleServer ==
  \A d \in Daemons : At(d, "serve") =>
    path = d /\ NoOther(d, {"serve"} \cup Committed \cup Exiting)

(***************************************************************************)
(* "Clear it, but only if nothing is actually listening": no daemon removes *)
(* the socket another one is listening on.                                  *)
(***************************************************************************)
LiveSocketKept ==
  [][\A d \in Daemons : path = d /\ Listening(d) /\ Listening(d)' => path' = d]_vars

(***************************************************************************)
(* Whatever was left at the path, kills included, in the end some daemon    *)
(* can be reached there for good.                                           *)
(***************************************************************************)
InTheEndReachable == <>[]Live
=============================================================================
