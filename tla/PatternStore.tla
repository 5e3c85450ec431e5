---------------------------- MODULE PatternStore ----------------------------
(***************************************************************************)
(* How a ruleset gets from the Wazuh manager into a running daemon:         *)
(* ruleset.load and the pattern cache it keeps, called by the daemon at     *)
(* startup and from its refresh timer, and by any other process that loads  *)
(* with a fetcher (`guardrailctl patterns --refresh`, or a second daemon    *)
(* that finds the socket taken only after loading).                         *)
(*                                                                          *)
(* A file is a sequence of blocks reached through an inode, so that a       *)
(* write that is half done, a temporary file two processes opened, and a    *)
(* rename of a file another process still writes are all visible.           *)
(***************************************************************************)
EXTENDS Naturals, Sequences

CONSTANTS
  Loaders,        \* the processes that call ruleset.load
  Daemon,         \* the one of them that serves scans
  Inodes,         \* files that may exist at once
  NoInode,        \* an absent directory entry, a closed descriptor
  Block,          \* the pieces file contents are made of
  Hole,           \* the zero bytes a write past the end of a file leaves
  Payloads,       \* what the manager may publish, malformed payloads included
  Parseable,      \* the contents ruleset.parse accepts
  Undecodable,    \* the contents that are not UTF-8
  TextRead,       \* what reading a block in text mode makes of its line ends
  InitialCaches,  \* what a cache file may hold before the first run
  Bundled,        \* data/patterns.json
  NoRuleset,      \* no ruleset
  CacheMayFail,   \* TRUE when the cache directory may refuse a write
  MaxKills        \* bound: how many processes may be killed

Piece == Block \cup {Hole}
Contents == Seq(Piece)

\* open(..., encoding="utf-8").read(): universal newlines, block by block.
AsRead(c) == [k \in 1..Len(c) |-> TextRead[c[k]]]

ASSUME LoadersAssumption == Daemon \in Loaders
ASSUME NamesAssumption ==
  /\ NoInode \notin Inodes
  /\ CacheMayFail \in BOOLEAN
  /\ MaxKills \in Nat
ASSUME ContentsAssumption ==
  /\ Payloads \subseteq Contents
  /\ InitialCaches \subseteq Contents
  /\ Parseable \subseteq Contents
  /\ TextRead \in [Piece -> Piece]
\* What parses is text; line ends are white space to JSON; and the bundled file
\* is read as text too.
ASSUME ParseAssumption ==
  /\ Bundled \in Parseable /\ Parseable \cap Undecodable = {}
  /\ \A b \in Piece : TextRead[TextRead[b]] = TextRead[b]
  /\ AsRead(Bundled) = Bundled
  /\ \A c \in Parseable : AsRead(c) \in Parseable

Sources == {"wazuh", "cache", "bundled"}
Ruleset == [raw : Parseable, source : Sources]
ASSUME NoRulesetAssumption == NoRuleset \notin Ruleset

VARIABLES
  published,      \* patterns.json of the manager's agent group
  up,             \* whether a fetch reaches the manager
  cache, tmp,     \* directory entries CACHE_PATH and CACHE_PATH.tmp
  data,           \* the contents of each inode
  pc,             \* where each process is in ruleset.load
  doc,            \* the ruleset it is about to return
  fd, off,        \* its descriptor on the temporary file, and its offset
  life,           \* the daemon: down, starting, serving
  active,         \* its scanner._ruleset
  kills,          \* processes killed so far
  recent,         \* history: rulesets accepted since the last one installed
  unsaved         \* history: whether the last one accepted failed to be cached

manager == <<published, up>>
files   == <<cache, tmp, data>>
locals  == <<pc, doc, fd, off>>
server  == <<life, active>>
memory  == <<recent, unsaved>>
vars    == <<manager, files, locals, server, kills, memory>>

PCs == {"idle", "fetch", "open", "write", "replace", "read", "raised", "install"}

\* ruleset.parse: all or nothing, every rule of a payload is valid or none is.
ParsesAnything(c) == TRUE
Parses(c) == c \in Parseable

\* What load_cache, or else load_bundled, makes of a cache with contents c.
FallbackAsFresh(c) ==
  [raw |-> IF c \notin Undecodable /\ Parses(AsRead(c)) THEN AsRead(c) ELSE Bundled,
   source |-> "wazuh"]
Fallback(c) ==
  IF c \notin Undecodable /\ Parses(AsRead(c))
    THEN [raw |-> AsRead(c), source |-> "cache"]
    ELSE [raw |-> Bundled, source |-> "bundled"]

FallbackNow ==
  IF cache = NoInode THEN [raw |-> Bundled, source |-> "bundled"]
                     ELSE Fallback(data[cache])

Init ==
  /\ published \in Payloads /\ up \in BOOLEAN
  /\ tmp = NoInode
  /\ \/ cache = NoInode /\ data = [i \in Inodes |-> <<>>]
     \/ \E i \in Inodes, c \in InitialCaches :
          cache = i /\ data = [j \in Inodes |-> IF j = i THEN c ELSE <<>>]
  /\ pc = [p \in Loaders |-> "idle"]
  /\ doc = [p \in Loaders |-> NoRuleset]
  /\ fd = [p \in Loaders |-> NoInode]
  /\ off = [p \in Loaders |-> 0]
  /\ life = "down" /\ active = NoRuleset
  /\ kills = 0
  /\ recent = {FallbackNow.raw} /\ unsaved = FALSE

Goto(p, there) == pc' = [pc EXCEPT ![p] = there]
Goes(p, here, there) == pc[p] = here /\ Goto(p, there)
Shut(p) == fd' = [fd EXCEPT ![p] = NoInode] /\ off' = [off EXCEPT ![p] = 0]

----------------------------------------------------------------------------
(* The manager, and the network in front of it. *)

Publish ==
  /\ published' \in Payloads \ {published}
  /\ UNCHANGED <<up, files, locals, server, kills, memory>>

LinkChanges ==
  /\ up' = ~up
  /\ UNCHANGED <<published, files, locals, server, kills, memory>>

----------------------------------------------------------------------------
(* ruleset.load, run by process p. *)

\* Patterns are loaded before the daemon listens.
StartListening ==
  /\ life = "down" /\ life' = "serving"
  /\ Goes(Daemon, "idle", "fetch")
  /\ UNCHANGED <<manager, files, doc, fd, off, active, kills, memory>>
Start ==
  /\ life = "down" /\ life' = "starting"
  /\ Goes(Daemon, "idle", "fetch")
  /\ UNCHANGED <<manager, files, doc, fd, off, active, kills, memory>>

\* The refresh timer fires; a load that ignored the manager is the mutant's.
RefreshFromCache(p) ==
  /\ p = Daemon /\ life = "serving"
  /\ Goes(p, "idle", "read")
  /\ UNCHANGED <<manager, files, doc, fd, off, server, kills, memory>>
Refresh(p) ==
  /\ p = Daemon /\ life = "serving"
  /\ Goes(p, "idle", "fetch")
  /\ UNCHANGED <<manager, files, doc, fd, off, server, kills, memory>>

\* `guardrailctl patterns`: asks the manager only with --refresh, and then
\* writes the daemon's cache; a second daemon loads just so.
cmd_patterns(p) ==
  /\ p # Daemon
  /\ Goes(p, "idle", "fetch") \/ Goes(p, "idle", "read")
  /\ UNCHANGED <<manager, files, doc, fd, off, server, kills, memory>>

\* The fetched payload parses: it will be the result, whatever the cache does.
AcceptUncached(p) ==
  /\ up /\ Parses(published)
  /\ Goes(p, "fetch", "install")
  /\ doc' = [doc EXCEPT ![p] = [raw |-> published, source |-> "wazuh"]]
  /\ recent' = IF p = Daemon THEN recent \cup {published} ELSE recent
  /\ UNCHANGED <<manager, files, fd, off, server, kills, unsaved>>
Accept(p) ==
  /\ up /\ Parses(published)
  /\ Goes(p, "fetch", "open")
  /\ doc' = [doc EXCEPT ![p] = [raw |-> published, source |-> "wazuh"]]
  /\ recent' = IF p = Daemon THEN recent \cup {published} ELSE recent
  /\ UNCHANGED <<manager, files, fd, off, server, kills, unsaved>>

\* PatternError on a malformed push, or any exception out of the fetcher.
Reject(p) ==
  /\ ~up \/ ~Parses(published)
  /\ Goes(p, "fetch", "read")
  /\ UNCHANGED <<manager, files, doc, fd, off, server, kills, memory>>

\* open(tmp, "w"): truncates the file the name has, or makes a new one.
OpenCacheItself(p) ==
  /\ Goes(p, "open", "write")
  /\ \E i \in Inodes :
       /\ IF cache # NoInode THEN i = cache ELSE \A q \in Loaders : fd[q] # i
       /\ cache' = i
       /\ fd' = [fd EXCEPT ![p] = i]
       /\ data' = [data EXCEPT ![i] = <<>>]
  /\ UNCHANGED <<manager, tmp, doc, off, server, kills, memory>>
OpenTmp(p) ==
  /\ Goes(p, "open", "write")
  /\ \E i \in Inodes :
       /\ IF tmp # NoInode THEN i = tmp
                           ELSE i # cache /\ \A q \in Loaders : fd[q] # i
       /\ tmp' = i
       /\ fd' = [fd EXCEPT ![p] = i]
       /\ data' = [data EXCEPT ![i] = <<>>]
  /\ UNCHANGED <<manager, cache, doc, off, server, kills, memory>>

\* A write at offset n lays one block over whatever the file holds by now.
Overlay(file, n, b) ==
  [k \in 1..(IF Len(file) > n THEN Len(file) ELSE n + 1) |->
     IF k = n + 1 THEN b ELSE IF k <= Len(file) THEN file[k] ELSE Hole]

WriteBlock(p) ==
  /\ pc[p] = "write" /\ off[p] < Len(doc[p].raw)
  /\ data' = [data EXCEPT
       ![fd[p]] = Overlay(data[fd[p]], off[p], doc[p].raw[off[p] + 1])]
  /\ off' = [off EXCEPT ![p] = off[p] + 1]
  /\ UNCHANGED <<manager, cache, tmp, pc, doc, fd, server, kills, memory>>

CloseTmp(p) ==
  /\ Goes(p, "write", "replace")
  /\ off[p] = Len(doc[p].raw)
  /\ Shut(p)
  /\ UNCHANGED <<manager, files, doc, server, kills, memory>>

\* os.replace; a temporary name that is gone is one more failed cache write.
Replace(p) ==
  /\ Goes(p, "replace", "install")
  /\ cache' = IF tmp = NoInode THEN cache ELSE tmp
  /\ tmp' = NoInode
  /\ unsaved' = IF p = Daemon THEN tmp = NoInode ELSE unsaved
  /\ UNCHANGED <<manager, data, doc, fd, off, server, kills, recent>>

\* write_cache gives up (disk full, read-only directory): load goes on.
CacheWriteFails(p) ==
  /\ CacheMayFail
  /\ pc[p] \in {"open", "write", "replace"}
  /\ Goto(p, "install")
  /\ Shut(p)
  /\ unsaved' = (unsaved \/ p = Daemon)
  /\ UNCHANGED <<manager, files, doc, server, kills, recent>>

\* load_cache, then load_bundled.  A decoding error is no OSError: it escapes.
ReadCache(p) ==
  /\ IF cache # NoInode /\ data[cache] \in Undecodable
       THEN Goes(p, "read", "raised") /\ UNCHANGED doc
       ELSE /\ Goes(p, "read", "install")
            /\ doc' = [doc EXCEPT ![p] = FallbackNow]
  /\ UNCHANGED <<manager, files, fd, off, server, kills, memory>>

\* main() lets the exception end the daemon; _refresh_loop keeps what it has.
HandleRaise(p) ==
  /\ Goes(p, "raised", "idle")
  /\ life' = IF p = Daemon /\ life = "starting" THEN "down" ELSE life
  /\ UNCHANGED <<manager, files, doc, fd, off, active, kills, memory>>

\* load returns; the daemon passes the result to scanner.set_ruleset.
InstallOnce(p) ==
  /\ Goes(p, "install", "idle")
  /\ doc' = [doc EXCEPT ![p] = NoRuleset]
  /\ IF p = Daemon /\ active = NoRuleset
       THEN active' = doc[p] /\ recent' = {doc[p].raw}
       ELSE UNCHANGED <<active, recent>>
  /\ UNCHANGED <<manager, files, fd, off, life, kills, unsaved>>
Install(p) ==
  /\ Goes(p, "install", "idle")
  /\ doc' = [doc EXCEPT ![p] = NoRuleset]
  /\ IF p = Daemon
       THEN /\ active' = doc[p] /\ recent' = {doc[p].raw}
            /\ unsaved' = (unsaved /\ doc[p].source = "wazuh")
       ELSE UNCHANGED <<active, memory>>
  /\ UNCHANGED <<manager, files, fd, off, life, kills>>

\* The model is warm and the socket bound: scans are answered from here on.
Serve ==
  /\ life = "starting" /\ pc[Daemon] = "idle"
  /\ life' = "serving"
  /\ UNCHANGED <<manager, files, locals, active, kills, memory>>

\* Killed at any point: memory and descriptors go, directory entries stay.
Kill(p) ==
  /\ kills < MaxKills
  /\ pc[p] # "idle" \/ (p = Daemon /\ life # "down")
  /\ Goto(p, "idle")
  /\ doc' = [doc EXCEPT ![p] = NoRuleset]
  /\ Shut(p)
  /\ IF p = Daemon THEN life' = "down" /\ active' = NoRuleset
                   ELSE UNCHANGED server
  /\ kills' = kills + 1
  /\ UNCHANGED <<manager, files, memory>>

Load(p) ==
  \/ Accept(p) \/ Reject(p)
  \/ OpenTmp(p) \/ WriteBlock(p) \/ CloseTmp(p) \/ Replace(p) \/ CacheWriteFails(p)
  \/ ReadCache(p) \/ HandleRaise(p) \/ Install(p)

Next ==
  \/ Publish \/ LinkChanges
  \/ Start \/ Serve
  \/ \E p \in Loaders :
       Refresh(p) \/ cmd_patterns(p) \/ Load(p) \/ Kill(p)

Spec == Init /\ [][Next]_vars

\* systemd starts the daemon again, its timer keeps firing, and it never stops
\* half way through a load: a fetch ends, unless the manager sends an answer
\* that has no end (WazuhApi, EveryGetEnds).
FairSpec ==
  Spec /\ WF_vars(Start) /\ WF_vars(Serve)
       /\ WF_vars(Refresh(Daemon)) /\ WF_vars(Load(Daemon))

----------------------------------------------------------------------------
(* Type correctness: every variable stays in its domain. *)
TypeOK ==
  /\ published \in Payloads /\ up \in BOOLEAN
  /\ cache \in Inodes \cup {NoInode} /\ tmp \in Inodes \cup {NoInode}
  /\ data \in [Inodes -> Contents]
  /\ pc \in [Loaders -> PCs]
  /\ doc \in [Loaders -> Ruleset \cup {NoRuleset}]
  /\ fd \in [Loaders -> Inodes \cup {NoInode}]
  /\ off \in [Loaders -> Nat]
  /\ life \in {"down", "starting", "serving"}
  /\ active \in Ruleset \cup {NoRuleset}
  /\ kills \in 0..MaxKills
  /\ recent \subseteq Parseable /\ unsaved \in BOOLEAN

\* A ruleset whose provenance is what it says: the source is reported in every
\* verdict and alerted on.
Honest(r) ==
  /\ r \in Ruleset
  /\ r.source = "wazuh" => r.raw \in Payloads
  /\ r.source = "bundled" => r.raw = Bundled

Cell == INSTANCE RulesetCell
          WITH Rulesets <- {r \in Ruleset : Honest(r)}, serving <- life = "serving"

(***************************************************************************)
(* The daemon implements RulesetCell: whatever the manager, the cache, the  *)
(* other loaders and crashes do, only validated rulesets of the source they *)
(* name are installed, and none is missing while it serves.                 *)
(***************************************************************************)
CellSpec == Cell!Spec

(***************************************************************************)
(* A daemon that serves has a ruleset (daemon.py: "a scan must never find   *)
(* an unloaded ruleset").                                                   *)
(***************************************************************************)
NeverDisarmed == Cell!Armed

(***************************************************************************)
(* os.replace publishes whole files only: a reader of the cache finds a     *)
(* payload that was accepted, or what was there before the first run        *)
(* (ruleset.py: "atomic: no torn file for a concurrent reader").            *)
(***************************************************************************)
CacheWhole ==
  cache # NoInode => data[cache] \in (Payloads \cap Parseable) \cup InitialCaches

(***************************************************************************)
(* A daemon that falls back to its cache comes back with what it enforced   *)
(* last, or with something newer it had accepted: neither a crash at any    *)
(* point nor a dead manager takes it to an older ruleset, unless the last   *)
(* one that it accepted could not be cached.                                *)
(***************************************************************************)
NeverForgets ==
  [][active' \notin {active, NoRuleset} /\ active'.source # "wazuh"
       => (\E c \in recent : active'.raw = AsRead(c)) \/ unsaved]_vars

(***************************************************************************)
(* "The active ruleset is only replaced on success": while the daemon       *)
(* serves, a failed refresh leaves it the rules it has, with the same       *)
(* exception.                                                               *)
(***************************************************************************)
NoRegression ==
  [][life = "serving" /\ active' \notin {active, NoRuleset}
       => \/ active'.source = "wazuh" \/ active'.raw = AsRead(active.raw)
          \/ unsaved]_vars

(***************************************************************************)
(* Once the manager stays reachable and keeps publishing one valid          *)
(* ruleset, the daemon ends up enforcing exactly that one.                  *)
(***************************************************************************)
PublishedReachesDaemon ==
  \A d \in Payloads \cap Parseable :
    <>[](up /\ published = d) => <>[](active = [raw |-> d, source |-> "wazuh"])
=============================================================================
