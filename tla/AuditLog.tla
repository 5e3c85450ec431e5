------------------------------ MODULE AuditLog ------------------------------
(***************************************************************************)
(* audit.audit_event: hook processes append to one ndjson file, rotate it   *)
(* by a rename when it is full, and know nothing of one another.  The Wazuh *)
(* agent tails the file (external): it reads the file it has open to its    *)
(* end and then opens the one the path names by then.  Events are counted,  *)
(* and MAX_BYTES is a number of them.                                       *)
(***************************************************************************)
EXTENDS Naturals, FiniteSets

CONSTANTS
  Writers,      \* hook processes that may be at work at one time
  Files,        \* inodes
  Capacity,     \* MAX_BYTES
  NoFile,
  MaxHalves,    \* bound: how many writes run out of space
  PromptAgent   \* whether the agent has caught up whenever an event begins

\* Path, backup, the agent's file and one for each writer, and one to spare.
ASSUME FilesAssumption ==
  /\ IsFiniteSet(Writers) /\ IsFiniteSet(Files)
  /\ Cardinality(Files) >= Cardinality(Writers) + 4
  /\ NoFile \notin Files
ASSUME CapacityAssumption == Capacity \in Nat \ {0}
ASSUME SwitchesAssumption == MaxHalves \in Nat /\ PromptAgent \in BOOLEAN

VARIABLES
  path,    \* the file LOG_PATH names
  backup,  \* the file LOG_PATH.1 names
  pc, fd,  \* where each writer is, and the file it has open
  tail,    \* the file the agent has open
  size,    \* the events in each file
  torn,    \* the files that end in the middle of a line
  unread,  \* the files with events that the agent has not read
  halves,  \* history: how many writes broke off in the middle of a line
  garbled  \* history: how many events were appended to half a line

names == <<path, backup>>
data  == <<size, torn, unread>>
loss  == <<halves, garbled>>
vars  == <<names, pc, fd, tail, data, loss>>

Init ==
  /\ path = NoFile /\ backup = NoFile /\ tail = NoFile
  /\ pc = [w \in Writers |-> "idle"]
  /\ fd = [w \in Writers |-> NoFile]
  /\ size = [f \in Files |-> 0] /\ torn = {} /\ unread = {}
  /\ halves = 0 /\ garbled = 0

Unused == Files \ ({path, backup, tail} \cup {fd[w] : w \in Writers})

\* What the files hold after a step; a file no longer in use holds nothing.
Data(sizes, ends, news) ==
  /\ size' = [f \in Files |-> IF f \in Unused' THEN 0 ELSE sizes[f]]
  /\ torn' = ends \ Unused' /\ unread' = news \ Unused'
SameData == Data(size, torn, unread)

Goes(w, here, there) == pc[w] = here /\ pc' = [pc EXCEPT ![w] = there]
Opens(w, f) == fd' = [fd EXCEPT ![w] = f]

----------------------------------------------------------------------------
(* audit_event, in hook process w *)

CaughtUp == (path = NoFile \/ tail = path) /\ tail \notin unread

\* _rotate_if_needed: without a file there is nothing to rotate.
FullAbove == path # NoFile /\ size[path] > Capacity
Full == path # NoFile /\ size[path] >= Capacity

CheckSize(w) ==
  /\ PromptAgent => CaughtUp
  /\ Goes(w, "idle", IF Full THEN "rotate" ELSE "open")
  /\ UNCHANGED <<names, fd, tail, data, loss>>

\* os.replace: whatever the path names by now; nothing, if it names nothing.
Rotate(w) ==
  /\ Goes(w, "rotate", "open")
  /\ IF path = NoFile THEN UNCHANGED names
                      ELSE backup' = path /\ path' = NoFile
  /\ UNCHANGED <<fd, tail, loss>> /\ SameData

\* Mode "a": the file of that name, or a new one.
Open(w) ==
  /\ Goes(w, "open", "write")
  /\ path' \in IF path = NoFile THEN Unused ELSE {path}
  /\ Opens(w, path')
  /\ UNCHANGED <<backup, tail, data, loss>>

\* One line, in one write to a file opened for appending.  Its end is that of
\* the half line before it, too: nobody can read the two.
Appended(w) == Goes(w, "write", "idle") /\ Opens(w, NoFile)
WriteUnended(w) ==
  /\ Appended(w)
  /\ garbled' = IF fd[w] \in torn THEN garbled + 1 ELSE garbled
  /\ UNCHANGED <<names, tail, halves>>
  /\ Data([size EXCEPT ![fd[w]] = @ + 1], torn, unread \cup {fd[w]})
Write(w) ==
  /\ Appended(w)
  /\ garbled' = IF fd[w] \in torn THEN garbled + 1 ELSE garbled
  /\ UNCHANGED <<names, tail, halves>>
  /\ Data([size EXCEPT ![fd[w]] = @ + 1], torn \ {fd[w]}, unread \cup {fd[w]})

\* The disk is full in the middle of the line; the error is swallowed.
WriteFails(w) ==
  /\ halves < MaxHalves /\ halves' = halves + 1
  /\ Appended(w)
  /\ UNCHANGED <<names, tail, garbled>>
  /\ Data(size, torn \cup {fd[w]}, unread)

\* A step fails before anything is written, and the error is swallowed; or
\* the hook is killed.
Abandon(w) ==
  /\ pc[w] # "idle" /\ pc' = [pc EXCEPT ![w] = "idle"] /\ Opens(w, NoFile)
  /\ UNCHANGED <<names, tail, loss>> /\ SameData

audit_event(w) ==
  CheckSize(w) \/ Rotate(w) \/ Open(w) \/ Write(w) \/ WriteFails(w) \/ Abandon(w)

----------------------------------------------------------------------------
(* The agent *)

AgentReads ==
  /\ tail \in unread /\ unread' = unread \ {tail}
  /\ UNCHANGED <<names, pc, fd, tail, size, torn, loss>>

AgentFollows ==
  /\ path # NoFile /\ tail \notin unread \cup {path}
  /\ tail' = path
  /\ UNCHANGED <<names, pc, fd, loss>> /\ SameData

Next == (\E w \in Writers : audit_event(w)) \/ AgentReads \/ AgentFollows

Spec == Init /\ [][Next]_vars

----------------------------------------------------------------------------
(***************************************************************************)
(* "Bound the ndjson so an unattended host cannot fill its disk": however   *)
(* the writers' checks, renames and appends interleave, each of the two     *)
(* files outgrows MAX_BYTES by at most one event per writer.                *)
(***************************************************************************)
DiskBounded ==
  \A f \in {path, backup} \ {NoFile} :
    size[f] < Capacity + Cardinality(Writers)

(***************************************************************************)
(* "Rotation is a plain rename the agent follows": an event the agent has   *)
(* not read yet is in the file it has open, or in the one it opens next.    *)
(***************************************************************************)
RotationIsFollowed == unread \subseteq {path, tail}

(***************************************************************************)
(* "A full disk is not a reason to stop a user's work", and costs little: a *)
(* write that breaks off garbles at most one event besides its own, however *)
(* many hooks append to the log afterwards and wherever it is renamed to.   *)
(***************************************************************************)
HalvesGarbleOneEach == garbled <= halves
=============================================================================
