--------------------------- MODULE AuditLogProofs ---------------------------
(***************************************************************************)
(* AuditLog keeps the log within its bound, and half lines cheap, for any   *)
(* number of writers; and a single one loses no event by rotating.          *)
(***************************************************************************)
EXTENDS AuditLog, FiniteSetTheorems, TLAPS

\* The writers that may append to f without another look at its size.
Pending(f) ==
  {w \in Writers : \/ pc[w] = "open" /\ f = path
                   \/ pc[w] = "write" /\ f = fd[w]}

(* Type correctness: every variable stays in its domain, and a writer has a
   file open when it is about to append, and only then. *)
TypeOK ==
  /\ path \in Files \cup {NoFile} /\ backup \in Files \cup {NoFile}
  /\ tail \in Files \cup {NoFile}
  /\ pc \in [Writers -> {"idle", "rotate", "open", "write"}]
  /\ fd \in [Writers -> Files \cup {NoFile}]
  /\ \A w \in Writers : IF pc[w] = "write" THEN fd[w] \in Files ELSE fd[w] = NoFile
  /\ size \in [Files -> Nat]
  /\ torn \subseteq Files /\ unread \subseteq Files

\* A file has room for each event that is on its way to it.
RoomFor(f) == size[f] + Cardinality(Pending(f)) < Capacity + Cardinality(Writers)

Inv ==
  /\ TypeOK
  /\ \A f \in Unused : size[f] = 0
  /\ \A f \in Files : RoomFor(f)

LEMMA PendingFinite ==
  ASSUME NEW f
  PROVE  /\ IsFiniteSet(Pending(f))
         /\ Cardinality(Writers) \in Nat
         /\ Cardinality(Pending(f)) \in Nat
         /\ Cardinality(Pending(f)) <= Cardinality(Writers)
<1>1. Pending(f) \subseteq Writers
  BY DEF Pending
<1> QED BY <1>1, FilesAssumption, FS_Subset, FS_CardinalityType

LEMMA PendingFinitePrime ==
  ASSUME NEW f
  PROVE  /\ IsFiniteSet(Pending(f)')
         /\ Cardinality(Pending(f)') \in Nat
         /\ Cardinality(Pending(f)') <= Cardinality(Writers)
<1>1. Pending(f)' \subseteq Writers
  BY DEF Pending
<1> QED BY <1>1, FilesAssumption, FS_Subset, FS_CardinalityType

\* A file that grows no larger, and that no more writers are on their way to,
\* keeps its room.
LEMMA RoomKept ==
  ASSUME TypeOK, NEW f \in Files, RoomFor(f),
         size'[f] \in Nat, size'[f] <= size[f],
         Pending(f)' \subseteq Pending(f)
  PROVE  RoomFor(f)'
<1>1. Cardinality(Pending(f)') <= Cardinality(Pending(f))
  BY PendingFinite, FS_Subset
<1>2. Cardinality(Pending(f))' = Cardinality(Pending(f)')
  OBVIOUS
<1> QED BY <1>1, <1>2, PendingFinite, PendingFinitePrime, CapacityAssumption DEF RoomFor, TypeOK

\* So does one that is not full, whoever is on the way to it.
LEMMA RoomBelowCapacity ==
  ASSUME NEW f \in Files, size'[f] \in Nat, size'[f] < Capacity
  PROVE  RoomFor(f)'
<1>1. Cardinality(Pending(f))' = Cardinality(Pending(f)')
  OBVIOUS
<1> DEFINE n == Cardinality(Writers)
           c == Cardinality(Pending(f)')
<1>2. n \in Nat /\ c \in Nat /\ c <= n
  BY PendingFinite, PendingFinitePrime
<1>3. size'[f] + c < Capacity + n
  <2> HIDE DEF n, c
  <2> QED BY <1>2, CapacityAssumption
<1> QED BY <1>1, <1>3 DEF RoomFor

\* And one that gets the event of a writer that was on its way.
LEMMA RoomUsed ==
  ASSUME TypeOK, NEW f \in Files, RoomFor(f), NEW w \in Pending(f),
         size'[f] \in Nat, size'[f] <= size[f] + 1,
         Pending(f)' \subseteq Pending(f) \ {w}
  PROVE  RoomFor(f)'
<1>1. /\ IsFiniteSet(Pending(f) \ {w})
      /\ Cardinality(Pending(f) \ {w}) = Cardinality(Pending(f)) - 1
  BY PendingFinite, FS_RemoveElement
<1>2. Cardinality(Pending(f)') <= Cardinality(Pending(f)) - 1
  BY <1>1, FS_Subset
<1> QED BY <1>2, PendingFinite, PendingFinitePrime, CapacityAssumption DEF RoomFor, TypeOK

\* What Data does to the sizes.
LEMMA DataSizes ==
  ASSUME NEW sizes \in [Files -> Nat], NEW ends \in SUBSET Files, NEW news \in SUBSET Files,
         Data(sizes, ends, news)
  PROVE  /\ size' \in [Files -> Nat]
         /\ \A f \in Files : size'[f] <= sizes[f]
         /\ \A f \in Unused' : size'[f] = 0
         /\ torn' \subseteq Files /\ unread' \subseteq Files
<1>1. Unused' \subseteq Files
  BY DEF Unused
<1> QED BY <1>1 DEF Data

LEMMA InvStart == Init => Inv
<1> SUFFICES ASSUME Init PROVE Inv
  OBVIOUS
<1>1. TypeOK
  BY DEF Init, TypeOK
<1>2. \A f \in Unused : size[f] = 0
  BY DEF Init, Unused
<1>3. ASSUME NEW f \in Files PROVE RoomFor(f)
  BY PendingFinite, CapacityAssumption DEF Init, RoomFor
<1> QED BY <1>1, <1>2, <1>3 DEF Inv

\* A step after which nothing has grown, and no writer is newly on its way.
LEMMA QuietStep ==
  ASSUME Inv, TypeOK', \A f \in Unused' : size'[f] = 0,
         \A f \in Files : size'[f] <= size[f] /\ Pending(f)' \subseteq Pending(f)
  PROVE  Inv'
<1>1. ASSUME NEW f \in Files PROVE RoomFor(f)'
  <2>1. size'[f] \in Nat
    BY DEF TypeOK
  <2> QED BY <2>1, RoomKept DEF Inv
<1> QED BY <1>1 DEF Inv

LEMMA InvStep ==
  ASSUME Inv, [Next]_vars
  PROVE  Inv'
<1> USE DEF Goes, Opens, Appended, SameData, names, data
<1>1. ASSUME NEW w \in Writers, CheckSize(w) PROVE Inv'
  <2>1. TypeOK'
    BY <1>1 DEF Inv, TypeOK, CheckSize
  <2>2. UNCHANGED <<path, fd, size>> /\ Unused' = Unused
    BY <1>1 DEF CheckSize, Unused
  <2>3. ASSUME NEW f \in Files PROVE RoomFor(f)'
    <3>1. CASE f = path /\ ~Full
      BY <2>1, <2>2, <3>1, RoomBelowCapacity, CapacityAssumption, FilesAssumption DEF Full, TypeOK
    <3>2. CASE f # path \/ Full
      <4>1. Pending(f)' \subseteq Pending(f)
        BY <1>1, <2>2, <3>2 DEF Inv, TypeOK, CheckSize, Pending
      <4> QED BY <2>1, <2>2, <4>1, RoomKept DEF Inv, TypeOK
    <3> QED BY <3>1, <3>2
  <2> QED BY <2>1, <2>2, <2>3 DEF Inv
<1>2. ASSUME NEW w \in Writers, Rotate(w) PROVE Inv'
  <2>1. /\ size' \in [Files -> Nat] /\ torn' \subseteq Files /\ unread' \subseteq Files
        /\ \A f \in Unused' : size'[f] = 0
        /\ \A f \in Files : size'[f] <= size[f]
    BY <1>2, DataSizes DEF Inv, TypeOK, Rotate
  <2>2. TypeOK'
    BY <1>2, <2>1 DEF Inv, TypeOK, Rotate
  <2>3. path' = NoFile
    BY <1>2 DEF Rotate
  <2>4. \A f \in Files : Pending(f)' \subseteq Pending(f)
    BY <1>2, <2>3, FilesAssumption DEF Inv, TypeOK, Rotate, Pending
  <2> QED BY <2>1, <2>2, <2>4, QuietStep
<1>3. ASSUME NEW w \in Writers, Open(w) PROVE Inv'
  <2>1. path' \in Files /\ (path' = path \/ (path = NoFile /\ path' \in Unused))
    BY <1>3 DEF Inv, TypeOK, Open, Unused
  <2>2. TypeOK'
    <3>1. /\ pc' = [pc EXCEPT ![w] = "write"] /\ fd' = [fd EXCEPT ![w] = path']
          /\ UNCHANGED <<backup, tail, size, torn, unread>>
      BY <1>3 DEF Open
    <3> QED BY <2>1, <3>1 DEF Inv, TypeOK
  <2>3. /\ pc[w] = "open" /\ fd[w] = NoFile /\ fd'[w] = path'
        /\ \A v \in Writers \ {w} : fd'[v] = fd[v]
        /\ \A v \in Writers : pc'[v] = IF v = w THEN "write" ELSE pc[v]
        /\ UNCHANGED <<backup, tail, size>>
    BY <1>3 DEF Inv, TypeOK, Open
  <2>4. \A f \in Unused' : f \in Unused
    BY <2>1, <2>3, FilesAssumption DEF Unused
  <2>5. \A f \in Unused' : size'[f] = 0
    BY <2>3, <2>4 DEF Inv
  <2>6. ASSUME NEW f \in Files PROVE RoomFor(f)'
    <3>1. CASE f \in Unused
      BY <2>2, <2>3, <3>1, RoomBelowCapacity, CapacityAssumption DEF Inv, TypeOK
    <3>2. CASE f \notin Unused
      <4>1. Pending(f)' \subseteq Pending(f)
        BY <2>1, <2>3, <3>2 DEF Pending
      <4> QED BY <2>2, <2>3, <4>1, RoomKept DEF Inv, TypeOK
    <3> QED BY <3>1, <3>2
  <2> QED BY <2>2, <2>5, <2>6 DEF Inv
<1>4. ASSUME NEW w \in Writers, Write(w) PROVE Inv'
  <2> DEFINE sizes == [size EXCEPT ![fd[w]] = @ + 1]
  <2>1. /\ pc[w] = "write" /\ fd[w] \in Files
        /\ \A v \in Writers : pc'[v] = IF v = w THEN "idle" ELSE pc[v]
        /\ \A v \in Writers : fd'[v] = IF v = w THEN NoFile ELSE fd[v]
        /\ UNCHANGED <<path, backup, tail>>
    BY <1>4 DEF Inv, TypeOK, Write
  <2>2. /\ sizes \in [Files -> Nat]
        /\ \A f \in Files : sizes[f] = IF f = fd[w] THEN size[f] + 1 ELSE size[f]
    BY <2>1 DEF Inv, TypeOK
  <2>3. Data(sizes, torn \ {fd[w]}, unread \cup {fd[w]})
    BY <1>4 DEF Write
  <2>4. torn \ {fd[w]} \in SUBSET Files /\ unread \cup {fd[w]} \in SUBSET Files
    BY <2>1 DEF Inv, TypeOK
  <2> HIDE DEF sizes
  <2>5. /\ size' \in [Files -> Nat] /\ torn' \subseteq Files /\ unread' \subseteq Files
        /\ \A f \in Unused' : size'[f] = 0
        /\ \A f \in Files : size'[f] <= sizes[f]
    BY <2>2, <2>3, <2>4, DataSizes
  <2>6. TypeOK'
    BY <1>4, <2>1, <2>5 DEF Inv, TypeOK, Write
  <2>7. ASSUME NEW f \in Files PROVE RoomFor(f)'
    <3>1. size'[f] \in Nat
      BY <2>5
    <3>2. CASE f = fd[w]
      <4>1. w \in Pending(f) /\ Pending(f)' \subseteq Pending(f) \ {w}
        BY <2>1, <3>2 DEF Pending
      <4>2. size'[f] <= size[f] + 1
        BY <2>2, <2>5, <3>2
      <4> QED BY <3>1, <4>1, <4>2, RoomUsed DEF Inv
    <3>3. CASE f # fd[w]
      <4>1. Pending(f)' \subseteq Pending(f)
        BY <2>1 DEF Pending
      <4>2. size'[f] <= size[f]
        BY <2>2, <2>5, <3>3
      <4> QED BY <3>1, <4>1, <4>2, RoomKept DEF Inv
    <3> QED BY <3>2, <3>3
  <2> QED BY <2>5, <2>6, <2>7 DEF Inv
<1>5. ASSUME NEW w \in Writers, WriteFails(w) \/ Abandon(w) PROVE Inv'
  <2>1. PICK ends \in SUBSET Files : Data(size, ends, unread)
    <3>1. CASE WriteFails(w)
      <4>1. torn \cup {fd[w]} \in SUBSET Files
        BY <3>1 DEF Inv, TypeOK, WriteFails
      <4> QED BY <3>1, <4>1 DEF WriteFails
    <3>2. CASE Abandon(w)
      BY <3>2 DEF Inv, TypeOK, Abandon
    <3> QED BY <1>5, <3>1, <3>2
  <2>2. /\ size' \in [Files -> Nat] /\ torn' \subseteq Files /\ unread' \subseteq Files
        /\ \A f \in Unused' : size'[f] = 0
        /\ \A f \in Files : size'[f] <= size[f]
    BY <2>1, DataSizes DEF Inv, TypeOK
  <2>3. /\ pc' = [pc EXCEPT ![w] = "idle"] /\ fd' = [fd EXCEPT ![w] = NoFile]
        /\ UNCHANGED <<path, backup, tail>>
    BY <1>5 DEF WriteFails, Abandon
  <2>4. TypeOK'
    BY <2>2, <2>3 DEF Inv, TypeOK
  <2>5. \A f \in Files : Pending(f)' \subseteq Pending(f)
    BY <2>3 DEF Inv, TypeOK, Pending
  <2> QED BY <2>2, <2>4, <2>5, QuietStep
<1>6. ASSUME AgentReads \/ AgentFollows PROVE Inv'
  <2>1. /\ size' \in [Files -> Nat] /\ torn' \subseteq Files /\ unread' \subseteq Files
        /\ \A f \in Unused' : size'[f] = 0
        /\ \A f \in Files : size'[f] <= size[f]
    <3>1. CASE AgentReads
      <4>1. Unused' = Unused
        BY <3>1 DEF AgentReads, Unused
      <4> QED BY <3>1, <4>1 DEF Inv, TypeOK, AgentReads
    <3>2. CASE AgentFollows
      BY <3>2, DataSizes DEF Inv, TypeOK, AgentFollows
    <3> QED BY <1>6, <3>1, <3>2
  <2>2. UNCHANGED <<path, backup, pc, fd>> /\ tail' \in Files \cup {NoFile}
    BY <1>6 DEF Inv, TypeOK, AgentReads, AgentFollows
  <2>3. TypeOK'
    BY <2>1, <2>2 DEF Inv, TypeOK
  <2>4. \A f \in Files : Pending(f)' \subseteq Pending(f)
    BY <2>2 DEF Pending
  <2> QED BY <2>1, <2>3, <2>4, QuietStep
<1>7. CASE UNCHANGED vars
  <2>1. UNCHANGED <<path, backup, pc, fd, tail, size, torn, unread>>
    BY <1>7 DEF vars
  <2>2. TypeOK' /\ Unused' = Unused
    BY <2>1 DEF Inv, TypeOK, Unused
  <2>3. \A f \in Files : size'[f] <= size[f] /\ Pending(f)' \subseteq Pending(f)
    BY <2>1 DEF Inv, TypeOK, Pending
  <2> QED BY <2>1, <2>2, <2>3, QuietStep DEF Inv
<1> QED BY <1>1, <1>2, <1>3, <1>4, <1>5, <1>6, <1>7 DEF Next, audit_event

LEMMA Invariance == Spec => []Inv
BY InvStart, InvStep, PTL DEF Spec

(***************************************************************************)
(* However many hooks write at once, neither file outgrows MAX_BYTES by     *)
(* more than an event for each of them.                                     *)
(***************************************************************************)
THEOREM LogIsBounded == Spec => []DiskBounded
<1>1. Inv => DiskBounded
  <2> SUFFICES ASSUME Inv, NEW f \in {path, backup} \ {NoFile}
               PROVE  size[f] < Capacity + Cardinality(Writers)
    BY DEF DiskBounded
  <2>1. f \in Files /\ size[f] \in Nat
    BY DEF Inv, TypeOK
  <2> QED BY <2>1, PendingFinite, CapacityAssumption DEF Inv, RoomFor
<1> QED BY <1>1, Invariance, PTL

----------------------------------------------------------------------------
(* Half lines *)

\* A half line that nothing has been appended to has its event still to cost.
LossInv ==
  /\ halves \in Nat /\ garbled \in Nat
  /\ garbled + Cardinality(torn) <= halves

LEMMA TornFinite ==
  ASSUME TypeOK
  PROVE  IsFiniteSet(torn) /\ Cardinality(torn) \in Nat
BY FilesAssumption, FS_Subset, FS_CardinalityType DEF TypeOK

\* Half lines go away with their files.
LEMMA FewerTorn ==
  ASSUME TypeOK, LossInv, torn' \subseteq torn, UNCHANGED loss
  PROVE  LossInv'
<1>1. Cardinality(torn') \in Nat /\ Cardinality(torn') <= Cardinality(torn)
  BY TornFinite, FS_Subset, FS_CardinalityType
<1> QED BY <1>1, TornFinite DEF LossInv, loss

LEMMA LossStep ==
  ASSUME TypeOK, LossInv, [Next]_vars
  PROVE  LossInv'
<1> USE DEF Goes, Opens, Appended, SameData, Data, data
<1>1. ASSUME NEW w \in Writers, Write(w) PROVE LossInv'
  <2>1. CASE fd[w] \in torn
    <3>1. garbled' = garbled + 1 /\ halves' = halves /\ torn' \subseteq torn \ {fd[w]}
      BY <1>1, <2>1 DEF Write
    <3>2. /\ IsFiniteSet(torn \ {fd[w]})
          /\ Cardinality(torn \ {fd[w]}) = Cardinality(torn) - 1
      BY <2>1, TornFinite, FS_RemoveElement
    <3>3. Cardinality(torn') \in Nat /\ Cardinality(torn') <= Cardinality(torn) - 1
      BY <3>1, <3>2, FS_Subset, FS_CardinalityType
    <3> QED BY <3>1, <3>3, TornFinite DEF LossInv
  <2>2. CASE fd[w] \notin torn
    <3>1. torn' \subseteq torn /\ UNCHANGED loss
      BY <1>1, <2>2 DEF Write, loss
    <3> QED BY <3>1, FewerTorn
  <2> QED BY <2>1, <2>2
<1>2. ASSUME NEW w \in Writers, WriteFails(w) PROVE LossInv'
  <2>1. halves' = halves + 1 /\ garbled' = garbled /\ torn' \subseteq torn \cup {fd[w]}
    BY <1>2 DEF WriteFails
  <2>2. /\ IsFiniteSet(torn \cup {fd[w]})
        /\ Cardinality(torn \cup {fd[w]}) <= Cardinality(torn) + 1
    BY TornFinite, FS_AddElement
  <2>3. Cardinality(torn') \in Nat /\ Cardinality(torn') <= Cardinality(torn) + 1
    BY <2>1, <2>2, TornFinite, FS_Subset, FS_CardinalityType
  <2> QED BY <2>1, <2>3, TornFinite DEF LossInv
<1>3. ASSUME \/ \E w \in Writers : CheckSize(w) \/ Rotate(w) \/ Open(w) \/ Abandon(w)
             \/ AgentReads \/ AgentFollows \/ UNCHANGED vars
      PROVE  LossInv'
  <2>1. torn' \subseteq torn /\ UNCHANGED loss
    BY <1>3 DEF CheckSize, Rotate, Open, Abandon, AgentReads, AgentFollows, vars
  <2> QED BY <2>1, FewerTorn
<1> QED BY <1>1, <1>2, <1>3 DEF Next, audit_event

(***************************************************************************)
(* For any number of hooks, files and full disks, half a line garbles at    *)
(* most one event besides its own.                                          *)
(***************************************************************************)
THEOREM HalvesAreCheap == Spec => []HalvesGarbleOneEach
<1>1. Init => LossInv
  BY FS_EmptySet DEF Init, LossInv
<1>2. TypeOK /\ LossInv /\ [Next]_vars => LossInv'
  BY LossStep
<1>3. Inv => TypeOK
  BY DEF Inv
<1>4. TypeOK /\ LossInv => HalvesGarbleOneEach
  BY TornFinite DEF LossInv, HalvesGarbleOneEach
<1> QED BY <1>1, <1>2, <1>3, <1>4, Invariance, PTL DEF Spec

----------------------------------------------------------------------------
(* Rotation *)

\* One hook at a time, and an agent that keeps up.
Alone == PromptAgent /\ \A v, w \in Writers : v = w

\* Nothing is unread when the only writer renames, and it appends to what the
\* path names.
FollowInv ==
  /\ RotationIsFollowed
  /\ \A w \in Writers :
       /\ pc[w] = "rotate" => unread = {}
       /\ pc[w] = "open" => unread \subseteq {path, tail}
       /\ pc[w] = "write" => fd[w] = path

LEMMA FollowStep ==
  ASSUME Alone, Inv, FollowInv, [Next]_vars
  PROVE  FollowInv'
<1> USE DEF Goes, Opens, SameData, Data, data, names, FollowInv, RotationIsFollowed
<1>1. TypeOK
  BY DEF Inv
<1>2. ASSUME NEW w \in Writers, CheckSize(w) PROVE FollowInv'
  <2>1. unread = {}
    BY <1>1, <1>2, FilesAssumption DEF CheckSize, CaughtUp, Alone, TypeOK
  <2> QED BY <1>1, <1>2, <2>1 DEF CheckSize, Alone, TypeOK
<1>3. ASSUME NEW w \in Writers, Rotate(w) PROVE FollowInv'
  <2>1. unread' = {}
    BY <1>3 DEF Rotate
  <2> QED BY <1>1, <1>3, <2>1 DEF Rotate, Alone, TypeOK
<1>4. ASSUME NEW w \in Writers, Open(w) PROVE FollowInv'
  <2>1. path = NoFile \/ path' = path
    BY <1>4 DEF Open
  <2>2. path = NoFile => unread \subseteq {tail}
    BY <1>1, FilesAssumption DEF TypeOK
  <2> QED BY <1>1, <1>4, <2>1, <2>2 DEF Open, Alone, TypeOK
<1>5. ASSUME NEW w \in Writers, Write(w) PROVE FollowInv'
  <2>1. unread' \subseteq unread \cup {path} /\ UNCHANGED <<path, tail>>
    BY <1>5 DEF Write, Appended
  <2> QED BY <1>1, <1>5, <2>1 DEF Write, Appended, Alone, TypeOK
<1>6. ASSUME NEW w \in Writers, WriteFails(w) \/ Abandon(w) PROVE FollowInv'
  <2>1. unread' \subseteq unread /\ UNCHANGED <<path, tail>> /\ pc'[w] = "idle"
    BY <1>1, <1>6 DEF WriteFails, Abandon, Appended, TypeOK
  <2> QED BY <1>6, <2>1 DEF Alone
<1>7. CASE AgentReads
  BY <1>7 DEF AgentReads
<1>8. CASE AgentFollows
  BY <1>8 DEF AgentFollows
<1>9. CASE UNCHANGED vars
  BY <1>9 DEF vars
<1> QED BY <1>2, <1>3, <1>4, <1>5, <1>6, <1>7, <1>8, <1>9 DEF Next, audit_event

(***************************************************************************)
(* Hooks that do not run at the same time rotate the log so that the agent  *)
(* follows, wherever they die: it takes two writers to lose an event.       *)
(***************************************************************************)
THEOREM AloneTheAgentFollows ==
  ASSUME Alone
  PROVE  Spec => []RotationIsFollowed
<1>1. Init => FollowInv
  BY DEF Init, FollowInv, RotationIsFollowed
<1>2. Inv /\ FollowInv /\ [Next]_vars => FollowInv'
  BY FollowStep
<1>3. FollowInv => RotationIsFollowed
  BY DEF FollowInv
<1> QED BY <1>1, <1>2, <1>3, Invariance, PTL DEF Spec
=============================================================================
