------------------------- MODULE PatternStoreProofs -------------------------
(***************************************************************************)
(* Theorems about PatternStore, for any set of loaders, payloads, files and *)
(* initial caches.                                                          *)
(***************************************************************************)
EXTENDS PatternStore, SequenceTheorems, TLAPS

----------------------------------------------------------------------------
(* File contents *)

LEMMA FunctionIsSeq ==
  ASSUME NEW S, NEW n \in Nat, NEW f \in [1..n -> S]
  PROVE  f \in Seq(S) /\ Len(f) = n
<1>1. f \in Seq(S)
  BY SeqDef
<1>2. DOMAIN f = 1..n /\ DOMAIN f = 1..Len(f) /\ Len(f) \in Nat
  BY <1>1, LenProperties
<1> QED BY <1>1, <1>2

LEMMA AsReadProperties ==
  ASSUME NEW c \in Contents
  PROVE  /\ AsRead(c) \in Contents /\ Len(AsRead(c)) = Len(c)
         /\ AsRead(AsRead(c)) = AsRead(c)
<1>1. Len(c) \in Nat /\ \A k \in 1..Len(c) : c[k] \in Piece
  BY LenProperties, ElementOfSeq DEF Contents
<1>2. AsRead(c) \in [1..Len(c) -> Piece]
  BY <1>1, ContentsAssumption DEF AsRead
<1>3. AsRead(c) \in Contents /\ Len(AsRead(c)) = Len(c)
  BY <1>1, <1>2, FunctionIsSeq DEF Contents
<1>4. AsRead(AsRead(c)) = AsRead(c)
  BY <1>1, <1>3, ParseAssumption DEF AsRead
<1> QED BY <1>3, <1>4

LEMMA OverlayProperties ==
  ASSUME NEW file \in Contents, NEW n \in Nat, NEW b \in Piece
  PROVE  /\ Overlay(file, n, b) \in Contents
         /\ Len(file) = n =>
              /\ Len(Overlay(file, n, b)) = n + 1
              /\ \A k \in 1..n+1 :
                   Overlay(file, n, b)[k] = IF k = n + 1 THEN b ELSE file[k]
<1> DEFINE m == IF Len(file) > n THEN Len(file) ELSE n + 1
<1>1. Len(file) \in Nat /\ \A k \in 1..Len(file) : file[k] \in Piece
  BY LenProperties, ElementOfSeq DEF Contents
<1>2. m \in Nat
  BY <1>1
<1>3. Overlay(file, n, b) \in [1..m -> Piece]
  BY <1>1 DEF Overlay, Piece
<1>4. Overlay(file, n, b) \in Contents /\ Len(Overlay(file, n, b)) = m
  BY <1>2, <1>3, FunctionIsSeq DEF Contents
<1>5. ASSUME Len(file) = n, NEW k \in 1..n+1
      PROVE  Overlay(file, n, b)[k] = IF k = n + 1 THEN b ELSE file[k]
  BY <1>5 DEF Overlay
<1> QED BY <1>4, <1>5

LEMMA FallbackProperties ==
  ASSUME NEW c \in Contents
  PROVE  Honest(Fallback(c)) /\ Fallback(c).source # "wazuh"
BY AsReadProperties, ParseAssumption
   DEF Fallback, Parses, Honest, Ruleset, Sources

----------------------------------------------------------------------------
(* The inductive invariants *)

\* The result under way is what Accept or ReadCache made it.
DocOK(p) ==
  /\ pc[p] \in {"open", "write", "replace"} =>
       Honest(doc[p]) /\ doc[p].source = "wazuh"
  /\ pc[p] = "install" => Honest(doc[p])
  /\ pc[p] = "write" => fd[p] \in Inodes

\* The daemon has installed a ruleset before it leaves its first load.
ActiveOK ==
  /\ active # NoRuleset => Honest(active)
  /\ life = "serving" => active # NoRuleset
  /\ life = "starting" /\ pc[Daemon] = "idle" => active # NoRuleset

Inv == TypeOK /\ (\A p \in Loaders : DocOK(p)) /\ ActiveOK

\* With one loader: the temporary file holds what has been written of its
\* result so far, and is never the file the cache name has.
TmpOK(p) ==
  /\ IF fd[p] # NoInode THEN pc[p] = "write" ELSE off[p] = 0
  /\ tmp # NoInode => tmp # cache
  /\ pc[p] = "write" =>
       /\ fd[p] = tmp
       /\ Len(data[tmp]) = off[p] /\ off[p] <= Len(doc[p].raw)
       /\ \A k \in 1..off[p] : data[tmp][k] = doc[p].raw[k]
  /\ pc[p] = "replace" => tmp \in Inodes /\ data[tmp] = doc[p].raw

SoloInv == Inv /\ TmpOK(Daemon) /\ CacheWhole

\* And while the last write of the cache went well, it holds what was accepted
\* or enforced last, or is about to.
MemoryOK(p) ==
  /\ pc[p] \in {"open", "write", "replace"} => doc[p].raw \in recent
  /\ pc[p] = "install" /\ doc[p].source # "wazuh" => doc[p] = FallbackNow
  /\ ~unsaved =>
       /\ \E c \in recent : FallbackNow.raw = AsRead(c)
       /\ pc[p] = "install" /\ doc[p].source = "wazuh" =>
            cache # NoInode /\ data[cache] = doc[p].raw
       /\ /\ active # NoRuleset
          /\ \/ pc[p] \in {"idle", "fetch", "read", "raised"}
             \/ pc[p] = "install" /\ doc[p].source # "wazuh"
          => recent = {active.raw}

MemoryInv == SoloInv /\ MemoryOK(Daemon)

----------------------------------------------------------------------------
(* Type correctness, and what the daemon installs *)

LEMMA InitInv == Init => Inv
<1> SUFFICES ASSUME Init PROVE Inv
  OBVIOUS
<1>1. <<>> \in Contents
  BY EmptySeq DEF Contents
<1>2. data \in [Inodes -> Contents]
  BY <1>1, ContentsAssumption DEF Init
<1>3. Honest(FallbackNow)
  BY <1>2, FallbackProperties, ParseAssumption, NamesAssumption
     DEF Init, FallbackNow, Honest, Ruleset, Sources
<1>4. TypeOK
  <2>1. unsaved \in BOOLEAN
    BY DEF Init
  <2> QED BY <1>2, <1>3, <2>1, NamesAssumption DEF Init, TypeOK, PCs, Honest, Ruleset
<1>5. (\A p \in Loaders : DocOK(p)) /\ ActiveOK
  BY <1>4 DEF Init, DocOK, ActiveOK
<1> QED BY <1>4, <1>5 DEF Inv

LEMMA FallbackNowHonest ==
  ASSUME TypeOK
  PROVE  Honest(FallbackNow) /\ FallbackNow.source # "wazuh"
BY FallbackProperties, ParseAssumption
   DEF TypeOK, FallbackNow, Honest, Ruleset, Sources

LEMMA TypeStep ==
  ASSUME Inv, [Next]_vars
  PROVE  TypeOK'
<1> USE NamesAssumption, LoadersAssumption
    DEF Inv, TypeOK, manager, files, locals, server, memory, vars, Goto, Goes, Shut, PCs
<1>1. CASE UNCHANGED vars
  BY <1>1
<1>2. CASE Publish \/ LinkChanges \/ Start \/ Serve
  BY <1>2 DEF Publish, LinkChanges, Start, Serve
<1>3. ASSUME NEW p \in Loaders, Load(p)
      PROVE  TypeOK'
  <2>0. DocOK(p) /\ published \in Payloads
    OBVIOUS
  <2>1. CASE Accept(p)
    BY <2>1 DEF Accept, Parses, Ruleset, Sources
  <2>2. CASE Reject(p) \/ HandleRaise(p)
    BY <2>2 DEF Reject, HandleRaise
  <2>7. CASE CloseTmp(p)
    BY <2>7 DEF CloseTmp
  <2>8. CASE Replace(p)
    BY <2>8 DEF Replace
  <2>9. CASE CacheWriteFails(p)
    BY <2>9 DEF CacheWriteFails
  <2>3. CASE OpenTmp(p)
    BY <2>3, EmptySeq DEF OpenTmp, Contents
  <2>4. CASE WriteBlock(p)
    <3>1. fd[p] \in Inodes /\ doc[p].raw \in Contents
      BY <2>4, <2>0, ContentsAssumption DEF WriteBlock, DocOK, Honest, Ruleset
    <3>2. off[p] + 1 \in 1..Len(doc[p].raw)
      BY <2>4, <3>1, LenProperties DEF WriteBlock, Contents
    <3>3. doc[p].raw[off[p] + 1] \in Piece
      BY <3>1, <3>2, ElementOfSeq DEF Contents
    <3>4. Overlay(data[fd[p]], off[p], doc[p].raw[off[p] + 1]) \in Contents
      BY <3>1, <3>3, OverlayProperties
    <3> QED BY <2>4, <3>1, <3>4 DEF WriteBlock
  <2>5. CASE ReadCache(p)
    BY <2>5, FallbackNowHonest DEF ReadCache, Honest
  <2>6. CASE Install(p)
    BY <2>6, <2>0 DEF Install, DocOK, Honest, Ruleset
  <2> QED BY <1>3, <2>1, <2>2, <2>3, <2>4, <2>5, <2>6, <2>7, <2>8, <2>9 DEF Load
<1>4. ASSUME NEW p \in Loaders, Refresh(p) \/ cmd_patterns(p) \/ Kill(p)
      PROVE  TypeOK'
  BY <1>4 DEF Refresh, cmd_patterns, Kill
<1> QED BY <1>1, <1>2, <1>3, <1>4 DEF Next

LEMMA DocStep ==
  ASSUME Inv, [Next]_vars, NEW q \in Loaders
  PROVE  DocOK(q)'
<1> USE DEF Inv, TypeOK, DocOK, Goes, Goto, Shut, manager, files, locals, server, memory
<1>1. CASE UNCHANGED vars
  BY <1>1 DEF vars
<1>2. CASE Publish \/ LinkChanges \/ Start \/ Serve
  BY <1>2 DEF Publish, LinkChanges, Start, Serve
<1>3. ASSUME NEW p \in Loaders, Load(p)
      PROVE  DocOK(q)'
  <2>1. CASE Accept(p)
    BY <2>1 DEF Accept, Parses, Honest, Ruleset, Sources
  <2>2. CASE Reject(p) \/ HandleRaise(p)
    BY <2>2 DEF Reject, HandleRaise
  <2>3. CASE OpenTmp(p)
    BY <2>3 DEF OpenTmp
  <2>4. CASE WriteBlock(p)
    BY <2>4 DEF WriteBlock
  <2>5. CASE CloseTmp(p)
    BY <2>5 DEF CloseTmp
  <2>6. CASE Replace(p)
    BY <2>6 DEF Replace
  <2>7. CASE CacheWriteFails(p)
    BY <2>7 DEF CacheWriteFails
  <2>8. CASE ReadCache(p)
    BY <2>8, FallbackNowHonest DEF ReadCache
  <2>9. CASE Install(p)
    BY <2>9 DEF Install
  <2> QED BY <1>3, <2>1, <2>2, <2>3, <2>4, <2>5, <2>6, <2>7, <2>8, <2>9 DEF Load
<1>4. ASSUME NEW p \in Loaders, Refresh(p) \/ cmd_patterns(p) \/ Kill(p)
      PROVE  DocOK(q)'
  BY <1>4 DEF Refresh, cmd_patterns, Kill
<1> QED BY <1>1, <1>2, <1>3, <1>4 DEF Next

\* What a step may do to the daemon's cell: install an honest ruleset, open
\* it when it is filled, empty it, or leave it alone.
LEMMA CellStep ==
  ASSUME Inv, [Next]_vars
  PROVE  /\ ActiveOK'
         /\ \/ Honest(active') /\ life' = life
            \/ active # NoRuleset /\ active' = active /\ life # "serving"
                 /\ life' = "serving"
            \/ active' = NoRuleset /\ life' # "serving"
            \/ active' = active /\ (life' = "serving" <=> life = "serving")
<1> USE LoadersAssumption DEF Inv, TypeOK, ActiveOK, Goes, Goto, server
<1>1. CASE UNCHANGED vars
  BY <1>1 DEF vars, locals
<1>2. CASE Publish \/ LinkChanges
  BY <1>2 DEF Publish, LinkChanges, locals
<1>3. CASE Start \/ Serve
  BY <1>3 DEF Start, Serve, locals
<1>4. ASSUME NEW p \in Loaders, Load(p)
      PROVE  /\ ActiveOK'
             /\ \/ Honest(active') /\ life' = life
                \/ active' = active /\ (life' = "serving" <=> life = "serving")
  <2>1. CASE Accept(p) \/ Reject(p) \/ OpenTmp(p)
    BY <2>1 DEF Accept, Reject, OpenTmp
  <2>2. CASE WriteBlock(p)
    BY <2>2 DEF WriteBlock
  <2>3. CASE CloseTmp(p) \/ Replace(p) \/ CacheWriteFails(p)
    BY <2>3 DEF CloseTmp, Replace, CacheWriteFails
  <2>4. CASE ReadCache(p) \/ HandleRaise(p)
    BY <2>4 DEF ReadCache, HandleRaise
  <2>5. CASE Install(p)
    BY <2>5, NoRulesetAssumption DEF Install, DocOK, Honest
  <2> QED BY <1>4, <2>1, <2>2, <2>3, <2>4, <2>5 DEF Load
<1>5. ASSUME NEW p \in Loaders, Refresh(p) \/ cmd_patterns(p) \/ Kill(p)
      PROVE  /\ ActiveOK'
             /\ \/ active' = NoRuleset /\ life' # "serving"
                \/ active' = active /\ (life' = "serving" <=> life = "serving")
  BY <1>5 DEF Refresh, cmd_patterns, Kill
<1> QED BY <1>1, <1>2, <1>3, <1>4, <1>5 DEF Next

(***************************************************************************)
(* Every variable stays in its domain, and the auxiliary facts about a load *)
(* under way hold, whatever the number of loaders and crashes.              *)
(***************************************************************************)
THEOREM Invariance == Spec => []Inv
<1>1. Inv /\ [Next]_vars => Inv'
  BY TypeStep, DocStep, CellStep DEF Inv
<1> QED BY <1>1, InitInv, PTL DEF Spec

(***************************************************************************)
(* Type correctness of PatternStore.                                        *)
(***************************************************************************)
THEOREM TypeCorrect == Spec => []TypeOK
BY Invariance, PTL DEF Inv

(***************************************************************************)
(* The daemon implements RulesetCell: only validated rulesets that name     *)
(* their true source are ever installed, and none is missing while it       *)
(* serves.                                                                  *)
(***************************************************************************)
THEOREM ImplementsCell == Spec => CellSpec
<1>1. Init => Cell!Init
  BY DEF Init, Cell!Init
<1>2. Inv /\ [Next]_vars => [Cell!Next]_Cell!vars
  <2> SUFFICES ASSUME Inv, [Next]_vars PROVE [Cell!Next]_Cell!vars
    OBVIOUS
  <2> QED BY CellStep
       DEF Honest, Cell!Next, Cell!Install, Cell!Open, Cell!Stop, Cell!vars
<1> QED BY <1>1, <1>2, Invariance, PTL DEF Spec, CellSpec, Cell!Spec

(***************************************************************************)
(* A daemon that serves always has a validated ruleset.                     *)
(***************************************************************************)
THEOREM AlwaysArmed == Spec => []NeverDisarmed
<1>1. Inv => NeverDisarmed
  BY DEF Inv, ActiveOK, NeverDisarmed, Cell!Armed, Honest
<1> QED BY <1>1, Invariance, PTL

----------------------------------------------------------------------------
(* One loader: the cache file *)

Solo == Loaders = {Daemon}

LEMMA InitSolo ==
  ASSUME Init
  PROVE  TmpOK(Daemon) /\ CacheWhole
BY LoadersAssumption DEF Init, TmpOK, CacheWhole

LEMMA SoloStep ==
  ASSUME Solo, SoloInv, [Next]_vars
  PROVE  TmpOK(Daemon)' /\ CacheWhole'
<1> DEFINE p == Daemon
<1> USE NamesAssumption
    DEF SoloInv, Inv, TypeOK, TmpOK, CacheWhole, Goes, Goto, Shut,
        manager, files, locals, server
<1>0. Loaders = {p} /\ DocOK(p) /\ p \in Loaders
  BY DEF Solo
<1>1. CASE UNCHANGED vars
  BY <1>1 DEF vars
<1>2. CASE Publish \/ LinkChanges \/ Start \/ Serve
  BY <1>0, <1>2 DEF Publish, LinkChanges, Start, Serve
<1>3. CASE Load(p)
  <2>1. CASE Accept(p)
    BY <1>0, <2>1 DEF Accept
  <2>2. CASE Reject(p) \/ ReadCache(p) \/ HandleRaise(p) \/ Install(p)
    BY <1>0, <2>2 DEF Reject, ReadCache, HandleRaise, Install
  <2>3. CASE OpenTmp(p)
    <3>1. PICK i \in Inodes :
            /\ IF tmp # NoInode THEN i = tmp
                                ELSE i # cache /\ \A q \in Loaders : fd[q] # i
            /\ tmp' = i
            /\ fd' = [fd EXCEPT ![p] = i]
            /\ data' = [data EXCEPT ![i] = <<>>]
      BY <2>3 DEF OpenTmp
    <3>2. doc[p].raw \in Contents /\ Len(doc[p].raw) \in Nat /\ Len(<<>>) = 0
      BY <1>0, <2>3, ContentsAssumption, LenProperties
         DEF OpenTmp, DocOK, Honest, Ruleset, Contents
    <3>3. off[p] = 0
      BY <1>0, <2>3 DEF OpenTmp
    <3> QED BY <1>0, <2>3, <3>1, <3>2, <3>3 DEF OpenTmp
  <2>4. CASE WriteBlock(p)
    <3> DEFINE n == off[p]
               raw == doc[p].raw
    <3>1. /\ pc[p] = "write" /\ fd[p] = tmp /\ tmp \in Inodes /\ tmp # cache
          /\ n < Len(raw) /\ n \in Nat
          /\ data' = [data EXCEPT ![tmp] = Overlay(data[tmp], n, raw[n + 1])]
          /\ off' = [off EXCEPT ![p] = n + 1]
          /\ UNCHANGED <<cache, tmp, pc, doc, fd>>
      BY <1>0, <2>4 DEF WriteBlock, DocOK
    <3>2. raw \in Contents /\ Len(raw) \in Nat
      BY <1>0, <3>1, ContentsAssumption, LenProperties
         DEF DocOK, Honest, Ruleset, Contents
    <3>3. raw[n + 1] \in Piece
      BY <3>1, <3>2, ElementOfSeq DEF Contents
    <3>4. /\ Len(data[tmp]) = n /\ data[tmp] \in Contents
          /\ \A k \in 1..n : data[tmp][k] = raw[k]
      BY <1>0, <3>1
    <3>5. /\ Len(data'[tmp]) = n + 1
          /\ \A k \in 1..n+1 :
               data'[tmp][k] = IF k = n + 1 THEN raw[n + 1] ELSE data[tmp][k]
      BY <3>1, <3>3, <3>4, OverlayProperties
    <3>6. ASSUME NEW k \in 1..n+1 PROVE data'[tmp][k] = raw[k]
      <4>1. CASE k = n + 1
        BY <3>5, <4>1
      <4>2. CASE k # n + 1
        <5>1. k \in 1..n
          BY <3>1, <4>2
        <5> QED BY <3>4, <3>5, <4>2, <5>1
      <4> QED BY <4>1, <4>2
    <3>7. off'[p] = n + 1 /\ n + 1 <= Len(raw)
      BY <1>0, <3>1, <3>2
    <3>8. TmpOK(p)'
      BY <1>0, <3>1, <3>5, <3>6, <3>7
    <3>9. CacheWhole'
      BY <3>1
    <3> QED BY <3>8, <3>9
  <2>5. CASE CloseTmp(p)
    <3>1. /\ pc[p] = "write" /\ tmp \in Inodes /\ fd[p] = tmp
          /\ Len(data[tmp]) = Len(doc[p].raw)
          /\ \A k \in 1..Len(data[tmp]) : data[tmp][k] = doc[p].raw[k]
      BY <1>0, <2>5 DEF CloseTmp, DocOK
    <3>2. doc[p].raw \in Contents /\ data[tmp] \in Contents
      BY <1>0, <3>1, ContentsAssumption DEF DocOK, Honest, Ruleset
    <3>3. data[tmp] = doc[p].raw
      BY <3>1, <3>2, SeqEqual DEF Contents
    <3> QED BY <1>0, <2>5, <3>1, <3>3 DEF CloseTmp
  <2>6. CASE Replace(p)
    BY <1>0, <2>6 DEF Replace, DocOK, Honest, Ruleset
  <2>7. CASE CacheWriteFails(p)
    BY <1>0, <2>7 DEF CacheWriteFails
  <2> QED BY <1>3, <2>1, <2>2, <2>3, <2>4, <2>5, <2>6, <2>7 DEF Load
<1>4. CASE Refresh(p) \/ cmd_patterns(p) \/ Kill(p)
  BY <1>0, <1>4 DEF Refresh, cmd_patterns, Kill
<1> QED BY <1>0, <1>1, <1>2, <1>3, <1>4 DEF Next

(***************************************************************************)
(* One loader, crashing at any point: whoever opens the cache file finds a  *)
(* whole accepted payload, or what was there before the first run.          *)
(***************************************************************************)
THEOREM CacheIsWhole ==
  ASSUME Solo
  PROVE  Spec => []CacheWhole
<1>1. Init => SoloInv
  BY InitInv, InitSolo DEF SoloInv
<1>2. SoloInv /\ [Next]_vars => SoloInv'
  BY TypeStep, DocStep, CellStep, SoloStep DEF SoloInv, Inv
<1>3. SoloInv => CacheWhole
  BY DEF SoloInv
<1> QED BY <1>1, <1>2, <1>3, PTL DEF Spec

----------------------------------------------------------------------------
(* One loader: what a failed refresh falls back to *)

\* What is in the cache falls back to itself, read as text.
LEMMA FallbackOfAccepted ==
  ASSUME TypeOK, cache # NoInode, data[cache] \in Parseable
  PROVE  FallbackNow.raw = AsRead(data[cache])
BY ParseAssumption DEF FallbackNow, Fallback, Parses

\* Falling back to what was installed gives the same rules again.
LEMMA FallbackIsText ==
  ASSUME TypeOK
  PROVE  AsRead(FallbackNow.raw) = FallbackNow.raw
BY AsReadProperties, ParseAssumption DEF TypeOK, FallbackNow, Fallback

LEMMA InitMemory ==
  ASSUME Init
  PROVE  MemoryOK(Daemon)
<1>1. TypeOK
  BY InitInv DEF Inv
<1> QED BY <1>1, FallbackIsText, LoadersAssumption DEF Init, MemoryOK

LEMMA MemoryStep ==
  ASSUME Solo, MemoryInv, [Next]_vars
  PROVE  MemoryOK(Daemon)'
<1> DEFINE p == Daemon
<1> USE NamesAssumption
    DEF MemoryInv, SoloInv, Inv, TypeOK, MemoryOK, Goes, Goto,
        manager, files, locals, server, memory
<1>0. Loaders = {p} /\ DocOK(p) /\ TmpOK(p) /\ p \in Loaders
  BY DEF Solo
<1>1. cache' = cache /\ (cache # NoInode => data'[cache] = data[cache])
        => FallbackNow' = FallbackNow
  BY DEF FallbackNow
<1>2. CASE UNCHANGED vars
  BY <1>1, <1>2 DEF vars
<1>3. CASE Publish \/ LinkChanges \/ Start \/ Serve
  BY <1>0, <1>1, <1>3 DEF Publish, LinkChanges, Start, Serve
<1>4. CASE Load(p)
  <2>1. CASE Accept(p)
    BY <1>0, <1>1, <2>1 DEF Accept
  <2>2. CASE Reject(p)
    BY <1>0, <1>1, <2>2 DEF Reject
  <2>3. CASE OpenTmp(p)
    BY <1>0, <1>1, <2>3 DEF OpenTmp, TmpOK
  <2>4. CASE WriteBlock(p)
    BY <1>0, <1>1, <2>4 DEF WriteBlock, TmpOK, DocOK
  <2>5. CASE CloseTmp(p)
    BY <1>0, <1>1, <2>5 DEF CloseTmp
  <2>6. CASE Replace(p)
    <3>1. /\ cache' = tmp /\ cache' # NoInode /\ data' = data
          /\ data[tmp] = doc[p].raw /\ doc[p].raw \in recent
          /\ doc[p].source = "wazuh" /\ doc[p].raw \in Parseable
      BY <1>0, <2>6 DEF Replace, TmpOK, DocOK, Honest, Ruleset
    <3>2. FallbackNow' = Fallback(doc[p].raw)
      BY <3>1 DEF FallbackNow
    <3>3. Fallback(doc[p].raw).raw = AsRead(doc[p].raw)
      BY <3>1, ParseAssumption DEF Fallback, Parses
    <3> QED BY <1>0, <2>6, <3>1, <3>2, <3>3 DEF Replace
  <2>7. CASE CacheWriteFails(p)
    BY <1>0, <1>1, <2>7 DEF CacheWriteFails, DocOK, Shut
  <2>8. CASE ReadCache(p)
    BY <1>0, <1>1, <2>8, FallbackNowHonest DEF ReadCache
  <2>9. CASE HandleRaise(p)
    BY <1>0, <1>1, <2>9 DEF HandleRaise
  <2>10. CASE Install(p)
    <3>1. /\ pc[p] = "install" /\ pc' = [pc EXCEPT ![p] = "idle"]
          /\ active' = doc[p] /\ recent' = {doc[p].raw}
          /\ doc[p].raw \in Parseable
          /\ FallbackNow' = FallbackNow
          /\ ~unsaved' => ~unsaved \/ doc[p].source # "wazuh"
      BY <1>0, <1>1, <2>10 DEF Install, DocOK, Honest, Ruleset
    <3>2. ~unsaved' => FallbackNow.raw = AsRead(doc[p].raw)
      <4>1. CASE doc[p].source # "wazuh"
        BY <1>0, <3>1, <4>1, FallbackIsText
      <4>2. CASE doc[p].source = "wazuh" /\ ~unsaved
        BY <1>0, <3>1, <4>2, FallbackOfAccepted
      <4> QED BY <3>1, <4>1, <4>2
    <3> QED BY <1>0, <2>10, <3>1, <3>2
  <2> QED BY <1>4, <2>1, <2>2, <2>3, <2>4, <2>5, <2>6, <2>7, <2>8, <2>9, <2>10 DEF Load
<1>5. CASE Refresh(p) \/ cmd_patterns(p) \/ Kill(p)
  BY <1>0, <1>1, <1>5 DEF Refresh, cmd_patterns, Kill
<1> QED BY <1>0, <1>2, <1>3, <1>4, <1>5 DEF Next

LEMMA MemoryInvariance ==
  ASSUME Solo
  PROVE  Spec => []MemoryInv
<1>1. Init => MemoryInv
  BY InitInv, InitSolo, InitMemory DEF MemoryInv, SoloInv
<1>2. MemoryInv /\ [Next]_vars => MemoryInv'
  BY TypeStep, DocStep, CellStep, SoloStep, MemoryStep DEF MemoryInv, SoloInv, Inv
<1> QED BY <1>1, <1>2, PTL DEF Spec

\* Every ruleset the daemon comes to hold is one its load was about to return.
LEMMA ActiveChanges ==
  ASSUME Inv, [Next]_vars, active' \notin {active, NoRuleset}
  PROVE  pc[Daemon] = "install" /\ active' = doc[Daemon]
<1> USE LoadersAssumption DEF Goes, Goto, server
<1>1. CASE UNCHANGED vars
  BY <1>1 DEF vars
<1>2. CASE Publish \/ LinkChanges \/ Start \/ Serve
  BY <1>2 DEF Publish, LinkChanges, Start, Serve
<1>3. ASSUME NEW p \in Loaders, Load(p)
      PROVE  pc[Daemon] = "install" /\ active' = doc[Daemon]
  <2>1. Install(p)
    BY <1>3 DEF Load, Accept, Reject, OpenTmp, WriteBlock, CloseTmp, Replace,
                CacheWriteFails, ReadCache, HandleRaise
  <2> QED BY <2>1 DEF Install
<1>4. ASSUME NEW p \in Loaders, Refresh(p) \/ cmd_patterns(p) \/ Kill(p)
      PROVE  FALSE
  BY <1>4 DEF Refresh, cmd_patterns, Kill
<1> QED BY <1>1, <1>2, <1>3, <1>4 DEF Next

(***************************************************************************)
(* One loader: a daemon that falls back, after any number of crashes,       *)
(* enforces what it enforced or accepted last, unless that was not cached.  *)
(***************************************************************************)
THEOREM ForgetsNothing ==
  ASSUME Solo
  PROVE  Spec => NeverForgets
<1>1. ASSUME MemoryInv, [Next]_vars
      PROVE  [active' \notin {active, NoRuleset} /\ active'.source # "wazuh"
                => (\E c \in recent : active'.raw = AsRead(c)) \/ unsaved]_vars
  BY <1>1, ActiveChanges DEF MemoryInv, SoloInv, MemoryOK
<1> QED BY <1>1, MemoryInvariance, PTL DEF Spec, NeverForgets

(***************************************************************************)
(* One loader: while the daemon serves, a refresh that fails leaves it the  *)
(* rules it has, unless these were not cached.                              *)
(***************************************************************************)
THEOREM NothingRegresses ==
  ASSUME Solo
  PROVE  Spec => NoRegression
<1>1. ASSUME MemoryInv, [Next]_vars
      PROVE  [life = "serving" /\ active' \notin {active, NoRuleset}
                => \/ active'.source = "wazuh" \/ active'.raw = AsRead(active.raw)
                   \/ unsaved]_vars
  <2> SUFFICES ASSUME life = "serving", active' \notin {active, NoRuleset},
                      active'.source # "wazuh", ~unsaved
               PROVE  active'.raw = AsRead(active.raw)
    OBVIOUS
  <2>1. pc[Daemon] = "install" /\ active' = doc[Daemon] /\ active # NoRuleset
    BY <1>1, ActiveChanges DEF MemoryInv, SoloInv, Inv, ActiveOK
  <2>2. recent = {active.raw} /\ doc[Daemon] = FallbackNow
    BY <1>1, <2>1 DEF MemoryInv, MemoryOK
  <2> QED BY <1>1, <2>1, <2>2 DEF MemoryInv, MemoryOK
<1> QED BY <1>1, MemoryInvariance, PTL DEF Spec, NoRegression
=============================================================================
