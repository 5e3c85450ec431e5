--------------------------- MODULE ToolHooksProofs ---------------------------
(***************************************************************************)
(* Theorems about ToolHooks and its alerts, for any secrets, any number of  *)
(* fields, and hooks that fail or are killed at any step.                   *)
(***************************************************************************)
EXTENDS ToolAlerts, TLAPS

\* A call has no other arguments than its tool's, and what comes back is a
\* bare string or an object with the tool's fields.
CallOK ==
  /\ call.tool \in DOMAIN Fields
  /\ call.tool # "Bash" =>
       call.tool \in DOMAIN Arguments /\ DOMAIN call.input \subseteq Arguments[call.tool]
Shape(r) ==
  /\ \/ DOMAIN r = {"whole"}
     \/ DOMAIN r \subseteq ToSet(Walked) \cup {"elsewhere"}
  /\ r = [p \in DOMAIN r |-> r[p]]
  /\ \A p \in DOMAIN r : r[p] \subseteq Secrets \cup Harmless

\* The places the walk has been to before step n, and what it has made of the
\* response when it has been to the places of S.
Seen(r, n) == {Order(r)[i] : i \in 1 .. n - 1}
CleanedAt(r, S) ==
  [p \in DOMAIN r |-> IF p \in S /\ r[p] \cap Secrets # {} THEN redact_text(r[p]) ELSE r[p]]
HitsAt(r, S) ==
  {h \in (DOMAIN r) \X Secrets : h[1] \in S /\ h[2] \in r[h[1]]}
AllHits(r) == HitsAt(r, DOMAIN r \ {"elsewhere"})

Early == {"evaluate", "log_denial", "deny", "run"}

WalkOK ==
  /\ pc \in Early => response = <<>>
  /\ pc \in Early \cup {"receive"} => out = <<>> /\ hits = {} /\ step = 0
  /\ pc = "walk" =>
       /\ step \in 1 .. Len(Order(response)) + 1
       /\ out = CleanedAt(response, Seen(response, step))
       /\ hits = HitsAt(response, Seen(response, step))
  /\ pc \in {"log", "answer"} =>
       out = Cleaned(response) /\ hits = AllHits(response) /\ hits # {}

\* A call is denied only if evaluate says so, and goes on otherwise only if
\* PreToolUse failed.
PreOK ==
  /\ pc \in {"log_denial", "deny"} => evaluate
  /\ pc \notin {"evaluate", "log_denial", "deny", "done"} /\ call.tool \in ContentTools =>
       "PreToolUse" \in failed \/ ~evaluate
  /\ pc \notin Early \cup {"receive", "done"} => call.tool \in PostMatcher

\* What is on record is what is being done, and it comes first.
Denial == [action |-> "read_denied"]
Redaction(h) == [action |-> "output_redacted", hits |-> h]
Error == [action |-> "error"]
EventsOK ==
  /\ pc # "done" => context = NoContext
  /\ pc = "deny" /\ writable => Denial \in events
  /\ pc = "answer" /\ writable => Redaction(hits) \in events
  /\ "killed" \notin failed =>
       /\ pc \notin {"deny", "answer", "done"} => events = {}
       /\ pc = "deny" => events \subseteq {Denial}
       /\ pc = "answer" => events \subseteq {Redaction(hits)}

\* How it ends.
Denied ==
  /\ context = NoContext /\ evaluate
  /\ writable => Denial \in events
  /\ "killed" \notin failed => events \subseteq {Denial}
Unhooked ==
  /\ call.tool \notin PostMatcher
  /\ context = response
  /\ "killed" \notin failed => events = {}
CleanedUp ==
  /\ context = Cleaned(response)
  /\ writable /\ AllHits(response) # {} => Redaction(AllHits(response)) \in events
  /\ "killed" \notin failed => events \subseteq {Redaction(AllHits(response))}
Failed ==
  /\ context = response
  /\ \/ "unscanned" \in messages
     \/ "unredacted" \in messages /\ (writable => Error \in events)
     \/ {"PostToolUse", "killed"} \subseteq failed
  /\ "killed" \notin failed => events \subseteq {Error}
Ends ==
  \/ Denied
  \/ /\ call.tool \in ContentTools => "PreToolUse" \in failed \/ ~evaluate
     /\ Unhooked \/ CleanedUp \/ Failed

Inv ==
  /\ TypeOK /\ CallOK /\ Shape(response)
  /\ WalkOK /\ PreOK /\ EventsOK
  /\ pc = "done" => Ends

----------------------------------------------------------------------------
(* The walk *)

LEMMA WalkedPlaces ==
  /\ Len(Walked) = 7
  /\ \A i \in 1..7 : Walked[i] \notin {"whole", "elsewhere"}
  /\ \A i, j \in 1..7 : Walked[i] = Walked[j] => i = j
  /\ ToSet(Walked) = {Walked[i] : i \in 1..7}
BY DEF Walked, ToSet

LEMMA OrderLength ==
  ASSUME NEW r
  PROVE  Len(Order(r)) \in 1..7
BY WalkedPlaces DEF Order

LEMMA OrderPlaces ==
  ASSUME NEW r, NEW i \in 1..Len(Order(r)), NEW j \in 1..Len(Order(r))
  PROVE  /\ Order(r)[i] # "elsewhere"
         /\ Order(r)[i] = Order(r)[j] => i = j
<1>1. CASE DOMAIN r = {"whole"}
  <2>1. Order(r) = <<"whole">>
    BY <1>1 DEF Order
  <2> QED BY <2>1
<1>2. CASE DOMAIN r # {"whole"}
  <2>1. Order(r) = Walked
    BY <1>2 DEF Order
  <2> QED BY <2>1, WalkedPlaces
<1> QED BY <1>1, <1>2

LEMMA SeenFirst ==
  ASSUME NEW r
  PROVE  Seen(r, 1) = {}
BY DEF Seen

LEMMA SeenNext ==
  ASSUME NEW r, NEW n \in 1..Len(Order(r))
  PROVE  /\ Seen(r, n + 1) = Seen(r, n) \cup {Order(r)[n]}
         /\ Order(r)[n] \notin Seen(r, n)
<1>1. Len(Order(r)) \in Nat
  BY OrderLength
<1>2. \A i \in 1 .. n - 1 : i \in 1..Len(Order(r)) /\ i # n
  BY <1>1
<1>3. Order(r)[n] \notin Seen(r, n)
  BY <1>2, OrderPlaces DEF Seen
<1>4. 1 .. (n + 1) - 1 = (1 .. n - 1) \cup {n}
  BY <1>1
<1> QED BY <1>3, <1>4 DEF Seen

\* In the end it has been to every place it knows, and to no other.
LEMMA SeenAll ==
  ASSUME NEW r, Shape(r), NEW n \in 1 .. Len(Order(r)) + 1, n > Len(Order(r))
  PROVE  \A p \in DOMAIN r : p \in Seen(r, n) <=> p # "elsewhere"
<1>1. Len(Order(r)) \in 1..7 /\ n - 1 = Len(Order(r))
  BY OrderLength
<1>2. Seen(r, n) = {Order(r)[i] : i \in 1..Len(Order(r))}
  BY <1>1 DEF Seen
<1>3. "elsewhere" \notin Seen(r, n)
  BY <1>2, OrderPlaces
<1>4. CASE DOMAIN r = {"whole"}
  <2>1. Order(r) = <<"whole">>
    BY <1>4 DEF Order
  <2> QED BY <1>2, <1>3, <1>4, <2>1
<1>5. CASE DOMAIN r # {"whole"}
  <2>1. Order(r) = Walked /\ DOMAIN r \subseteq ToSet(Walked) \cup {"elsewhere"}
    BY <1>5 DEF Order, Shape
  <2> QED BY <1>2, <1>3, <2>1, WalkedPlaces
<1> QED BY <1>4, <1>5

LEMMA CleanedInTheEnd ==
  ASSUME NEW r, NEW S, \A p \in DOMAIN r : p \in S <=> p # "elsewhere"
  PROVE  CleanedAt(r, S) = Cleaned(r) /\ HitsAt(r, S) = AllHits(r)
BY DEF CleanedAt, Cleaned, HitsAt, AllHits, redact_text

LEMMA CleanedWithoutHits ==
  ASSUME NEW r, Shape(r), AllHits(r) = {}
  PROVE  Cleaned(r) = r
<1>1. ASSUME NEW p \in DOMAIN r, p # "elsewhere" PROVE r[p] \cap Secrets = {}
  <2>1. ASSUME NEW s \in r[p] \cap Secrets PROVE FALSE
    <3>1. <<p, s>> \in AllHits(r)
      BY <1>1, <2>1 DEF AllHits, HitsAt
    <3> QED BY <3>1
  <2> QED BY <2>1
<1> QED BY <1>1 DEF Cleaned, Shape

\* What is shown is never taken for what is withheld.
LEMMA Shown ==
  ASSUME NEW r, Shape(r)
  PROVE  r # NoContext /\ Cleaned(r) # NoContext
<1>1. DOMAIN r \in SUBSET (ToSet(Walked) \cup {"whole", "elsewhere"})
  BY DEF Shape
<1>2. r \in [DOMAIN r -> SUBSET (Secrets \cup Harmless \cup {Marker})]
  BY DEF Shape
<1>3. Cleaned(r) \in [DOMAIN r -> SUBSET (Secrets \cup Harmless \cup {Marker})]
  BY DEF Shape, Cleaned
<1> QED BY <1>1, <1>2, <1>3, ContextAssumption

----------------------------------------------------------------------------
(* The steps *)

LEMMA FieldPlaces ==
  \A tool \in DOMAIN Fields : Fields[tool] \subseteq ToSet(Walked)
<1>1. ToSet(Walked) =
        {"file.content", "stdout", "stderr", "content", "output", "text", "result"}
  BY DEF Walked, ToSet
<1> QED BY <1>1 DEF Fields

LEMMA ResponseShape ==
  ASSUME NEW tool \in DOMAIN Fields, NEW r \in Responses(tool)
  PROVE  /\ Shape(r)
         /\ DOMAIN r \subseteq Fields[tool] \cup {"whole", "elsewhere"}
         /\ \A p \in DOMAIN r : r[p] \subseteq Secrets \cup Harmless
<1>1. CASE r \in [{"whole"} -> Texts]
  BY <1>1 DEF Shape, Texts
<1>2. CASE r \notin [{"whole"} -> Texts]
  <2>1. PICK places \in SUBSET (Fields[tool] \cup {"elsewhere"}) : r \in [places -> Texts]
    BY <1>2 DEF Responses
  <2> QED BY <2>1, FieldPlaces DEF Shape, Texts
<1> QED BY <1>1, <1>2

LEMMA EmptyShape == Shape(<<>>)
BY DEF Shape

LEMMA InvStart == Init => Inv
<1> SUFFICES ASSUME Init PROVE Inv
  OBVIOUS
<1>1. CallOK
  <2>1. CASE call \in Commands
    BY <2>1 DEF Commands, CallOK, Fields
  <2>2. CASE call \in PathCalls
    <3>1. PICK tool \in DOMAIN Arguments :
            \E keys \in SUBSET Arguments[tool] : \E i \in [keys -> Paths] :
              call = [tool |-> tool, input |-> i]
      BY <2>2 DEF PathCalls
    <3>2. call.tool = tool /\ DOMAIN call.input \subseteq Arguments[tool]
      BY <3>1
    <3> QED BY <3>2 DEF CallOK, Arguments, Fields
  <2> QED BY <2>1, <2>2 DEF Init
<1>2. TypeOK
  BY <1>1, WalkedPlaces DEF Init, TypeOK, CallOK
<1> QED BY <1>1, <1>2, EmptyShape DEF Init, Inv, WalkOK, PreOK, EventsOK, Early

\* PreToolUse, whatever it does but being killed.
LEMMA PreStep ==
  ASSUME Inv, Evaluate \/ EvaluateFails \/ NoPreHook \/ LogDenial \/ Deny
  PROVE  Inv'
<1> USE DEF Goes, Logs, Fails, Tells, walk, told
<1>1. UNCHANGED <<call, response, out, hits, step, writable, context>> /\ evaluate' = evaluate
  BY DEF Evaluate, EvaluateFails, NoPreHook, LogDenial, Deny, evaluate
<1>2. TypeOK'
  <2>1. \A e \in events' : e.action \in {"read_denied", "output_redacted", "error"}
    BY <1>1 DEF Inv, TypeOK, Evaluate, EvaluateFails, NoPreHook, LogDenial, Deny
  <2>2. pc' \in {"log_denial", "run", "deny", "done"}
    BY DEF Evaluate, EvaluateFails, NoPreHook, LogDenial, Deny
  <2>3. /\ messages' \subseteq {"unchecked", "denied", "unscanned", "redacted", "unredacted"}
        /\ failed' \subseteq {"PreToolUse", "PostToolUse", "killed"}
    BY DEF Inv, TypeOK, Evaluate, EvaluateFails, NoPreHook, LogDenial, Deny
  <2> QED BY <1>1, <2>1, <2>2, <2>3 DEF Inv, TypeOK
<1>3. CallOK' /\ Shape(response)'
  BY <1>1 DEF Inv, CallOK
<1>4. WalkOK'
  BY <1>1 DEF Inv, WalkOK, Early, Evaluate, EvaluateFails, NoPreHook, LogDenial, Deny
<1>5. PreOK' /\ EventsOK'
  <2>1. CASE Evaluate
    BY <1>1, <2>1 DEF Inv, PreOK, EventsOK, Early, Evaluate
  <2>2. CASE EvaluateFails
    BY <1>1, <2>2 DEF Inv, PreOK, EventsOK, Early, EvaluateFails
  <2>3. CASE NoPreHook
    BY <1>1, <2>3 DEF Inv, PreOK, EventsOK, Early, NoPreHook, PreMatcher, ContentTools
  <2>4. CASE LogDenial
    BY <1>1, <2>4 DEF Inv, PreOK, EventsOK, Early, LogDenial, Denial
  <2>5. CASE Deny
    BY <1>1, <2>5 DEF Inv, PreOK, EventsOK, Early, Deny
  <2> QED BY <2>1, <2>2, <2>3, <2>4, <2>5
<1>6. pc' = "done" => Ends'
  <2>1. SUFFICES ASSUME Deny PROVE Denied'
    BY DEF Evaluate, EvaluateFails, NoPreHook, LogDenial, Ends
  <2> QED BY <1>1, <2>1 DEF Inv, PreOK, EventsOK, Denied, Deny
<1> QED BY <1>2, <1>3, <1>4, <1>5, <1>6 DEF Inv

LEMMA RunStep ==
  ASSUME Inv, RunTool
  PROVE  Inv'
<1> USE DEF Goes, walk, told
<1>1. /\ pc = "run" /\ pc' = "receive" /\ response' \in Responses(call.tool)
      /\ UNCHANGED <<call, out, hits, step, writable, context, events, messages, failed>>
      /\ evaluate' = evaluate
  BY DEF RunTool, evaluate
<1>2. out = <<>> /\ hits = {} /\ step = 0 /\ context = NoContext
  BY <1>1 DEF Inv, WalkOK, EventsOK, Early
<1>3. TypeOK' /\ Shape(response)'
  BY <1>1, <1>2, ResponseShape DEF Inv, TypeOK
<1>4. CallOK' /\ WalkOK' /\ PreOK' /\ EventsOK'
  BY <1>1, <1>2 DEF Inv, CallOK, WalkOK, PreOK, EventsOK, Early
<1> QED BY <1>1, <1>3, <1>4 DEF Inv

\* PostToolUse takes the response, or leaves it.
LEMMA ReceiveStep ==
  ASSUME Inv, CannotRead \/ NoPostHook \/ Receive
  PROVE  Inv'
<1> USE DEF Goes, Fails, Tells, walk, told
<1>1. /\ pc = "receive" /\ UNCHANGED <<call, response, hits, writable, events>>
      /\ evaluate' = evaluate /\ context = NoContext /\ hits = {}
      /\ call.tool \in ContentTools => "PreToolUse" \in failed \/ ~evaluate
  BY DEF Inv, WalkOK, PreOK, EventsOK, Early, CannotRead, NoPostHook, Receive, evaluate
<1>2. CASE CannotRead
  <2>1. /\ pc' = "done" /\ context' = response /\ UNCHANGED <<out, step>>
        /\ failed' = failed \cup {"PostToolUse"} /\ messages' = messages \cup {"unscanned"}
    BY <1>2 DEF CannotRead
  <2>2. TypeOK' /\ CallOK' /\ Shape(response)'
    BY <1>1, <2>1 DEF Inv, TypeOK, CallOK
  <2>3. WalkOK' /\ PreOK' /\ EventsOK'
    BY <1>1, <2>1 DEF Inv, WalkOK, PreOK, EventsOK, Early
  <2>4. Ends'
    BY <1>1, <2>1 DEF Inv, EventsOK, Ends, Failed
  <2> QED BY <2>2, <2>3, <2>4 DEF Inv
<1>3. CASE NoPostHook
  <2>1. /\ pc' = "done" /\ context' = response /\ UNCHANGED <<out, step, failed, messages>>
        /\ call.tool \notin PostMatcher
    BY <1>3 DEF NoPostHook
  <2>2. TypeOK' /\ CallOK' /\ Shape(response)'
    BY <1>1, <2>1 DEF Inv, TypeOK, CallOK
  <2>3. WalkOK' /\ PreOK' /\ EventsOK'
    BY <1>1, <2>1 DEF Inv, WalkOK, PreOK, EventsOK, Early
  <2>4. Ends'
    BY <1>1, <2>1 DEF Inv, EventsOK, Ends, Unhooked
  <2> QED BY <2>2, <2>3, <2>4 DEF Inv
<1>4. CASE Receive
  <2>1. /\ pc' = "walk" /\ step' = 1 /\ out' = response
        /\ UNCHANGED <<failed, messages, context>> /\ call.tool \in PostMatcher
    BY <1>4 DEF Receive
  <2>2. CleanedAt(response, {}) = response /\ HitsAt(response, {}) = {}
    BY DEF Inv, Shape, CleanedAt, HitsAt
  <2>3. TypeOK' /\ CallOK' /\ Shape(response)'
    BY <1>1, <2>1, WalkedPlaces DEF Inv, TypeOK, CallOK, Values
  <2>4. WalkOK'
    <3>1. Seen(response, 1) = {} /\ 1 \in 1 .. Len(Order(response)) + 1
      BY OrderLength, SeenFirst
    <3>2. /\ step' \in 1 .. Len(Order(response')) + 1
          /\ out' = CleanedAt(response', Seen(response', step'))
          /\ hits' = HitsAt(response', Seen(response', step'))
      BY <1>1, <2>1, <2>2, <3>1
    <3> QED BY <2>1, <3>2 DEF WalkOK, Early
  <2>5. PreOK' /\ EventsOK'
    BY <1>1, <2>1 DEF Inv, PreOK, EventsOK, Early
  <2> QED BY <2>1, <2>3, <2>4, <2>5 DEF Inv
<1> QED BY <1>2, <1>3, <1>4

\* One place of the walk.
LEMMA RedactStep ==
  ASSUME Inv, RedactField
  PROVE  Inv'
<1> DEFINE place == Order(response)[step]
           S == Seen(response, step)
           texts == IF place \in DOMAIN out THEN HitsIn(out[place]) ELSE {}
<1>1. /\ pc = "walk" /\ step \in 1 .. Len(Order(response)) /\ step' = step + 1
      /\ IF texts = {} THEN UNCHANGED <<out, hits>>
         ELSE /\ out' = [out EXCEPT ![place] = redact_text(@)]
              /\ hits' = hits \cup {<<place, s>> : s \in texts}
      /\ UNCHANGED <<call, response, pc, writable, events, messages, failed, context>>
  BY OrderLength DEF Inv, WalkOK, RedactField, told
<1>2. out = CleanedAt(response, S) /\ hits = HitsAt(response, S)
  BY <1>1 DEF Inv, WalkOK
<1>3. place \notin S /\ Seen(response, step + 1) = S \cup {place} /\ place # "elsewhere"
  BY <1>1, SeenNext, OrderPlaces
<1>4. DOMAIN out = DOMAIN response
      /\ (place \in DOMAIN response => out[place] = response[place])
      /\ texts = IF place \in DOMAIN response THEN response[place] \cap Secrets ELSE {}
  BY <1>2, <1>3 DEF CleanedAt, HitsIn
<1> HIDE DEF place, texts, S
<1>5. out' = CleanedAt(response, S \cup {place})
  <2>1. CASE texts = {}
    BY <1>1, <1>2, <1>4, <2>1 DEF CleanedAt
  <2>2. CASE texts # {}
    BY <1>1, <1>2, <1>3, <1>4, <2>2 DEF CleanedAt
  <2> QED BY <2>1, <2>2
<1>6. hits' = HitsAt(response, S \cup {place})
  <2>1. CASE texts = {}
    BY <1>1, <1>2, <1>4, <2>1 DEF HitsAt
  <2>2. CASE texts # {}
    <3>1. {<<place, s>> : s \in texts} =
            {h \in (DOMAIN response) \X Secrets : h[1] = place /\ h[2] \in response[h[1]]}
      BY <1>4, <2>2
    <3> QED BY <1>1, <1>2, <2>2, <3>1 DEF HitsAt
  <2> QED BY <2>1, <2>2
<1>7. WalkOK'
  <2>1. step' \in 1 .. Len(Order(response)) + 1 /\ S \cup {place} = Seen(response, step')
    BY <1>1, <1>3, OrderLength
  <2> QED BY <1>1, <1>5, <1>6, <2>1 DEF WalkOK, Early
<1>8. TypeOK'
  <2>1. DOMAIN out' = DOMAIN response /\ hits' \subseteq (DOMAIN response) \X Secrets
    BY <1>5, <1>6 DEF CleanedAt, HitsAt
  <2>2. \A p \in DOMAIN out' : out'[p] \subseteq Values
    BY <1>5 DEF Inv, Shape, CleanedAt, redact_text, Values
  <2>3. step' \in 0 .. Len(Walked) + 1
    <3>1. Len(Order(response)) \in 1..7 /\ Len(Walked) + 1 = 8
      BY OrderLength, WalkedPlaces
    <3>2. \A n \in 1..7 : \A i \in 1..n : i \in 1..7
      OBVIOUS
    <3>3. step \in 1..7 /\ step' = step + 1
      BY <1>1, <3>1, <3>2
    <3>4. step' \in 0..8
      BY <3>3
    <3> QED BY <3>1, <3>4
  <2> QED BY <1>1, <2>1, <2>2, <2>3 DEF Inv, TypeOK
<1>9. CallOK' /\ Shape(response)' /\ PreOK' /\ EventsOK'
  BY <1>1 DEF Inv, CallOK, PreOK, EventsOK, evaluate
<1> QED BY <1>1, <1>7, <1>8, <1>9 DEF Inv

\* The walk is over: without findings the response goes through as it is.
LEMMA EndStep ==
  ASSUME Inv, EndOfWalk
  PROVE  Inv'
<1>1. /\ pc = "walk" /\ step > Len(Order(response))
      /\ step \in 1 .. Len(Order(response)) + 1
      /\ out = CleanedAt(response, Seen(response, step))
      /\ hits = HitsAt(response, Seen(response, step))
      /\ IF hits = {} THEN pc' = "done" /\ context' = response
                      ELSE pc' = "log" /\ UNCHANGED context
      /\ UNCHANGED <<call, response, step, out, hits, writable, events, messages, failed>>
      /\ evaluate' = evaluate
  BY DEF Inv, WalkOK, EndOfWalk, walk, told, evaluate
<1>2. out = Cleaned(response) /\ hits = AllHits(response)
  BY <1>1, SeenAll, CleanedInTheEnd DEF Inv
<1>3. TypeOK' /\ CallOK' /\ Shape(response)'
  BY <1>1 DEF Inv, TypeOK, CallOK
<1>4. WalkOK'
  BY <1>1, <1>2 DEF WalkOK, Early
<1>5. PreOK' /\ EventsOK'
  BY <1>1 DEF Inv, PreOK, EventsOK, Early
<1>6. pc' = "done" => Ends'
  <2> SUFFICES ASSUME pc' = "done" PROVE Ends'
    OBVIOUS
  <2>1. hits = {} /\ context' = response
    BY <1>1
  <2>2. context' = Cleaned(response) /\ AllHits(response) = {}
    BY <1>2, <2>1, CleanedWithoutHits DEF Inv
  <2>3. "killed" \notin failed => events = {}
    BY <1>1 DEF Inv, EventsOK
  <2>4. CleanedUp'
    BY <1>1, <2>2, <2>3 DEF CleanedUp
  <2> QED BY <1>1, <2>4 DEF Inv, PreOK, Early, Ends
<1> QED BY <1>3, <1>4, <1>5, <1>6 DEF Inv

LEMMA AnswerStep ==
  ASSUME Inv, LogRedaction \/ Answer
  PROVE  Inv'
<1> USE DEF Goes, Logs, Tells, walk, told
<1>1. /\ UNCHANGED <<call, response, out, hits, step, writable, failed>>
      /\ evaluate' = evaluate
      /\ out = Cleaned(response) /\ hits = AllHits(response) /\ hits # {}
      /\ "killed" \notin failed => (pc = "log" /\ events = {}) \/ events \subseteq {Redaction(hits)}
  BY DEF Inv, WalkOK, EventsOK, LogRedaction, Answer, evaluate
<1>2. CASE LogRedaction
  <2>1. /\ pc = "log" /\ pc' = "answer" /\ UNCHANGED <<context, messages>>
        /\ events' = IF writable THEN events \cup {Redaction(hits)} ELSE events
    BY <1>2 DEF LogRedaction, Redaction
  <2>2. Redaction(hits).action = "output_redacted"
    BY DEF Redaction
  <2>3. TypeOK' /\ CallOK' /\ Shape(response)'
    BY <1>1, <2>1, <2>2 DEF Inv, TypeOK, CallOK
  <2>4. WalkOK' /\ PreOK'
    BY <1>1, <2>1 DEF Inv, WalkOK, PreOK, Early
  <2>5. EventsOK'
    BY <1>1, <2>1 DEF Inv, EventsOK
  <2> QED BY <2>1, <2>3, <2>4, <2>5 DEF Inv
<1>3. CASE Answer
  <2>1. /\ pc = "answer" /\ pc' = "done" /\ context' = out /\ UNCHANGED events
        /\ messages' = messages \cup {"redacted"}
    BY <1>3 DEF Answer
  <2>2. DOMAIN Cleaned(response) = DOMAIN response
    BY DEF Cleaned
  <2>3. TypeOK' /\ CallOK' /\ Shape(response)'
    BY <1>1, <2>1, <2>2 DEF Inv, TypeOK, CallOK
  <2>4. WalkOK' /\ PreOK' /\ EventsOK'
    BY <1>1, <2>1 DEF Inv, WalkOK, PreOK, EventsOK, Early
  <2>5. CleanedUp'
    BY <1>1, <2>1 DEF Inv, EventsOK, CleanedUp
  <2> QED BY <1>1, <2>1, <2>3, <2>4, <2>5 DEF Inv, PreOK, Early, Ends
<1> QED BY <1>2, <1>3

LEMMA FailStep ==
  ASSUME Inv, WalkFails \/ LogError
  PROVE  Inv'
<1> USE DEF Goes, Logs, Fails, Tells, walk, told
<1>1. /\ UNCHANGED <<call, response, out, hits, step, writable>> /\ evaluate' = evaluate
      /\ "killed" \notin failed => events = {}
  BY DEF Inv, EventsOK, WalkFails, LogError, evaluate
<1>2. CASE WalkFails
  <2>1. /\ pc = "walk" /\ pc' = "log_error" /\ UNCHANGED <<events, messages, context>>
        /\ failed' = failed \cup {"PostToolUse"}
    BY <1>2 DEF WalkFails
  <2>2. TypeOK' /\ CallOK' /\ Shape(response)'
    BY <1>1, <2>1 DEF Inv, TypeOK, CallOK
  <2>3. WalkOK' /\ PreOK' /\ EventsOK'
    BY <1>1, <2>1 DEF Inv, WalkOK, PreOK, EventsOK, Early
  <2> QED BY <2>1, <2>2, <2>3 DEF Inv
<1>3. CASE LogError
  <2>1. /\ pc = "log_error" /\ pc' = "done" /\ context' = response /\ UNCHANGED failed
        /\ events' = IF writable THEN events \cup {Error} ELSE events
        /\ messages' = messages \cup {"unredacted"}
    BY <1>3 DEF LogError, Error
  <2>2. Error.action = "error"
    BY DEF Error
  <2>3. TypeOK' /\ CallOK' /\ Shape(response)'
    BY <1>1, <2>1, <2>2 DEF Inv, TypeOK, CallOK
  <2>4. WalkOK' /\ PreOK' /\ EventsOK'
    BY <1>1, <2>1 DEF Inv, WalkOK, PreOK, EventsOK, Early
  <2>5. Failed'
    BY <1>1, <2>1 DEF Inv, EventsOK, Failed
  <2> QED BY <1>1, <2>1, <2>3, <2>4, <2>5 DEF Inv, PreOK, Early, Ends
<1> QED BY <1>2, <1>3

\* Either hook is killed, and Claude Code goes on.
LEMMA KillStep ==
  ASSUME Inv, PreKilled \/ PostKilled
  PROVE  Inv'
<1> USE DEF walk, told
<1>1. /\ UNCHANGED <<call, response, out, hits, step, writable, events, messages>>
      /\ evaluate' = evaluate
  BY DEF PreKilled, PostKilled, evaluate
<1>2. CASE PreKilled
  <2>1. /\ pc \in {"evaluate", "log_denial", "deny"} /\ pc' = "run" /\ UNCHANGED context
        /\ failed' = failed \cup {"PreToolUse", "killed"}
    BY <1>2 DEF PreKilled
  <2>2. TypeOK' /\ CallOK' /\ Shape(response)'
    BY <1>1, <2>1 DEF Inv, TypeOK, CallOK
  <2>3. WalkOK' /\ PreOK' /\ EventsOK'
    BY <1>1, <2>1 DEF Inv, WalkOK, PreOK, EventsOK, Early
  <2> QED BY <2>1, <2>2, <2>3 DEF Inv
<1>3. CASE PostKilled
  <2>1. /\ pc \in {"receive", "walk", "log", "answer", "log_error"} /\ pc' = "done"
        /\ context' = response /\ failed' = failed \cup {"PostToolUse", "killed"}
    BY <1>3 DEF PostKilled
  <2>2. TypeOK' /\ CallOK' /\ Shape(response)'
    BY <1>1, <2>1 DEF Inv, TypeOK, CallOK
  <2>3. WalkOK' /\ PreOK' /\ EventsOK'
    BY <1>1, <2>1 DEF Inv, WalkOK, PreOK, EventsOK, Early
  <2>4. Failed'
    BY <1>1, <2>1 DEF Failed
  <2> QED BY <1>1, <2>1, <2>2, <2>3, <2>4 DEF Inv, PreOK, Early, Ends
<1> QED BY <1>2, <1>3

LEMMA StutterStep ==
  ASSUME Inv, UNCHANGED vars
  PROVE  Inv'
<1>1. /\ UNCHANGED <<call, response, pc, step, out, hits, writable, events, messages>>
      /\ UNCHANGED <<failed, context>> /\ evaluate' = evaluate
  BY DEF vars, walk, told, evaluate
<1>2. TypeOK' /\ CallOK' /\ Shape(response)' /\ WalkOK'
  BY <1>1 DEF Inv, TypeOK, CallOK, WalkOK
<1>3. PreOK' /\ EventsOK' /\ (pc' = "done" => Ends')
  BY <1>1 DEF Inv, PreOK, EventsOK, Ends, Denied, Unhooked, CleanedUp, Failed
<1> QED BY <1>2, <1>3 DEF Inv

LEMMA InvStep == Inv /\ [Next]_vars => Inv'
BY PreStep, RunStep, ReceiveStep, RedactStep, EndStep, AnswerStep, FailStep, KillStep, StutterStep
   DEF Next

LEMMA Invariance == Spec => []Inv
BY InvStart, InvStep, PTL DEF Spec

----------------------------------------------------------------------------
LEMMA RemovedWhenCleaned ==
  ASSUME Inv, context = Cleaned(response)
  PROVE  Removed = AllHits(response)
BY ValuesAssumption DEF Removed, Cleaned, AllHits, HitsAt

LEMMA RemovedWhenShown ==
  ASSUME context = response
  PROVE  Removed = {}
BY DEF Removed

(***************************************************************************)
(* Type correctness of ToolHooks.                                           *)
(***************************************************************************)
THEOREM TypeCorrect == Spec => []TypeOK
<1>1. Inv => TypeOK
  BY DEF Inv
<1> QED BY <1>1, Invariance, PTL

(***************************************************************************)
(* The model sees a cleaned response or the tool's own, never half of each, *)
(* and if secrets are left in it the user knows, or the hook was killed.    *)
(***************************************************************************)
THEOREM NeverHalfRedacted == Spec => []CleanedOrAnnounced
<1>1. Inv => CleanedOrAnnounced
  <2> SUFFICES ASSUME Inv, context # NoContext, call.tool \in PostMatcher
               PROVE  \/ context = Cleaned(response)
                      \/ /\ context = response
                         /\ \/ messages \cap {"unscanned", "unredacted"} # {}
                            \/ {"PostToolUse", "killed"} \subseteq failed
    BY DEF CleanedOrAnnounced
  <2>1. Ends
    BY DEF Inv, EventsOK
  <2> QED BY <2>1 DEF Ends, Denied, Unhooked, CleanedUp, Failed
<1> QED BY <1>1, Invariance, PTL

(***************************************************************************)
(* What a call that names a protected place returns is never seen, unless   *)
(* PreToolUse failed, and a call for examples only is never denied.         *)
(***************************************************************************)
THEOREM ProtectedIsDenied == Spec => []ProtectedStaysOut
<1>1. Inv => ProtectedStaysOut
  <2> SUFFICES ASSUME Inv, pc = "done" PROVE ProtectedStaysOut
    BY DEF ProtectedStaysOut
  <2>1. Ends
    BY DEF Inv
  <2>2. context = NoContext => evaluate
    BY <2>1, Shown DEF Inv, Ends, Denied, Unhooked, CleanedUp, Failed
  <2>3. context # NoContext /\ call.tool \in ContentTools => "PreToolUse" \in failed \/ ~evaluate
    BY <2>1 DEF Ends, Denied
  <2>4. ASSUME call.tool \in ContentTools, call.tool # "Bash", NEW k \in DOMAIN call.input
        PROVE  k \in Keys(call.tool)
    BY <2>4 DEF Inv, CallOK, Arguments, ContentTools, Keys, KeysForReads
  <2>5. ASSUME evaluate, call.tool # "Bash"
        PROVE  \E k \in DOMAIN call.input : call.input[k].name # "example"
    BY <2>5 DEF evaluate, is_protected_path
  <2>6. ASSUME ~evaluate, call.tool \in ContentTools
        PROVE  IF call.tool = "Bash" THEN ~call.suspect
               ELSE \A k \in DOMAIN call.input : ~NamesProtected(call.input[k])
    BY <2>4, <2>6 DEF evaluate, is_protected_path, NamesProtected
  <2> QED BY <2>2, <2>3, <2>5, <2>6 DEF ProtectedStaysOut
<1> QED BY <1>1, Invariance, PTL

(***************************************************************************)
(* A denial or a redaction is on record before it takes effect, with        *)
(* exactly what it takes out, and takes effect unless the hook is killed.   *)
(***************************************************************************)
THEOREM RecordIsKept == Spec => []InterventionsAreOnRecord
<1>1. Inv => InterventionsAreOnRecord
  <2> SUFFICES ASSUME Inv, pc = "done", writable
               PROVE  InterventionsAreOnRecord
    BY DEF InterventionsAreOnRecord
  <2> USE DEF Denial, Redaction, Error
  <2>1. Ends
    BY DEF Inv
  <2>2. CASE Denied
    BY <2>2 DEF Denied, InterventionsAreOnRecord
  <2>3. CASE Unhooked \/ Failed
    <3>1. context = response /\ Removed = {} /\ context # NoContext
      BY <2>3, RemovedWhenShown, Shown DEF Inv, Unhooked, Failed
    <3>2. "killed" \notin failed => events \subseteq {Error}
      BY <2>3 DEF Unhooked, Failed
    <3> QED BY <3>1, <3>2 DEF InterventionsAreOnRecord
  <2>4. CASE CleanedUp
    <3>1. Removed = AllHits(response) /\ context # NoContext
      BY <2>4, RemovedWhenCleaned, Shown DEF Inv, CleanedUp
    <3>2. Removed # {} => Redaction(Removed) \in events
      BY <2>4, <3>1 DEF CleanedUp
    <3>3. "killed" \notin failed => events \subseteq {Redaction(Removed)}
      BY <2>4, <3>1 DEF CleanedUp
    <3> QED BY <3>1, <3>2, <3>3 DEF InterventionsAreOnRecord
  <2> QED BY <2>1, <2>2, <2>3, <2>4 DEF Ends
<1> QED BY <1>1, Invariance, PTL

(***************************************************************************)
(* A secret that a tool returned where the walk looks is reported at 10 or  *)
(* above, redacted or not, whatever has been published.                     *)
(***************************************************************************)
THEOREM SecretsReachTheManager == Spec => []SecretsAreReported
<1>1. Inv => SecretsAreReported
  <2> SUFFICES ASSUME Inv, pc = "done", writable, context # NoContext,
                      call.tool \in PostMatcher, SecretReturned,
                      "unscanned" \notin messages,
                      ~({"PostToolUse", "killed"} \subseteq failed),
                      NEW published \in Shas
               PROVE  \E e \in events : Raises(Event(e), published, 10)
    BY DEF SecretsAreReported
  <2>1. PICK h \in AllHits(response) : TRUE
    <3>1. PICK p \in DOMAIN response \ {"elsewhere"} : response[p] \cap Secrets # {}
      BY DEF SecretReturned
    <3>2. PICK s \in Secrets : s \in response[p]
      BY <3>1
    <3>3. <<p, s>> \in AllHits(response)
      BY <3>1, <3>2 DEF AllHits, HitsAt
    <3> QED BY <3>3
  <2>2. CleanedUp \/ Failed
    BY DEF Inv, Ends, Denied, Unhooked
  <2>3. CASE CleanedUp
    <3> DEFINE e == Redaction(AllHits(response))
    <3>1. e \in events
      BY <2>1, <2>3 DEF CleanedUp
    <3>2. e.action = "output_redacted" /\ e.hits = AllHits(response)
      BY DEF Redaction
    <3>3. Event(e).action = "output_redacted" /\ Event(e).has_high
      BY <2>1, <3>2 DEF Event, build_event
    <3>4. Alert(100203, 12) \in Matching(Event(e), published)
      BY <3>3 DEF Matching, ToolRules
    <3>5. Alert(100203, 12).level >= 10
      BY DEF Alert
    <3> QED BY <3>1, <3>4, <3>5 DEF Raises
  <2>4. CASE Failed
    <3>1. Error \in events
      BY <2>4 DEF Failed
    <3>2. Event(Error).action = "error"
      BY DEF Event, Error, build_event
    <3>3. Alert(100206, 10) \in Matching(Event(Error), published)
      BY <3>2 DEF Matching, ToolRules
    <3>4. Alert(100206, 10).level >= 10
      BY DEF Alert
    <3> QED BY <3>1, <3>3, <3>4 DEF Raises
  <2> QED BY <2>2, <2>3, <2>4
<1> QED BY <1>1, Invariance, PTL
=============================================================================
