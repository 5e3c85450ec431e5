----------------------------- MODULE MCDetection -----------------------------
(***************************************************************************)
(* An instance of Detection.  A pushed rule may bear the name of an entity; *)
(* a card number and a passport number may read the same once redacted.     *)
(***************************************************************************)
EXTENDS Detection

MCNames == {"US_PASSPORT", "key"}
MCSample == [v \in {"card", "passport", "phone"} |-> IF v = "phone" THEN "p**e" ELSE "****"]
MCHighRules == <<TRUE, TRUE, FALSE>>
==============================================================================
