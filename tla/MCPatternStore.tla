--------------------------- MODULE MCPatternStore ---------------------------
(***************************************************************************)
(* Instances of PatternStore.  The manager publishes valid rulesets of two  *)
(* blocks and a malformed one; a block that ends in CR LF reads back as its *)
(* LF twin.  What parses is what RulesetParse makes of the payloads that    *)
(* the contents spell.                                                      *)
(***************************************************************************)
EXTENDS PatternStore, RulesetParse

CONSTANTS a1, a2, b1, b2, bCR, bad, factory, key, card

MCBlock == {a1, a2, b1, b2, bCR, bad, factory}
MCTextRead == [x \in MCBlock \cup {Hole} |-> IF x = bCR THEN b2 ELSE x]

ValidA == <<a1, a2>>
ValidB == <<b1, b2>>
ValidCR == <<b1, bCR>>
Mixed == <<a1, b2>>
Short == <<a1>>
Malformed == <<bad>>
BinaryJunk == <<bad, bad>>
Factory == <<factory>>

KeyRule == [object |-> TRUE, name |-> key, severity |-> "high",
            pattern |-> "plain", validator |-> "none"]
CardRule == [object |-> TRUE, name |-> card, severity |-> "low",
             pattern |-> "plain", validator |-> "luhn"]
Typo == [CardRule EXCEPT !.validator = "other"]

\* A file torn between two valid rulesets may well parse again.
Spelt ==
  ValidA :> <<KeyRule, CardRule>> @@ ValidB :> <<CardRule>> @@ ValidCR :> <<CardRule>> @@
  Mixed :> <<KeyRule>> @@ Short :> <<KeyRule>> @@ Malformed :> <<KeyRule, Typo>> @@
  Factory :> <<KeyRule, CardRule>>

MCParseable == {ValidA, ValidB, ValidCR, Mixed, Short, Factory}
ASSUME ParseableAsSpelt ==
  MCParseable = {c \in DOMAIN Spelt : Accepted(Object("given", TRUE, Spelt[c]))}
MCUndecodable == {BinaryJunk}

MCPayloads == {ValidA, ValidB, Malformed}
MCPayloadsShort == {Short, Malformed}
MCPayloadsCR == {ValidA, ValidCR, Malformed}
\* A valid cache, one that is refused, one that is not text.
MCCorruptCaches == {ValidB, Malformed, BinaryJunk}
MCJunkCache == {BinaryJunk}
=============================================================================
