---------------------------- MODULE MCSamlReplay ----------------------------
(***************************************************************************)
(* SamlReplay with two handlers, two assertions and documents that carry   *)
(* them: sound ones, one that fails a check after the signature was found  *)
(* good, and one per structural defect.                                    *)
(***************************************************************************)
EXTENDS SamlReplay

CONSTANTS h1, h2

MCHandlers == {h1, h2}
MCIds == {"", "a", "b"}
MCDeadlines == [id \in MCIds |-> CASE id = "a" -> {0, 1} [] id = "b" -> {3} [] OTHER -> {3}]

Sound(i) ==
  [id |-> i, tooLarge |-> FALSE, rootIsResponse |-> TRUE, assertionCount |-> 1,
   destination |-> "acs", weakAlgorithm |-> FALSE, encrypted |-> FALSE,
   identityShapeOK |-> TRUE, trusted |-> TRUE, duplicateAttribute |-> FALSE]

MCResponses ==
  {Sound("a"), Sound("b"), Sound(""),
   [Sound("b") EXCEPT !.duplicateAttribute = TRUE],
   [Sound("b") EXCEPT !.tooLarge = TRUE],
   [Sound("b") EXCEPT !.rootIsResponse = FALSE],
   [Sound("b") EXCEPT !.assertionCount = 0],
   [Sound("b") EXCEPT !.assertionCount = 2],
   [Sound("b") EXCEPT !.destination = "none"],
   [Sound("b") EXCEPT !.destination = "other"],
   [Sound("b") EXCEPT !.weakAlgorithm = TRUE],
   [Sound("b") EXCEPT !.encrypted = TRUE],
   [Sound("b") EXCEPT !.identityShapeOK = FALSE],
   [Sound("b") EXCEPT !.trusted = FALSE]}
=============================================================================
