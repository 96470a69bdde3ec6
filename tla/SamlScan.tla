------------------------------ MODULE SamlScan ------------------------------
(***************************************************************************)
(* The three scanners that read a raw response before any signature is     *)
(* checked: scanResponseShape and scanWeakSignatureAlgorithms of           *)
(* saml/rawxml.go, validatePlaintextIdentityShape of                       *)
(* saml/identity_shape.go.  Each is a loop over the tokens of the document *)
(* with a few locals; an operator here is the body of the loop for one     *)
(* kind of token, from locals to locals.  A scanner that has returned      *)
(* early no longer changes.                                                *)
(*                                                                         *)
(* A start tag is a record: the namespace and the local name, the value of *)
(* the Algorithm attribute ("signature" and "digest" stand for the members *)
(* of the two allowlists) and that of the last Destination attribute.      *)
(***************************************************************************)
EXTENDS Integers, Sequences

Name(el) == [space |-> el.space, local |-> el.local]
AssertionName == [space |-> "saml", local |-> "Assertion"]

-----------------------------------------------------------------------------
\* responseShape, and the depth that scanResponseShape keeps.
NoShape ==
  [depth |-> 0, rootIsResponse |-> FALSE, hasDestinationAttr |-> FALSE, destination |-> "",
   assertionCount |-> 0, hasEncryptedAssertion |-> FALSE, failed |-> FALSE]

\* Depth 1: the root has to be a Response, in whatever namespace.
ShapeRoot(sh, el) ==
  IF el.local # "Response" THEN [sh EXCEPT !.failed = TRUE]
  ELSE [sh EXCEPT !.rootIsResponse = TRUE,
                  !.hasDestinationAttr = @ \/ el.destination # "none",
                  !.destination = IF el.destination # "none" THEN el.destination ELSE @]

\* Depth 2: an assertion of the SAML namespace, in the clear or encrypted.
ShapeChild_AnyNamespace(sh, el) ==
  IF el.local \notin {"Assertion", "EncryptedAssertion"} THEN sh
  ELSE [sh EXCEPT !.assertionCount = @ + 1,
                  !.hasEncryptedAssertion = @ \/ el.local = "EncryptedAssertion"]
ShapeChild(sh, el) ==
  IF el.space # "saml" \/ el.local \notin {"Assertion", "EncryptedAssertion"} THEN sh
  ELSE [sh EXCEPT !.assertionCount = @ + 1,
                  !.hasEncryptedAssertion = @ \/ el.local = "EncryptedAssertion"]

ShapeStart(sh, el) ==
  LET deeper == [sh EXCEPT !.depth = @ + 1]
  IN  CASE sh.failed -> sh
        [] ~sh.failed /\ deeper.depth = 1 -> ShapeRoot(deeper, el)
        [] ~sh.failed /\ deeper.depth = 2 -> ShapeChild(deeper, el)
        [] OTHER -> deeper

ShapeEnd(sh) == IF sh.failed THEN sh ELSE [sh EXCEPT !.depth = @ - 1]

-----------------------------------------------------------------------------
\* scanWeakSignatureAlgorithms: has a declared algorithm been found that is
\* not on the allowlist of its element?
Refused(el) ==
  \/ el.local = "SignatureMethod" /\ el.algorithm \notin {"none", "signature"}
  \/ el.local = "DigestMethod" /\ el.algorithm \notin {"none", "digest"}

WeakStart(found, el) == found \/ Refused(el)

-----------------------------------------------------------------------------
\* The locals of validatePlaintextIdentityShape.
NoIdentity == [stack |-> <<>>, issuers |-> 0, subjects |-> 0, names |-> 0, failed |-> FALSE]

\* A child element that must be the first of its name, and of the namespace.
OnlyOne(el, count) == el.space = "saml" /\ count = 1

\* Inside a plaintext assertion: count, and refuse what is foreign or repeated.
IdentityInside(id, el) ==
  LET depth    == Len(id.stack)
      issuer   == depth = 3 /\ el.local = "Issuer"
      subject  == depth = 3 /\ el.local = "Subject"
      name     == depth = 4 /\ id.stack[3].local = "Subject" /\ el.local = "NameID"
      counted  == [id EXCEPT !.issuers = IF issuer THEN @ + 1 ELSE @,
                             !.subjects = IF subject THEN @ + 1 ELSE @,
                             !.names = IF name THEN @ + 1 ELSE @]
  IN  [counted EXCEPT !.failed =
         \/ issuer /\ ~OnlyOne(el, counted.issuers)
         \/ subject /\ ~OnlyOne(el, counted.subjects)
         \/ name /\ ~OnlyOne(el, counted.names)]

\* An assertion begins: its counts do.
IdentityReset(id) ==
  IF Len(id.stack) = 2 /\ id.stack[2] = AssertionName
    THEN [id EXCEPT !.issuers = 0, !.subjects = 0, !.names = 0] ELSE id

IdentityStart(id, el) ==
  LET pushed == IdentityReset([id EXCEPT !.stack = Append(@, Name(el))])
  IN  CASE id.failed -> id
        [] ~id.failed /\ Len(pushed.stack) >= 3 /\ pushed.stack[2] = AssertionName ->
             IdentityInside(pushed, el)
        [] OTHER -> pushed

\* An assertion that ends must have had its Issuer.
IdentityEnd(id) ==
  LET depth == Len(id.stack)
  IN  CASE id.failed -> id
        [] ~id.failed /\ depth = 2 /\ id.stack[2] = AssertionName /\ id.issuers # 1 ->
             [id EXCEPT !.failed = TRUE]
        [] OTHER -> [id EXCEPT !.stack = SubSeq(@, 1, depth - 1)]

\* The decoder gives up: scanResponseShape and scanWeakSignatureAlgorithms
\* just stop, the identity scan refuses the document.
IdentityError_Ignored(id) == id
IdentityError(id) == [id EXCEPT !.failed = TRUE]
=============================================================================
