---------------------------- MODULE SamlValidate ----------------------------
(***************************************************************************)
(* One call of saml.Provider.ValidateResponse, ValidateResponseXML or      *)
(* ValidateRedirectResponse (saml/validate.go, inflate.go), up to the      *)
(* replay cache, which is SamlReplay's: the binding is decoded under its   *)
(* byte limits, the raw document is scanned token by token, validate       *)
(* decides, crewjam (external) parses, the attributes are converted.       *)
(*                                                                         *)
(* The document is whatever the sender writes: a forest of elements, since *)
(* encoding/xml does not insist on a single root, that may break off in a  *)
(* syntax error at any token.  The model keeps it as a tree beside the     *)
(* scanners' locals, so that what they concluded from the order of tokens  *)
(* can be compared with what the document is.  The three scanners make a   *)
(* pass each in the code; they see the same tokens and share no state, so  *)
(* here they advance together.                                             *)
(***************************************************************************)
EXTENDS SamlChecks, SamlScan, SamlAttributes, FiniteSets, SequencesExt

CONSTANTS
  Payloads,        \* what may be received: see Receive
  ElementsAt,      \* start tags by depth, a sequence of sets
  MaxElements,     \* bound on the elements of a document
  Configs,         \* Config values of the Provider
  Signed,          \* the documents that the identity provider signed
  Attrs,           \* <Attribute> elements
  MaxAttributes,   \* bound on the attributes of an assertion
  MaxInt,          \* the largest int64
  DefaultMax       \* DefaultMaxResponseBytes and DefaultMaxInflatedBytes

ASSUME IntWidth == MaxInt \in Nat \ {0} /\ DefaultMax \in 1..(MaxInt - 1)
ASSUME ModelBounds == MaxElements \in Nat /\ MaxAttributes \in Nat
ASSUME TagsType == ElementsAt # <<>> /\ ElementsAt \in Seq(SUBSET UNION Range(ElementsAt))
ASSUME AttrsType == Attrs \subseteq [name : STRING, friendlyName : STRING, values : Seq(STRING)]
ASSUME PayloadsType ==
  \A p \in Payloads : /\ p.size \in Nat /\ p.readable \in BOOLEAN
                      /\ {p.MaxResponseBytes, p.MaxInflatedBytes} \subseteq -(MaxInt + 1)..MaxInt

VARIABLES
  pc,         \* "receive", "scan", "scanned", "convert", or how the call ended
  payload,    \* the message; forgotten once it is decoded
  whole,      \* decoding delivered the message, not a part of it
  document,   \* the elements in document order, each with its parent (0: none)
  open,       \* the decoder's stack: the elements that have not ended
  ending,     \* how the token stream ended
  shape, weak, ident,      \* the scanners' locals
  strict, attrs, out       \* Config.StrictAttributes, attributes so far, both maps

scanVars == <<document, open, shape, weak, ident>>
convertVars == <<strict, attrs, out>>
vars == <<pc, payload, whole, ending, scanVars, convertVars>>

NoPayload == [binding |-> "none"]

Init ==
  /\ pc = "receive"
  /\ payload \in Payloads
  /\ whole = FALSE
  /\ document = <<>> /\ open = <<>> /\ ending = "none"
  /\ shape = NoShape /\ weak = FALSE /\ ident = NoIdentity
  /\ strict = FALSE /\ attrs = <<>> /\ out = NoAttributes

-----------------------------------------------------------------------------
\* Config.maxResponseBytes and Config.maxInflatedBytes.
OrDefault(max) == IF max > 0 THEN max ELSE DefaultMax

\* int64 addition wraps around.
Wrap(n) == IF n > MaxInt THEN n - 2 * (MaxInt + 1) ELSE n

\* io.LimitReader: what is read of n bytes under a limit.
LimitReader(n, limit) == IF limit <= 0 THEN 0 ELSE IF n <= limit THEN n ELSE limit

\* InflateLimited: read one byte past the maximum, so that more than the
\* maximum shows.  The result is a number of bytes, or an error.
Refusal == -1
InflateLimited_NoExtra(n, max) ==
  LET got == LimitReader(n, OrDefault(max))
  IN  IF got > OrDefault(max) THEN Refusal ELSE got
InflateLimited(n, max) ==
  LET got == LimitReader(n, Wrap(OrDefault(max) + 1))
  IN  IF got > OrDefault(max) THEN Refusal ELSE got

\* The bytes that the binding hands to validate.  A form, base64 or DEFLATE
\* error is a payload that is not readable.
Decoded(p) ==
  CASE ~p.readable -> Refusal
    [] p.readable /\ p.binding = "redirect" -> InflateLimited(p.size, p.MaxInflatedBytes)
    [] OTHER -> p.size

\* The three entry points, and the size check that validate begins with.
Receive ==
  /\ pc = "receive"
  /\ LET refused == \/ Decoded(payload) = Refusal
                    \/ Decoded(payload) > OrDefault(payload.MaxResponseBytes)
     IN  \/ /\ refused
            /\ pc' = "refused"
            /\ UNCHANGED whole
         \/ /\ ~refused
            /\ pc' = "scan"
            /\ whole' = (Decoded(payload) = payload.size)
  /\ payload' = NoPayload
  /\ UNCHANGED <<ending, scanVars, convertVars>>

-----------------------------------------------------------------------------
\* The decoder yields a start tag.  A root that is no Response ends the call:
\* scanResponseShape is the first pass.
StartElement(el) ==
  /\ pc = "scan" /\ whole
  /\ Len(document) < MaxElements
  /\ document' = Append(document, [el |-> el, parent |-> IF open = <<>> THEN 0 ELSE Last(open)])
  /\ open' = Append(open, Len(document'))
  /\ shape' = ShapeStart(shape, el)
  /\ weak' = WeakStart(weak, el)
  /\ ident' = IdentityStart(ident, el)
  /\ pc' = IF shape'.failed THEN "scanned" ELSE "scan"
  /\ UNCHANGED <<payload, whole, ending, convertVars>>

\* An end tag; the decoder lets none pass that does not match.
EndElement ==
  /\ pc = "scan" /\ open # <<>>
  /\ open' = Front(open)
  /\ shape' = ShapeEnd(shape)
  /\ ident' = IdentityEnd(ident)
  /\ UNCHANGED <<pc, payload, whole, ending, document, weak, convertVars>>

\* The decoder reports a syntax error, an unclosed element at the end included.
SyntaxError ==
  /\ pc = "scan" /\ whole
  /\ pc' = "scanned" /\ ending' = "error"
  /\ ident' = IdentityError(ident)
  /\ UNCHANGED <<payload, whole, document, open, shape, weak, convertVars>>

EndOfFile ==
  /\ pc = "scan" /\ open = <<>>
  /\ pc' = "scanned" /\ ending' = "eof"
  /\ UNCHANGED <<payload, whole, scanVars, convertVars>>

-----------------------------------------------------------------------------
\* The Destination check of validate: the error it returns, if any.
DestinationError(cfg) ==
  LET present == shape.hasDestinationAttr /\ shape.destination # ""
  IN  CASE requireDestination(cfg) /\ ~present -> "ErrMissingDestination"
        [] present /\ shape.destination # "acs" -> "ErrDestinationMismatch"
        [] OTHER -> "none"

\* What validate makes of the scans, in its order.
Verdict(cfg) ==
  IF shape.failed \/ ~shape.rootIsResponse \/ shape.assertionCount = 0 THEN "ErrMalformedResponse"
  ELSE IF shape.assertionCount > 1 THEN "ErrTooManyAssertions"
  ELSE IF DestinationError(cfg) # "none" THEN DestinationError(cfg)
  ELSE IF rejectWeakSignatures(cfg) /\ weak THEN "ErrWeakSignatureAlgorithm"
  ELSE IF ~cfg.AllowEncryptedAssertions /\ shape.hasEncryptedAssertion
         THEN "ErrEncryptedAssertionNotAllowed"
  ELSE IF ident.failed THEN "ErrMalformedResponse"
  ELSE "admitted"

\* External: crewjam accepts what the identity provider signed.  A document
\* that validate or crewjam refuses is answered with the error: the call is over.
ParseXMLResponse(cfg) ==
  /\ pc = "scanned"
  /\ Verdict(cfg) = "admitted"
  /\ document \in Signed
  /\ pc' = "convert"
  /\ strict' = cfg.StrictAttributes
  /\ UNCHANGED <<payload, whole, ending, scanVars, attrs, out>>

\* assertionFromCrewjam: the next attribute of any of the statements.
Convert(attr) ==
  /\ pc = "convert"
  /\ Len(attrs) < MaxAttributes
  /\ attrs' = Append(attrs, attr)
  /\ out' = AddAttribute(out, attr, strict)
  /\ pc' = IF out'.failed THEN "ErrDuplicateAttribute" ELSE "convert"
  /\ UNCHANGED <<payload, whole, ending, scanVars, strict>>

Next ==
  \/ Receive
  \/ \E el \in ElementsAt[Min({Len(open) + 1, Len(ElementsAt)})] : StartElement(el)
  \/ EndElement
  \/ SyntaxError
  \/ EndOfFile
  \/ \E cfg \in Configs : ParseXMLResponse(cfg)
  \/ \E attr \in Attrs : Convert(attr)

Spec == Init /\ [][Next]_vars

-----------------------------------------------------------------------------
\* What the document is, read off the tree: the record SamlChecks judges.
Elements == DOMAIN document
Children(i) == {j \in Elements : document[j].parent = i}
Called(S, local) == {j \in S : document[j].el.local = local}
IsSaml(j) == document[j].el.space = "saml"
Roots == Children(0)
Assertions(local) == {j \in UNION {Called(Children(i), local) : i \in Roots} : IsSaml(j)}

\* One Issuer, at most one Subject, at most one NameID in it, none foreign.
IdentityOf(a) ==
  LET issuers  == Called(Children(a), "Issuer")
      subjects == Called(Children(a), "Subject")
      names    == UNION {Called(Children(s), "NameID") : s \in subjects}
  IN  /\ Cardinality(issuers) = 1 /\ Cardinality(subjects) <= 1 /\ Cardinality(names) <= 1
      /\ \A j \in issuers \cup subjects \cup names : IsSaml(j)

\* The Destination that a Response states, an empty one being none, and that of
\* the document: its first root's.
Stated(i) == IF document[i].el.destination = "" THEN "none" ELSE document[i].el.destination
DestinationOf == IF 1 \in Roots THEN Stated(1) ELSE "none"

\* No other root states a Destination.
OnlyFirstStates == \A i \in Roots \ {1} : document[i].el.destination = "none"

View ==
  [tooLarge |-> FALSE,
   rootIsResponse |-> Roots # {} /\ Called(Roots, "Response") = Roots,
   assertionCount |-> Cardinality(Assertions("Assertion") \cup Assertions("EncryptedAssertion")),
   destination |-> DestinationOf,
   weakAlgorithm |-> \E i \in Elements : Refused(document[i].el),
   encrypted |-> Assertions("EncryptedAssertion") # {},
   identityShapeOK |-> ending = "eof" /\ \A a \in Assertions("Assertion") : IdentityOf(a)]

\* validate hands a document to crewjam exactly if its tree is as the checks
\* demand, under every configuration: whatever was nested, repeated, foreign or
\* misplaced, wherever it stood, and however early two of the scanners stopped
\* (rawxml.go:9-14, validate.go:93-99).  Documents in which a later root states
\* a Destination are left out: see ResponseStatesDestination.
VerdictFollowsTree ==
  pc = "scanned" /\ OnlyFirstStates =>
    LET v == View
    IN  \A cfg \in Configs : Verdict(cfg) = "admitted" <=> StructureOK(cfg, v)

\* "RequireDestination rejects a Response whose Destination attribute is absent"
\* (provider.go:169-170): validate hands no document to crewjam in which the
\* Response that has the assertion states no Destination, or a wrong one.
ResponseStatesDestination ==
  pc = "scanned" =>
    \A cfg \in Configs : Verdict(cfg) = "admitted" =>
      \A i \in Roots :
        Children(i) \cap (Assertions("Assertion") \cup Assertions("EncryptedAssertion")) # {}
          => DestinationOK(cfg, [destination |-> Stated(i)])

\* "a payload that inflates to precisely maxBytes is accepted, and anything
\* larger is caught" (inflate.go:31-33): what is scanned is the message in full,
\* and it is refused only if it is unreadable or too large.  A maximum of
\* MaxInt is left out: adding one to it wraps around, and nothing is read.
WholeOrRefused ==
  [][pc = "receive" /\ OrDefault(payload.MaxInflatedBytes) < MaxInt =>
       LET fits == /\ payload.readable
                   /\ payload.size <= OrDefault(payload.MaxResponseBytes)
                   /\ payload.binding = "redirect" =>
                        payload.size <= OrDefault(payload.MaxInflatedBytes)
       IN  IF fits THEN pc' = "scan" /\ whole' ELSE pc' = "refused"]_vars

\* The values of those elements of a list of attributes that are in A, in order.
ValuesOf(list, A) ==
  LET upTo[n \in 0..Len(list)] ==
        IF n = 0 THEN <<>> ELSE upTo[n - 1] \o (IF list[n] \in A THEN list[n].values ELSE <<>>)
  IN  upTo[Len(list)]

Keys(attr) == {attr.name, attr.friendlyName} \ {""}
Collision == \E i, j \in DOMAIN attrs : i # j /\ Keys(attrs[i]) \cap Keys(attrs[j]) # {}

\* Both maps hold what was sent, each element's values once, in order, under
\* every key it has and no other (assertion.go:62-87); a strict Provider refuses
\* exactly the assertions in which two elements share a key (provider.go:193-201).
ConvertedAsSent ==
  /\ pc = "ErrDuplicateAttribute" => strict /\ Collision
  /\ pc = "convert" =>
       /\ strict => ~Collision
       /\ DOMAIN out.byName = {attrs[i].name : i \in DOMAIN attrs} \ {""}
       /\ DOMAIN out.merged = UNION {Keys(attrs[i]) : i \in DOMAIN attrs}
       /\ \A n \in DOMAIN out.byName : out.byName[n].vals = ValuesOf(attrs, {a \in Attrs : a.name = n})
       /\ \A k \in DOMAIN out.merged : out.merged[k].vals = ValuesOf(attrs, {a \in Attrs : k \in Keys(a)})

\* "the two maps must not share a backing array" (assertion.go:173-174), and no
\* two keys of one map do: a caller that appends to one never changes another.
MapsShareNoArray ==
  LET Slices == {<<"byName", k>> : k \in DOMAIN out.byName} \cup {<<"merged", k>> : k \in DOMAIN out.merged}
      ArrayOf(s) == IF s[1] = "byName" THEN out.byName[s[2]].array ELSE out.merged[s[2]].array
  IN  \A s, t \in Slices : s # t /\ ArrayOf(s) # 0 => ArrayOf(s) # ArrayOf(t)
=============================================================================
