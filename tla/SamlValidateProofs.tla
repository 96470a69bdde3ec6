-------------------------- MODULE SamlValidateProofs --------------------------
(***************************************************************************)
(* What ValidateResponse makes of a message, for any documents, however    *)
(* wide and deep, any lists of attributes, any Configs and any limits: the *)
(* token scanners compute what the document's tree says, sizes are cut off *)
(* exactly, and the attribute maps hold what was sent.                     *)
(***************************************************************************)
EXTENDS SamlValidate, FiniteSetTheorems, SequenceTheorems, WellFoundedInduction,
        TLAPS

Tags == UNION Range(ElementsAt)

-----------------------------------------------------------------------------
\* The decoder's stack is a path from a root to the element that was opened
\* last, and elements come after their parents.
TreeShape ==
  /\ document \in Seq([el : Tags, parent : Nat])
  /\ open \in Seq(Nat)
  /\ \A i \in Elements : document[i].parent < i
  /\ \A k \in 1..Len(open) :
       /\ open[k] \in Elements
       /\ document[open[k]].parent = IF k = 1 THEN 0 ELSE open[k - 1]

\* The parts of an assertion that the identity scan counts.
Issuers(a) == Called(Children(a), "Issuer")
Subjects(a) == Called(Children(a), "Subject")
NameIDs(a) == UNION {Called(Children(s), "NameID") : s \in Subjects(a)}
Parts(a) == Issuers(a) \cup Subjects(a) \cup NameIDs(a)

\* An assertion that is open is the second on the path.
Inside(a) == Len(open) >= 2 /\ open[2] = a

Stating == {i \in Roots : document[i].el.destination # "none"}

\* scanResponseShape: its locals say of the tree what responseShape is for.
Destinations == {t.destination : t \in Tags} \cup {""}
Shapes ==
  [depth : Nat, rootIsResponse : BOOLEAN, hasDestinationAttr : BOOLEAN, destination : Destinations,
   assertionCount : Nat, hasEncryptedAssertion : BOOLEAN, failed : BOOLEAN]

RootsSeen ==
  IF shape.failed THEN \E r \in Roots : document[r].el.local # "Response"
  ELSE /\ shape.depth = Len(open)
       /\ \A r \in Roots : document[r].el.local = "Response"
       /\ shape.rootIsResponse <=> Roots # {}

DestinationSeen ==
  ~shape.failed =>
    IF shape.hasDestinationAttr
      THEN \E m \in Stating : /\ shape.destination = document[m].el.destination
                              /\ \A i \in Stating : i <= m
      ELSE Stating = {}

AssertionsSeen ==
  ~shape.failed =>
    /\ shape.assertionCount = Cardinality(Assertions("Assertion") \cup Assertions("EncryptedAssertion"))
    /\ shape.hasEncryptedAssertion <=> Assertions("EncryptedAssertion") # {}

\* scanWeakSignatureAlgorithms.
WeakSeen == weak \in BOOLEAN /\ (weak <=> \E i \in Elements : Refused(document[i].el))

\* validatePlaintextIdentityShape: what was counted is there once or not at all.
AtMostOne(S) == \A x, y \in S : x = y
Counted(S, n) == AtMostOne(S) /\ n = IF S = {} THEN 0 ELSE 1
Clean(a) == \A j \in Parts(a) : IsSaml(j)

\* An assertion that has not ended has been counted so far; one that has ended
\* is as it should be.
CountedSoFar(a) ==
  /\ Counted(Issuers(a), ident.issuers)
  /\ Counted(Subjects(a), ident.subjects)
  /\ Counted(NameIDs(a), ident.names)
Sound(a) ==
  /\ Issuers(a) # {} /\ AtMostOne(Issuers(a))
  /\ AtMostOne(Subjects(a)) /\ AtMostOne(NameIDs(a))

\* What no later token can put right.
Spoilt(a) ==
  \/ ~AtMostOne(Issuers(a)) \/ ~AtMostOne(Subjects(a)) \/ ~AtMostOne(NameIDs(a))
  \/ ~Clean(a)
  \/ Issuers(a) = {} /\ ~Inside(a)

TagNames == {Name(t) : t \in Tags}
Identities ==
  [stack : Seq(TagNames), issuers : Nat, subjects : Nat, names : Nat, failed : BOOLEAN]

\* The names on the identity scan's stack are those on the path.
StackSeen ==
  /\ Len(ident.stack) = Len(open)
  /\ \A k \in 1..Len(open) : ident.stack[k] = Name(document[open[k]].el)

IdentitySeen ==
  IF ident.failed THEN ending = "error" \/ \E a \in Assertions("Assertion") : Spoilt(a)
  ELSE /\ ending # "error"
       /\ StackSeen
       /\ \A a \in Assertions("Assertion") :
            Clean(a) /\ IF Inside(a) THEN CountedSoFar(a) ELSE Sound(a)

\* When the scans are over, one of them has failed or all has been read.
Phase ==
  /\ pc = "receive" => payload \in Payloads
  /\ pc \in {"receive", "scan"} => ~shape.failed /\ ending = "none"
  /\ pc = "scanned" => shape.failed \/ ending = "error" \/ (ending = "eof" /\ open = <<>>)

\* The inductive invariant of the scans.
ScanInv ==
  /\ Phase
  /\ TreeShape
  /\ shape \in Shapes /\ RootsSeen /\ DestinationSeen /\ AssertionsSeen
  /\ WeakSeen
  /\ ident \in Identities /\ IdentitySeen

-----------------------------------------------------------------------------
\* Who belongs to which set, by local name and parent.
Members ==
  /\ \A j : j \in Roots <=> j \in Elements /\ document[j].parent = 0
  /\ \A a, j : j \in Issuers(a) <=>
                j \in Elements /\ document[j].parent = a /\ document[j].el.local = "Issuer"
  /\ \A a, j : j \in Subjects(a) <=>
                j \in Elements /\ document[j].parent = a /\ document[j].el.local = "Subject"
  /\ \A a, j : j \in NameIDs(a) <=>
                /\ j \in Elements /\ document[j].el.local = "NameID"
                /\ document[j].parent \in Subjects(a)
  /\ \A l, j : j \in Assertions(l) <=>
                /\ j \in Elements /\ document[j].el.local = l /\ document[j].el.space = "saml"
                /\ document[j].parent \in Roots

LEMMA MembersAlways == Members
<1>1. \A i, j : j \in Children(i) <=> j \in Elements /\ document[j].parent = i
  BY DEF Children
<1>2. \A S, l, j : j \in Called(S, l) <=> j \in S /\ document[j].el.local = l
  BY DEF Called
<1>3. \A j : j \in Roots <=> j \in Elements /\ document[j].parent = 0
  BY <1>1 DEF Roots
<1>4. \A a, j : j \in Issuers(a) <=>
                  j \in Elements /\ document[j].parent = a /\ document[j].el.local = "Issuer"
  BY <1>1, <1>2 DEF Issuers
<1>5. \A a, j : j \in Subjects(a) <=>
                  j \in Elements /\ document[j].parent = a /\ document[j].el.local = "Subject"
  BY <1>1, <1>2 DEF Subjects
<1>6. \A a, j : j \in NameIDs(a) <=>
                  /\ j \in Elements /\ document[j].el.local = "NameID"
                  /\ document[j].parent \in Subjects(a)
  BY <1>1, <1>2 DEF NameIDs
<1>7. \A l, j : j \in Assertions(l) <=>
                  /\ j \in Elements /\ document[j].el.local = l /\ document[j].el.space = "saml"
                  /\ document[j].parent \in Roots
  BY <1>1, <1>2 DEF Assertions, IsSaml
<1> QED BY <1>3, <1>4, <1>5, <1>6, <1>7 DEF Members

LEMMA MembersNext == Members'
BY MembersAlways, PTL
-----------------------------------------------------------------------------
\* A start tag: the number and the parent of the element it begins.
Fresh == Len(document) + 1
Above == IF open = <<>> THEN 0 ELSE open[Len(open)]

LEMMA StartFacts ==
  ASSUME TreeShape, NEW el \in Tags, StartElement(el)
  PROVE  /\ Fresh \in Nat /\ Fresh \notin Elements /\ Elements' = Elements \cup {Fresh}
         /\ Elements = 1..Len(document) /\ Len(document) \in Nat
         /\ document'[Fresh].el = el /\ document'[Fresh].parent = Above
         /\ \A j \in Elements : document'[j] = document[j]
         /\ Len(open) \in Nat /\ Len(open') = Len(open) + 1
         /\ \A k \in 1..Len(open) : open'[k] = open[k]
         /\ open'[Len(open) + 1] = Fresh
         /\ Above \in Elements \cup {0}
         /\ Above = 0 <=> Len(open) = 0
         /\ TreeShape'
<1> DEFINE Nodes == [el : Tags, parent : Nat]
<1>1. document \in Seq(Nodes) /\ open \in Seq(Nat)
  BY DEF TreeShape
<1>2. Len(document) \in Nat /\ Elements = 1..Len(document) /\ Len(open) \in Nat
  BY <1>1, LenProperties DEF Elements
<1>3. open # <<>> <=> Len(open) # 0
  BY <1>1, EmptySeq
<1>4. /\ Above \in Elements \cup {0} /\ Above \in Nat
      /\ Above = 0 <=> Len(open) = 0
  BY <1>2, <1>3 DEF TreeShape, Above
<1>5. document' = Append(document, [el |-> el, parent |-> Above]) /\ open' = Append(open, Len(document'))
  BY DEF StartElement, Above, Last
<1>6. [el |-> el, parent |-> Above] \in Nodes
  BY <1>4
<1> HIDE DEF Nodes
<1>7. /\ document' \in Seq(Nodes) /\ Len(document') = Len(document) + 1
      /\ \A j \in 1..Len(document) : document'[j] = document[j]
      /\ document'[Fresh] = [el |-> el, parent |-> Above]
  BY <1>1, <1>5, <1>6, AppendProperties DEF Fresh
<1>8. Elements' = 1..(Len(document) + 1)
  BY <1>7, <1>2, LenProperties DEF Elements
<1>9. /\ open' \in Seq(Nat) /\ Len(open') = Len(open) + 1
      /\ \A k \in 1..Len(open) : open'[k] = open[k]
      /\ open'[Len(open) + 1] = Fresh
  BY <1>1, <1>2, <1>5, <1>7, AppendProperties DEF Fresh
<1>10. Fresh \in Nat /\ Fresh \notin Elements /\ Elements' = Elements \cup {Fresh}
  BY <1>2, <1>8 DEF Fresh
<1>11. document'[Fresh].el = el /\ document'[Fresh].parent = Above
  BY <1>7
<1>12. TreeShape'
  <2>1. \A i \in Elements' : document'[i].parent < i
    <3>1. Above < Fresh
      BY <1>2, <1>4 DEF Fresh
    <3>2. \A i \in Elements : document'[i].parent < i
      BY <1>2, <1>7 DEF TreeShape
    <3> QED BY <3>1, <3>2, <1>10, <1>11
  <2>2. ASSUME NEW k \in 1..(Len(open) + 1)
        PROVE  /\ open'[k] \in Elements'
               /\ document'[open'[k]].parent = IF k = 1 THEN 0 ELSE open'[k - 1]
    <3>1. CASE k = Len(open) + 1
      <4>1. document'[open'[k]].parent = Above /\ open'[k] \in Elements'
        BY <3>1, <1>9, <1>10, <1>11
      <4>2. Above = IF k = 1 THEN 0 ELSE open[k - 1]
        BY <3>1, <1>2, <1>3 DEF Above
      <4>3. k # 1 => open'[k - 1] = open[k - 1]
        BY <3>1, <1>2, <1>9
      <4> QED BY <4>1, <4>2, <4>3
    <3>2. CASE k \in 1..Len(open)
      <4>1. open'[k] = open[k] /\ open[k] \in Elements /\ document'[open[k]] = document[open[k]]
        BY <3>2, <1>2, <1>7, <1>9 DEF TreeShape
      <4>2. k # 1 => open'[k - 1] = open[k - 1]
        BY <3>2, <1>2, <1>9
      <4>3. document[open[k]].parent = IF k = 1 THEN 0 ELSE open[k - 1]
        BY <3>2 DEF TreeShape
      <4> QED BY <4>1, <4>2, <4>3, <1>10
    <3> QED BY <3>1, <3>2, <1>2
  <2> QED BY <2>1, <2>2, <1>7, <1>9 DEF TreeShape, Nodes
<1> QED BY <1>2, <1>4, <1>7, <1>9, <1>10, <1>11, <1>12

\* Where the new element is: below an assertion, or below one's Subject, only
\* if that assertion is the second element of the path.
LEMMA PathFacts ==
  ASSUME TreeShape, NEW a \in Assertions("Assertion")
  PROVE  /\ a \in Elements
         /\ Above = a <=> Inside(a) /\ Len(open) = 2
         /\ Above \in Subjects(a) <=>
              Inside(a) /\ Len(open) = 3 /\ document[open[3]].el.local = "Subject"
<1> DEFINE d == Len(open)
<1>1. d \in Nat /\ (open = <<>> <=> d = 0)
  BY LenProperties, EmptySeq DEF TreeShape
<1>2. \A k \in 1..d : /\ open[k] \in Elements
                      /\ document[open[k]].parent = IF k = 1 THEN 0 ELSE open[k - 1]
  BY DEF TreeShape
<1>3. 0 \notin Elements
  BY LenProperties DEF Elements, TreeShape
<1>4. /\ a \in Elements /\ document[a].parent \in Elements
      /\ document[document[a].parent].parent = 0
  BY MembersAlways DEF Members
<1>5. Above = IF d = 0 THEN 0 ELSE open[d]
  BY <1>1 DEF Above
<1> HIDE DEF d
<1>6. ASSUME Above = a PROVE d = 2
  <2>1. d # 0
    BY <1>6, <1>5, <1>4, <1>3
  <2>2. d # 1
    BY <1>6, <1>5, <1>4, <1>3, <1>2
  <2>3. ~(d >= 3)
    <3> SUFFICES ASSUME d >= 3 PROVE FALSE
      OBVIOUS
    <3>1. d \in 1..d /\ d - 1 \in 1..d /\ d - 2 \in 1..d /\ d # 1 /\ d - 1 # 1
      BY <1>1
    <3>2. document[a].parent = open[d - 1]
      BY <3>1, <1>6, <1>5, <1>2
    <3>3. document[open[d - 1]].parent = open[d - 2] /\ open[d - 2] \in Elements
      BY <3>1, <1>2
    <3> QED BY <3>2, <3>3, <1>4, <1>3
  <2> QED BY <2>1, <2>2, <2>3, <1>1
<1>7. ASSUME Above \in Subjects(a) PROVE d = 3 /\ open[2] = a
  <2>1. Above \in Elements /\ document[Above].parent = a
    BY <1>7, MembersAlways DEF Members
  <2>2. d # 0
    BY <2>1, <1>5, <1>3
  <2>3. d # 1
    BY <2>1, <1>5, <1>4, <1>3, <1>2
  <2>4. open[d - 1] = a
    BY <2>1, <2>2, <2>3, <1>1, <1>2, <1>5
  <2>5. d # 2
    BY <2>4, <1>2, <1>3, <1>4
  <2>6. ~(d >= 4)
    <3> SUFFICES ASSUME d >= 4 PROVE FALSE
      OBVIOUS
    <3>1. /\ d - 1 \in 1..d /\ d - 2 \in 1..d /\ d - 3 \in 1..d
          /\ d - 1 # 1 /\ d - 2 # 1 /\ (d - 1) - 1 = d - 2 /\ (d - 2) - 1 = d - 3
      BY <1>1
    <3>2. document[open[d - 1]].parent = open[(d - 1) - 1]
      BY <3>1, <1>2
    <3>3. document[open[d - 2]].parent = open[(d - 2) - 1] /\ open[d - 3] \in Elements
      BY <3>1, <1>2
    <3> QED BY <2>4, <3>1, <3>2, <3>3, <1>4, <1>3
  <2> QED BY <2>2, <2>3, <2>4, <2>5, <2>6, <1>1
<1>8. Above = a <=> Inside(a) /\ d = 2
  BY <1>1, <1>5, <1>6 DEF Inside, d
<1>9. Above \in Subjects(a) <=> Inside(a) /\ d = 3 /\ document[open[3]].el.local = "Subject"
  <2>1. ASSUME Inside(a), d = 3, document[open[3]].el.local = "Subject" PROVE Above \in Subjects(a)
    <3>1. Above = open[3] /\ open[3] \in Elements /\ document[open[3]].parent = open[2]
      BY <2>1, <1>2, <1>5
    <3> QED BY <3>1, <2>1, MembersAlways DEF Members, Inside
  <2>2. Above \in Subjects(a) => document[Above].el.local = "Subject"
    BY MembersAlways DEF Members
  <2> QED BY <2>1, <2>2, <1>5, <1>7 DEF Inside, d
<1> QED BY <1>4, <1>8, <1>9 DEF d
\* What a start tag adds to which set.
LEMMA SetsGrow ==
  ASSUME TreeShape, NEW el \in Tags, StartElement(el), NEW n, n = Fresh
  PROVE  /\ Roots' = Roots \cup (IF Len(open) = 0 THEN {n} ELSE {})
         /\ \A l : Assertions(l)' =
              Assertions(l) \cup (IF Len(open) = 1 /\ el.local = l /\ el.space = "saml" THEN {n} ELSE {})
         /\ \A a \in Elements :
              /\ Issuers(a)' =
                   Issuers(a) \cup (IF Above = a /\ el.local = "Issuer" THEN {n} ELSE {})
              /\ Subjects(a)' =
                   Subjects(a) \cup (IF Above = a /\ el.local = "Subject" THEN {n} ELSE {})
              /\ NameIDs(a)' =
                   NameIDs(a) \cup (IF Above \in Subjects(a) /\ el.local = "NameID" THEN {n} ELSE {})
         /\ Issuers(n)' = {} /\ Subjects(n)' = {} /\ NameIDs(n)' = {}
<1>1. /\ n \notin Elements /\ Elements' = Elements \cup {n}
      /\ document'[n].el = el /\ document'[n].parent = Above
      /\ \A j \in Elements : document'[j] = document[j]
      /\ Above \in Elements \cup {0} /\ (Above = 0 <=> Len(open) = 0)
      /\ Len(open) \in Nat /\ n \in Nat /\ Elements = 1..Len(document) /\ n = Len(document) + 1
  BY StartFacts DEF Fresh
<1>2. \A j \in Elements : document[j].parent # n
  <2>1. \A j \in Elements : document[j].parent < j /\ j < n
    BY <1>1, LenProperties DEF TreeShape
  <2> QED BY <2>1, <1>1
<1>3. Above # n /\ 0 \notin Elements
  BY <1>1, LenProperties DEF TreeShape
<1>4. Roots' = Roots \cup (IF Len(open) = 0 THEN {n} ELSE {})
  <2>1. \A j : j \in Roots' <=> j \in Roots \/ (j = n /\ Above = 0)
    BY <1>1, MembersAlways, MembersNext DEF Members
  <2> QED BY <2>1, <1>1
<1>5. ASSUME NEW a \in Elements
      PROVE  /\ Issuers(a)' =
                  Issuers(a) \cup (IF Above = a /\ el.local = "Issuer" THEN {n} ELSE {})
             /\ Subjects(a)' =
                  Subjects(a) \cup (IF Above = a /\ el.local = "Subject" THEN {n} ELSE {})
             /\ NameIDs(a)' =
                  NameIDs(a) \cup (IF Above \in Subjects(a) /\ el.local = "NameID" THEN {n} ELSE {})
  <2>1. \A j : j \in Issuers(a)' <=> j \in Issuers(a) \/ (j = n /\ Above = a /\ el.local = "Issuer")
    BY <1>1, MembersAlways, MembersNext DEF Members
  <2>2. \A j : j \in Subjects(a)' <=> j \in Subjects(a) \/ (j = n /\ Above = a /\ el.local = "Subject")
    BY <1>1, MembersAlways, MembersNext DEF Members
  <2>3. \A j \in Elements \cup {0} : j \in Subjects(a)' <=> j \in Subjects(a)
    BY <2>2, <1>1, <1>3
  <2>4. \A j : j \in NameIDs(a)' <=>
                 \/ j \in Elements /\ document[j].el.local = "NameID" /\ document[j].parent \in Subjects(a)'
                 \/ j = n /\ el.local = "NameID" /\ Above \in Subjects(a)'
    BY <1>1, MembersNext DEF Members
  <2>5. \A j \in Elements : document[j].parent \in Subjects(a)' <=> document[j].parent \in Subjects(a)
    BY <2>2, <1>2
  <2>6. \A j : j \in NameIDs(a)' <=>
                 j \in NameIDs(a) \/ (j = n /\ Above \in Subjects(a) /\ el.local = "NameID")
    BY <2>3, <2>4, <2>5, <1>1, MembersAlways DEF Members
  <2> QED BY <2>1, <2>2, <2>6
<1>6. Issuers(n)' = {} /\ Subjects(n)' = {} /\ NameIDs(n)' = {}
  <2>1. \A j \in Elements' : document'[j].parent # n
    BY <1>1, <1>2, <1>3
  <2>2. Issuers(n)' = {} /\ Subjects(n)' = {}
    BY <2>1, MembersNext DEF Members
  <2> QED BY <2>2, MembersNext DEF Members
<1>7. ASSUME NEW l
      PROVE  Assertions(l)' =
               Assertions(l) \cup (IF Len(open) = 1 /\ el.local = l /\ el.space = "saml" THEN {n} ELSE {})
  <2>1. Above \in Roots <=> Len(open) = 1
    <3>1. CASE Len(open) = 0
      BY <3>1, <1>1, <1>3, MembersAlways DEF Members
    <3>2. CASE Len(open) = 1
      <4>1. Above = open[1] /\ open[1] \in Elements /\ document[open[1]].parent = 0
        BY <3>2, <1>1 DEF TreeShape, Above
      <4> QED BY <4>1, <3>2, MembersAlways DEF Members
    <3>3. CASE Len(open) > 1
      <4>1. Above = open[Len(open)]
        <5>1. open # <<>>
          BY <3>3
        <5> QED BY <5>1 DEF Above
      <4>2. Len(open) \in 1..Len(open) /\ Len(open) - 1 \in 1..Len(open) /\ Len(open) # 1
        <5>1. \A d \in Nat : d > 1 => d \in 1..d /\ d - 1 \in 1..d /\ d # 1
          OBVIOUS
        <5> QED BY <5>1, <3>3, <1>1
      <4>3. document[open[Len(open)]].parent = open[Len(open) - 1] /\ open[Len(open) - 1] \in Elements
        BY <4>2 DEF TreeShape
      <4>4. open[Len(open) - 1] # 0
        BY <4>3, <1>3
      <4>5. Above \notin Roots
        BY <4>1, <4>3, <4>4, MembersAlways DEF Members
      <4> QED BY <4>2, <4>5, Zenon
    <3>4. \A d \in Nat : d = 0 \/ d = 1 \/ d > 1
      OBVIOUS
    <3> QED BY <3>1, <3>2, <3>3, <3>4, <1>1
  <2>2. \A j \in Elements \cup {0} : j \in Roots' <=> j \in Roots
    BY <1>4, <1>1, <1>3
  <2>3. \A j \in Elements : document[j].parent \in Roots' <=> document[j].parent \in Roots
    BY <1>4, <1>2
  <2>4. \A j : j \in Assertions(l)' <=>
                 \/ j \in Elements /\ document[j].el.local = l /\ document[j].el.space = "saml"
                      /\ document[j].parent \in Roots'
                 \/ j = n /\ el.local = l /\ el.space = "saml" /\ Above \in Roots'
    BY <1>1, MembersNext DEF Members
  <2>5. \A j : j \in Assertions(l)' <=>
                 j \in Assertions(l) \/ (j = n /\ el.local = l /\ el.space = "saml" /\ Len(open) = 1)
    BY <2>1, <2>2, <2>3, <2>4, <1>1, MembersAlways DEF Members
  <2> QED BY <2>5
<1> QED BY <1>4, <1>5, <1>6, <1>7
-----------------------------------------------------------------------------
\* What the body of scanResponseShape does for a start tag, by its depth.
ShapeAfter(sh, el, r) ==
  /\ r \in Shapes
  /\ r.depth = sh.depth + 1
  /\ sh.depth = 0 =>
       /\ r.failed <=> el.local # "Response"
       /\ ~r.failed => r.rootIsResponse
       /\ ~r.failed => (r.hasDestinationAttr <=> sh.hasDestinationAttr \/ el.destination # "none")
       /\ ~r.failed => r.destination = IF el.destination # "none" THEN el.destination ELSE sh.destination
  /\ sh.depth # 0 =>
       /\ ~r.failed
       /\ r.rootIsResponse <=> sh.rootIsResponse
       /\ r.hasDestinationAttr <=> sh.hasDestinationAttr
       /\ r.destination = sh.destination
  /\ LET counted == sh.depth = 1 /\ el.space = "saml" /\ el.local \in {"Assertion", "EncryptedAssertion"}
     IN  /\ r.assertionCount = IF counted THEN sh.assertionCount + 1 ELSE sh.assertionCount
         /\ r.hasEncryptedAssertion <=>
              sh.hasEncryptedAssertion \/ (counted /\ el.local = "EncryptedAssertion")

LEMMA ShapeStartFacts ==
  ASSUME NEW sh \in Shapes, ~sh.failed, NEW el \in Tags, NEW r, r = ShapeStart(sh, el)
  PROVE  ShapeAfter(sh, el, r)
<1> DEFINE deeper == [sh EXCEPT !.depth = @ + 1]
<1>1. /\ deeper \in Shapes /\ deeper.depth = sh.depth + 1 /\ ~deeper.failed
      /\ deeper.rootIsResponse = sh.rootIsResponse
      /\ deeper.hasDestinationAttr = sh.hasDestinationAttr
      /\ deeper.destination = sh.destination
      /\ deeper.assertionCount = sh.assertionCount
      /\ deeper.hasEncryptedAssertion = sh.hasEncryptedAssertion
  BY DEF Shapes
<1>2. el.destination \in Destinations
  BY DEF Destinations
<1>3. r = IF sh.depth = 0 THEN ShapeRoot(deeper, el)
          ELSE IF sh.depth = 1 THEN ShapeChild(deeper, el) ELSE deeper
  <2>1. sh.depth \in Nat
    BY DEF Shapes
  <2> HIDE DEF deeper
  <2>2. r = CASE deeper.depth = 1 -> ShapeRoot(deeper, el)
              [] deeper.depth = 2 -> ShapeChild(deeper, el)
              [] OTHER -> deeper
    BY DEF ShapeStart, deeper
  <2> QED BY <2>1, <2>2, <1>1
<1> HIDE DEF deeper
<1>4. CASE sh.depth = 0
  <2>1. r = ShapeRoot(deeper, el)
    BY <1>3, <1>4
  <2>2. CASE el.local # "Response"
    <3>1. r = [deeper EXCEPT !.failed = TRUE]
      BY <2>1, <2>2 DEF ShapeRoot
    <3>2. /\ r \in Shapes /\ r.failed = TRUE /\ r.depth = deeper.depth
          /\ r.assertionCount = deeper.assertionCount
          /\ r.hasEncryptedAssertion = deeper.hasEncryptedAssertion
      BY <3>1, <1>1 DEF Shapes
    <3> QED BY <3>2, <2>2, <1>1, <1>4 DEF ShapeAfter
  <2>3. CASE el.local = "Response"
    <3>1. r = [deeper EXCEPT !.rootIsResponse = TRUE,
                             !.hasDestinationAttr = @ \/ el.destination # "none",
                             !.destination = IF el.destination # "none" THEN el.destination ELSE @]
      BY <2>1, <2>3 DEF ShapeRoot
    <3>2. /\ r \in Shapes /\ r.depth = deeper.depth /\ r.failed = deeper.failed
          /\ r.rootIsResponse = TRUE
          /\ r.hasDestinationAttr <=> deeper.hasDestinationAttr \/ el.destination # "none"
          /\ r.destination = IF el.destination # "none" THEN el.destination ELSE deeper.destination
          /\ r.assertionCount = deeper.assertionCount
          /\ r.hasEncryptedAssertion = deeper.hasEncryptedAssertion
      BY <3>1, <1>1, <1>2 DEF Shapes
    <3> QED BY <3>2, <2>3, <1>1, <1>4 DEF ShapeAfter
  <2> QED BY <2>2, <2>3
<1>5. CASE sh.depth = 1
  <2>1. r = ShapeChild(deeper, el)
    BY <1>3, <1>5
  <2>2. CASE el.space = "saml" /\ el.local \in {"Assertion", "EncryptedAssertion"}
    <3>1. r = [deeper EXCEPT !.assertionCount = @ + 1,
                             !.hasEncryptedAssertion = @ \/ el.local = "EncryptedAssertion"]
      BY <2>1, <2>2 DEF ShapeChild
    <3>2. r \in Shapes
      <4>1. deeper.assertionCount + 1 \in Nat
        BY <1>1 DEF Shapes
      <4>2. (deeper.hasEncryptedAssertion \/ el.local = "EncryptedAssertion") \in BOOLEAN
        OBVIOUS
      <4> QED BY <3>1, <4>1, <4>2, <1>1 DEF Shapes
    <3>3. /\ r.depth = deeper.depth /\ r.failed = deeper.failed
          /\ r.rootIsResponse = deeper.rootIsResponse
          /\ r.hasDestinationAttr = deeper.hasDestinationAttr
          /\ r.destination = deeper.destination
          /\ r.assertionCount = deeper.assertionCount + 1
          /\ r.hasEncryptedAssertion <=> deeper.hasEncryptedAssertion \/ el.local = "EncryptedAssertion"
      BY <3>1, <1>1 DEF Shapes
    <3> QED BY <3>2, <3>3, <2>2, <1>1, <1>5 DEF ShapeAfter
  <2>3. CASE ~(el.space = "saml" /\ el.local \in {"Assertion", "EncryptedAssertion"})
    <3>1. r = deeper
      BY <2>1, <2>3 DEF ShapeChild
    <3> QED BY <3>1, <2>3, <1>1, <1>5 DEF ShapeAfter
  <2> QED BY <2>2, <2>3
<1>6. CASE sh.depth \notin {0, 1}
  <2>1. r = deeper
    BY <1>3, <1>6
  <2> QED BY <2>1, <1>1, <1>6 DEF ShapeAfter
<1> QED BY <1>4, <1>5, <1>6
\* Sets of elements are finite.
LEMMA FiniteParts ==
  ASSUME TreeShape, NEW S, S \subseteq Elements
  PROVE  IsFiniteSet(S) /\ Cardinality(S) \in Nat
<1>1. Elements = 1..Len(document) /\ Len(document) \in Nat
  BY LenProperties DEF TreeShape, Elements
<1>2. IsFiniteSet(Elements)
  BY <1>1, FS_Interval
<1> QED BY <1>2, FS_Subset, FS_CardinalityType

\* A start tag keeps what scanResponseShape knows true to the tree.
LEMMA ShapeStartStep ==
  ASSUME ScanInv, NEW el \in Tags, StartElement(el)
  PROVE  shape' \in Shapes /\ RootsSeen' /\ DestinationSeen' /\ AssertionsSeen'
<1>1. TreeShape /\ shape \in Shapes /\ RootsSeen /\ DestinationSeen /\ AssertionsSeen
  BY DEF ScanInv
<1>2. ~shape.failed /\ shape.depth = Len(open) /\ shape' = ShapeStart(shape, el)
  BY <1>1 DEF ScanInv, Phase, StartElement, RootsSeen
<1>3. PICK n : n = Fresh
  OBVIOUS
<1>4. /\ n \in Nat /\ n \notin Elements /\ Elements' = Elements \cup {n}
      /\ Elements = 1..Len(document) /\ Len(document) \in Nat /\ n = Len(document) + 1
      /\ document'[n].el = el
      /\ \A j \in Elements : document'[j] = document[j]
      /\ Len(open) \in Nat /\ Len(open') = Len(open) + 1
  BY <1>1, <1>3, StartFacts DEF Fresh
<1>5. /\ Roots' = Roots \cup (IF Len(open) = 0 THEN {n} ELSE {})
      /\ \A l : Assertions(l)' =
           Assertions(l) \cup (IF Len(open) = 1 /\ el.local = l /\ el.space = "saml" THEN {n} ELSE {})
  BY <1>1, <1>3, SetsGrow
<1>6. Roots \subseteq Elements /\ \A l : Assertions(l) \subseteq Elements
  BY MembersAlways DEF Members
<1>7. ShapeAfter(shape, el, shape')
  BY <1>1, <1>2, ShapeStartFacts
<1>8. RootsSeen'
  <2>1. \A r \in Roots : document'[r].el.local = "Response"
    BY <1>1, <1>2, <1>4, <1>6 DEF RootsSeen
  <2>2. CASE Len(open) = 0
    <3>1. Roots' = Roots \cup {n} /\ document'[n].el.local = el.local
      BY <2>2, <1>4, <1>5
    <3>2. CASE el.local = "Response"
      <4>1. ~shape'.failed /\ shape'.rootIsResponse /\ shape'.depth = Len(open')
        BY <3>2, <2>2, <1>4, <1>7, <1>2 DEF ShapeAfter
      <4>2. Roots' # {} /\ \A r \in Roots' : document'[r].el.local = "Response"
        BY <3>1, <3>2, <2>1
      <4> QED BY <4>1, <4>2 DEF RootsSeen
    <3>3. CASE el.local # "Response"
      <4>1. shape'.failed
        BY <3>3, <2>2, <1>7, <1>2 DEF ShapeAfter
      <4>2. \E r \in Roots' : document'[r].el.local # "Response"
        BY <3>1, <3>3
      <4> QED BY <4>1, <4>2 DEF RootsSeen
    <3> QED BY <3>2, <3>3
  <2>3. CASE Len(open) # 0
    <3>1. Roots' = Roots
      BY <2>3, <1>5
    <3>2. ~shape'.failed /\ (shape'.rootIsResponse <=> shape.rootIsResponse) /\ shape'.depth = Len(open')
      BY <2>3, <1>4, <1>7, <1>2 DEF ShapeAfter
    <3> QED BY <3>1, <3>2, <2>1, <1>1, <1>2 DEF RootsSeen
  <2> QED BY <2>2, <2>3
<1>9. ASSUME ~shape'.failed PROVE DestinationSeen'
  <2>1. \A i : i \in Stating <=> i \in Roots /\ document[i].el.destination # "none"
    BY DEF Stating
  <2>2. \A i : i \in Stating' <=> i \in Roots' /\ document'[i].el.destination # "none"
    BY DEF Stating
  <2>3. Stating' = Stating \cup (IF Len(open) = 0 /\ el.destination # "none" THEN {n} ELSE {})
    BY <2>1, <2>2, <1>4, <1>5, <1>6
  <2>4. CASE Len(open) = 0 /\ el.destination # "none"
    <3>1. Stating' = Stating \cup {n}
      BY <2>3, <2>4
    <3>2. shape'.hasDestinationAttr
      BY <2>4, <1>7, <1>9, <1>2 DEF ShapeAfter
    <3>3. shape'.destination = document'[n].el.destination
      BY <2>4, <1>4, <1>7, <1>9, <1>2 DEF ShapeAfter
    <3>4. \A i \in Stating' : i <= n
      <4>1. \A i \in Elements \cup {n} : i <= n
        BY <1>4
      <4> QED BY <4>1, <3>1, <2>1, <1>6
    <3> QED BY <3>1, <3>2, <3>3, <3>4 DEF DestinationSeen
  <2>5. CASE ~(Len(open) = 0 /\ el.destination # "none")
    <3>1. Stating' = Stating
      BY <2>3, <2>5
    <3>2. shape'.hasDestinationAttr <=> shape.hasDestinationAttr
      BY <2>5, <1>7, <1>9, <1>2 DEF ShapeAfter
    <3>3. shape'.destination = shape.destination
      BY <2>5, <1>7, <1>9, <1>2 DEF ShapeAfter
    <3>4. \A m \in Stating : document'[m] = document[m]
      BY <2>1, <1>4, <1>6
    <3>5. CASE shape.hasDestinationAttr
      <4>1. PICK m \in Stating : /\ shape.destination = document[m].el.destination
                                 /\ \A i \in Stating : i <= m
        BY <3>5, <1>1, <1>2 DEF DestinationSeen
      <4> QED BY <4>1, <3>1, <3>2, <3>3, <3>4, <3>5 DEF DestinationSeen
    <3>6. CASE ~shape.hasDestinationAttr
      <4>1. Stating = {}
        BY <3>6, <1>1, <1>2 DEF DestinationSeen
      <4> QED BY <4>1, <3>1, <3>2, <3>6 DEF DestinationSeen
    <3> QED BY <3>5, <3>6
  <2> QED BY <2>4, <2>5
<1>10. ASSUME ~shape'.failed PROVE AssertionsSeen'
  <2> DEFINE A == Assertions("Assertion")
             E == Assertions("EncryptedAssertion")
  <2>1. /\ shape.assertionCount = Cardinality(A \cup E)
        /\ shape.hasEncryptedAssertion <=> E # {}
    BY <1>1, <1>2 DEF AssertionsSeen
  <2>2. IsFiniteSet(A \cup E) /\ n \notin A \cup E
    BY <1>1, <1>4, <1>6, FiniteParts
  <2>3. /\ A' = A \cup (IF Len(open) = 1 /\ el.local = "Assertion" /\ el.space = "saml" THEN {n} ELSE {})
        /\ E' = E \cup (IF Len(open) = 1 /\ el.local = "EncryptedAssertion" /\ el.space = "saml"
                        THEN {n} ELSE {})
    BY <1>5
  <2> HIDE DEF A, E
  <2>4. CASE Len(open) = 1 /\ el.space = "saml" /\ el.local \in {"Assertion", "EncryptedAssertion"}
    <3>1. A' \cup E' = (A \cup E) \cup {n}
      BY <2>3, <2>4
    <3>2. Cardinality(A' \cup E') = Cardinality(A \cup E) + 1
      BY <3>1, <2>2, FS_AddElement
    <3>3. E' # {} <=> E # {} \/ el.local = "EncryptedAssertion"
      BY <2>3, <2>4
    <3>4. /\ shape'.assertionCount = shape.assertionCount + 1
          /\ shape'.hasEncryptedAssertion <=> shape.hasEncryptedAssertion \/ el.local = "EncryptedAssertion"
      BY <2>4, <1>7, <1>2 DEF ShapeAfter
    <3>5. /\ shape'.assertionCount = Cardinality(A' \cup E')
          /\ shape'.hasEncryptedAssertion <=> E' # {}
      BY <3>2, <3>3, <3>4, <2>1
    <3> QED BY <3>5 DEF AssertionsSeen, A, E
  <2>5. CASE ~(Len(open) = 1 /\ el.space = "saml" /\ el.local \in {"Assertion", "EncryptedAssertion"})
    <3>1. A' = A /\ E' = E
      BY <2>3, <2>5
    <3>2. /\ shape'.assertionCount = shape.assertionCount
          /\ shape'.hasEncryptedAssertion <=> shape.hasEncryptedAssertion
      BY <2>5, <1>7, <1>2 DEF ShapeAfter
    <3>3. /\ shape'.assertionCount = Cardinality(A' \cup E')
          /\ shape'.hasEncryptedAssertion <=> E' # {}
      BY <3>1, <3>2, <2>1
    <3> QED BY <3>3 DEF AssertionsSeen, A, E
  <2> QED BY <2>4, <2>5
<1>11. shape'.failed => DestinationSeen' /\ AssertionsSeen'
  BY DEF DestinationSeen, AssertionsSeen
<1> QED BY <1>7, <1>8, <1>9, <1>10, <1>11 DEF ShapeAfter
\* A start tag with a refused algorithm is noticed wherever it is.
LEMMA WeakStartStep ==
  ASSUME ScanInv, NEW el \in Tags, StartElement(el)
  PROVE  WeakSeen'
<1>1. TreeShape /\ WeakSeen /\ weak' = WeakStart(weak, el)
  BY DEF ScanInv, StartElement
<1>2. /\ Fresh \notin Elements /\ Elements' = Elements \cup {Fresh} /\ document'[Fresh].el = el
      /\ \A j \in Elements : document'[j] = document[j]
  BY <1>1, StartFacts
<1>3. (\E i \in Elements' : Refused(document'[i].el)) <=>
        (\E i \in Elements : Refused(document[i].el)) \/ Refused(el)
  BY <1>2
<1>4. weak' \in BOOLEAN /\ (weak' <=> weak \/ Refused(el))
  BY <1>1 DEF WeakSeen, WeakStart
<1> QED BY <1>1, <1>3, <1>4 DEF WeakSeen

-----------------------------------------------------------------------------
\* What the body of validatePlaintextIdentityShape does for a start tag.
BeginsAssertion(id, el) == Len(id.stack) = 1 /\ Name(el) = AssertionName
InAssertion(id) == Len(id.stack) >= 2 /\ id.stack[2] = AssertionName
IsIssuer(id, el) == InAssertion(id) /\ Len(id.stack) = 2 /\ el.local = "Issuer"
IsSubject(id, el) == InAssertion(id) /\ Len(id.stack) = 2 /\ el.local = "Subject"
IsNameID(id, el) ==
  InAssertion(id) /\ Len(id.stack) = 3 /\ id.stack[3].local = "Subject" /\ el.local = "NameID"

IdentityAfter(id, el, r) ==
  /\ r \in Identities
  /\ r.stack = Append(id.stack, Name(el))
  /\ BeginsAssertion(id, el) => r.issuers = 0 /\ r.subjects = 0 /\ r.names = 0
  /\ ~BeginsAssertion(id, el) =>
       /\ r.issuers = IF IsIssuer(id, el) THEN id.issuers + 1 ELSE id.issuers
       /\ r.subjects = IF IsSubject(id, el) THEN id.subjects + 1 ELSE id.subjects
       /\ r.names = IF IsNameID(id, el) THEN id.names + 1 ELSE id.names
  /\ r.failed <=> \/ IsIssuer(id, el) /\ ~OnlyOne(el, r.issuers)
                  \/ IsSubject(id, el) /\ ~OnlyOne(el, r.subjects)
                  \/ IsNameID(id, el) /\ ~OnlyOne(el, r.names)

LEMMA IdentityStartFacts ==
  ASSUME NEW id \in Identities, ~id.failed, NEW el \in Tags, NEW r, r = IdentityStart(id, el)
  PROVE  IdentityAfter(id, el, r)
<1> DEFINE next == [id EXCEPT !.stack = Append(@, Name(el))]
           pushed == IdentityReset(next)
           m == Len(id.stack)
<1>1. id.stack \in Seq(TagNames) /\ Name(el) \in TagNames /\ m \in Nat
  BY LenProperties DEF Identities, TagNames
<1>2. /\ Append(id.stack, Name(el)) \in Seq(TagNames)
      /\ Len(Append(id.stack, Name(el))) = m + 1
      /\ \A k \in 1..m : Append(id.stack, Name(el))[k] = id.stack[k]
      /\ Append(id.stack, Name(el))[m + 1] = Name(el)
  BY <1>1, AppendProperties
<1>3. /\ next \in Identities /\ next.stack = Append(id.stack, Name(el)) /\ next.failed = id.failed
      /\ next.issuers = id.issuers /\ next.subjects = id.subjects /\ next.names = id.names
  BY <1>2 DEF Identities
<1>4. /\ Len(next.stack) = m + 1
      /\ m >= 1 => (next.stack[2] = AssertionName <=> IF m = 1 THEN Name(el) = AssertionName
                                                      ELSE id.stack[2] = AssertionName)
      /\ m >= 3 => next.stack[3] = id.stack[3]
  <2>1. /\ Len(next.stack) = m + 1 /\ next.stack[m + 1] = Name(el)
        /\ \A k \in 1..m : next.stack[k] = id.stack[k]
    BY <1>2, <1>3
  <2> HIDE DEF next, m
  <2>2. m = 1 => next.stack[2] = Name(el)
    BY <2>1
  <2>3. m >= 2 => next.stack[2] = id.stack[2]
    BY <2>1, <1>1
  <2>4. m >= 3 => next.stack[3] = id.stack[3]
    BY <2>1, <1>1
  <2>5. m >= 1 => m = 1 \/ m >= 2
    BY <1>1
  <2> QED BY <2>1, <2>2, <2>3, <2>4, <2>5
<1>5. r = IF m >= 2 /\ pushed.stack[2] = AssertionName THEN IdentityInside(pushed, el) ELSE pushed
  <2>1. Len(pushed.stack) = m + 1
    BY <1>3, <1>4 DEF IdentityReset, Identities
  <2>2. r = CASE Len(pushed.stack) >= 3 /\ pushed.stack[2] = AssertionName -> IdentityInside(pushed, el)
              [] OTHER -> pushed
    BY DEF IdentityStart
  <2> HIDE DEF pushed, m
  <2> QED BY <2>1, <2>2, <1>1
<1> HIDE DEF next, m
<1>6. CASE BeginsAssertion(id, el)
  <2>1. m = 1 /\ Len(next.stack) = 2 /\ next.stack[2] = AssertionName
    BY <1>4, <1>6 DEF BeginsAssertion, m
  <2>2. r = [next EXCEPT !.issuers = 0, !.subjects = 0, !.names = 0]
    BY <2>1, <1>5 DEF IdentityReset
  <2>3. r = [stack |-> next.stack, issuers |-> 0, subjects |-> 0, names |-> 0, failed |-> next.failed]
    BY <2>2, <1>3 DEF Identities
  <2>4. next.stack \in Seq(TagNames) /\ next.failed \in BOOLEAN
    BY <1>3 DEF Identities
  <2>5. /\ r \in Identities /\ r.stack = next.stack /\ r.failed = next.failed
        /\ r.issuers = 0 /\ r.subjects = 0 /\ r.names = 0
    BY <2>3, <2>4 DEF Identities
  <2>6. ~InAssertion(id)
    BY <2>1 DEF InAssertion, m
  <2> QED BY <2>5, <2>6, <1>3, <1>6 DEF IdentityAfter, IsIssuer, IsSubject, IsNameID
<1>7. CASE ~BeginsAssertion(id, el)
  <2>1. pushed = next
    <3>1. ~(Len(next.stack) = 2 /\ next.stack[2] = AssertionName)
      <4>1. \A k \in Nat : k + 1 = 2 => k = 1
        OBVIOUS
      <4>2. Len(next.stack) = 2 => m = 1
        BY <4>1, <1>1, <1>4
      <4> QED BY <4>2, <1>4, <1>7 DEF BeginsAssertion, m
    <3> QED BY <3>1 DEF IdentityReset
  <2>2. CASE ~InAssertion(id)
    <3>1. r = next
      BY <2>1, <2>2, <1>1, <1>4, <1>5 DEF InAssertion, m
    <3> QED BY <3>1, <2>2, <1>3, <1>7 DEF IdentityAfter, IsIssuer, IsSubject, IsNameID
  <2>3. CASE InAssertion(id)
    <3>1. m >= 2 /\ next.stack[2] = AssertionName
      BY <2>3, <1>1, <1>4 DEF InAssertion, m
    <3>2. r = IdentityInside(next, el)
      BY <2>1, <3>1, <1>5
    <3> DEFINE counted == [next EXCEPT !.issuers = IF IsIssuer(id, el) THEN @ + 1 ELSE @,
                                       !.subjects = IF IsSubject(id, el) THEN @ + 1 ELSE @,
                                       !.names = IF IsNameID(id, el) THEN @ + 1 ELSE @]
               bad == \/ IsIssuer(id, el) /\ ~OnlyOne(el, counted.issuers)
                      \/ IsSubject(id, el) /\ ~OnlyOne(el, counted.subjects)
                      \/ IsNameID(id, el) /\ ~OnlyOne(el, counted.names)
    <3>3. Len(next.stack) = 3 <=> Len(id.stack) = 2
      <4>1. \A k \in Nat : k + 1 = 3 <=> k = 2
        OBVIOUS
      <4> QED BY <4>1, <1>1, <1>4 DEF m
    <3>4. Len(next.stack) = 4 <=> Len(id.stack) = 3
      <4>1. \A k \in Nat : k + 1 = 4 <=> k = 3
        OBVIOUS
      <4> QED BY <4>1, <1>1, <1>4 DEF m
    <3>5. Len(id.stack) = 3 => next.stack[3] = id.stack[3]
      BY <1>4 DEF m
    <3>6. /\ (Len(next.stack) = 3 /\ el.local = "Issuer") <=> IsIssuer(id, el)
          /\ (Len(next.stack) = 3 /\ el.local = "Subject") <=> IsSubject(id, el)
          /\ (Len(next.stack) = 4 /\ next.stack[3].local = "Subject" /\ el.local = "NameID")
               <=> IsNameID(id, el)
      BY <2>3, <3>3, <3>4, <3>5 DEF IsIssuer, IsSubject, IsNameID
    <3>7. r = [counted EXCEPT !.failed = bad]
      BY <3>2, <3>6 DEF IdentityInside
    <3>8. counted = [stack |-> next.stack, failed |-> next.failed,
                     issuers |-> IF IsIssuer(id, el) THEN id.issuers + 1 ELSE id.issuers,
                     subjects |-> IF IsSubject(id, el) THEN id.subjects + 1 ELSE id.subjects,
                     names |-> IF IsNameID(id, el) THEN id.names + 1 ELSE id.names]
      <4> DEFINE i == IF IsIssuer(id, el) THEN id.issuers + 1 ELSE id.issuers
                 s == IF IsSubject(id, el) THEN id.subjects + 1 ELSE id.subjects
                 n == IF IsNameID(id, el) THEN id.names + 1 ELSE id.names
      <4>1. counted = [next EXCEPT !.issuers = i, !.subjects = s, !.names = n]
        BY <1>3
      <4> HIDE DEF i, s, n, counted
      <4>2. counted = [stack |-> next.stack, failed |-> next.failed, issuers |-> i, subjects |-> s, names |-> n]
        BY <4>1, <1>3 DEF Identities
      <4> QED BY <4>2 DEF i, s, n
    <3>9. /\ next.stack \in Seq(TagNames) /\ next.failed \in BOOLEAN
          /\ id.issuers \in Nat /\ id.subjects \in Nat /\ id.names \in Nat
      BY <1>3 DEF Identities
    <3>10. /\ counted \in Identities /\ counted.stack = next.stack
           /\ counted.issuers = IF IsIssuer(id, el) THEN id.issuers + 1 ELSE id.issuers
           /\ counted.subjects = IF IsSubject(id, el) THEN id.subjects + 1 ELSE id.subjects
           /\ counted.names = IF IsNameID(id, el) THEN id.names + 1 ELSE id.names
      <4> HIDE DEF counted
      <4> QED BY <3>8, <3>9 DEF Identities
    <3>11. bad \in BOOLEAN
      OBVIOUS
    <3> HIDE DEF counted, bad
    <3>12. /\ r \in Identities /\ r.stack = counted.stack /\ r.issuers = counted.issuers
           /\ r.subjects = counted.subjects /\ r.names = counted.names
      BY <3>7, <3>10, <3>11 DEF Identities
    <3>13. r.failed = bad
      BY <3>7, <3>10 DEF Identities
    <3>14. r.failed <=> \/ IsIssuer(id, el) /\ ~OnlyOne(el, r.issuers)
                        \/ IsSubject(id, el) /\ ~OnlyOne(el, r.subjects)
                        \/ IsNameID(id, el) /\ ~OnlyOne(el, r.names)
      BY <3>12, <3>13 DEF bad
    <3> QED BY <3>10, <3>12, <3>14, <1>3, <1>7 DEF IdentityAfter
  <2> QED BY <2>2, <2>3
<1> QED BY <1>6, <1>7
-----------------------------------------------------------------------------
\* One more, or not, of what is counted.
LEMMA PartGrows ==
  ASSUME NEW S, NEW T, NEW n, n \notin S, NEW c \in Nat, NEW c2, NEW grows \in BOOLEAN,
         T = S \cup (IF grows THEN {n} ELSE {}), Counted(S, c), c2 = IF grows THEN c + 1 ELSE c
  PROVE  /\ (grows => c2 = 1) => Counted(T, c2)
         /\ grows /\ c2 # 1 => ~AtMostOne(T)
<1>1. CASE grows
  <2>1. T = S \cup {n} /\ c2 = c + 1
    BY <1>1
  <2>2. c2 = 1 => c = 0
    BY <2>1
  <2>3. c = 0 <=> S = {}
    BY DEF Counted
  <2>4. S = {} => AtMostOne(T) /\ T # {}
    BY <2>1 DEF AtMostOne
  <2>5. S # {} => ~AtMostOne(T)
    BY <2>1 DEF AtMostOne
  <2>6. c2 = 1 => Counted(T, c2)
    BY <2>2, <2>3, <2>4 DEF Counted
  <2>7. c2 # 1 => c # 0
    BY <2>1
  <2> QED BY <2>3, <2>5, <2>6, <2>7, <1>1
<1>2. CASE ~grows
  BY <1>2
<1> QED BY <1>1, <1>2

\* Which assertion is open does not change as long as it is open, and what is
\* in its parts stays as it is.
LEMMA StartKeeps ==
  ASSUME TreeShape, NEW el \in Tags, StartElement(el), NEW n, n = Fresh
  PROVE  /\ \A a \in Elements : Inside(a)' <=> Inside(a)
         /\ Inside(n)' <=> Len(open) = 1
         /\ \A j \in Elements : IsSaml(j)' <=> IsSaml(j)
         /\ IsSaml(n)' <=> el.space = "saml"
         /\ \A a : Parts(a) \subseteq Elements
<1>1. /\ n \notin Elements /\ document'[n].el = el
      /\ \A j \in Elements : document'[j] = document[j]
      /\ Len(open) \in Nat /\ Len(open') = Len(open) + 1
      /\ \A k \in 1..Len(open) : open'[k] = open[k] /\ open[k] \in Elements
      /\ open'[Len(open) + 1] = n
  BY StartFacts DEF TreeShape
<1>2. Len(open') >= 2 <=> Len(open) >= 1
  <2>1. \A k \in Nat : k + 1 >= 2 <=> k >= 1
    OBVIOUS
  <2> QED BY <2>1, <1>1
<1>3. Len(open) >= 1 <=> Len(open) = 1 \/ Len(open) >= 2
  <2>1. \A k \in Nat : k >= 1 <=> k = 1 \/ k >= 2
    OBVIOUS
  <2> QED BY <2>1, <1>1
<1>4. Len(open) = 1 => open'[2] = n
  <2>1. Len(open) = 1 => Len(open) + 1 = 2
    OBVIOUS
  <2> QED BY <2>1, <1>1
<1>5. Len(open) >= 2 => open'[2] = open[2] /\ open[2] \in Elements
  <2>1. \A k \in Nat : k >= 2 => 2 \in 1..k
    OBVIOUS
  <2> QED BY <2>1, <1>1
<1>6. ~(Len(open) = 1 /\ Len(open) >= 2)
  <2>1. \A k \in Nat : ~(k = 1 /\ k >= 2)
    OBVIOUS
  <2> QED BY <2>1, <1>1
<1>7. \A a \in Elements : Inside(a)' <=> Inside(a)
  BY <1>1, <1>2, <1>3, <1>4, <1>5, <1>6 DEF Inside
<1>8. Inside(n)' <=> Len(open) = 1
  BY <1>1, <1>2, <1>3, <1>4, <1>5, <1>6 DEF Inside
<1>9. \A a : Parts(a) \subseteq Elements
  BY MembersAlways DEF Members, Parts
<1> QED BY <1>1, <1>7, <1>8, <1>9 DEF IsSaml
\* What is spoilt stays spoilt.
LEMMA SpoiltGrows ==
  ASSUME TreeShape, NEW el \in Tags, StartElement(el),
         NEW a \in Assertions("Assertion"), Spoilt(a)
  PROVE  a \in Assertions("Assertion")' /\ Spoilt(a)'
<1>1. PICK n : n = Fresh
  OBVIOUS
<1>2. a \in Elements /\ (Above = a => Inside(a))
  BY PathFacts
<1>3. a \in Assertions("Assertion")'
  BY <1>1, SetsGrow
<1>4. /\ Issuers(a) \subseteq Issuers(a)' /\ Subjects(a) \subseteq Subjects(a)'
      /\ NameIDs(a) \subseteq NameIDs(a)' /\ (Issuers(a) = {} /\ ~Inside(a) => Issuers(a)' = {})
  BY <1>1, <1>2, SetsGrow
<1>5. Parts(a) \subseteq Parts(a)'
  BY <1>4 DEF Parts
<1>6. ~Clean(a) => ~Clean(a)'
  BY <1>1, <1>5, StartKeeps DEF Clean
<1>7. Inside(a)' <=> Inside(a)
  BY <1>1, <1>2, StartKeeps
<1>8. \A S, T : S \subseteq T /\ ~AtMostOne(S) => ~AtMostOne(T)
  BY DEF AtMostOne
<1>9. CASE ~AtMostOne(Issuers(a)) \/ ~AtMostOne(Subjects(a)) \/ ~AtMostOne(NameIDs(a))
  <2>1. ~AtMostOne(Issuers(a)') \/ ~AtMostOne(Subjects(a)') \/ ~AtMostOne(NameIDs(a)')
    BY <1>4, <1>8, <1>9
  <2> QED BY <2>1, <1>3 DEF Spoilt, AtMostOne
<1>10. CASE ~Clean(a)
  BY <1>3, <1>6, <1>10 DEF Spoilt
<1>11. CASE Issuers(a) = {} /\ ~Inside(a)
  BY <1>3, <1>4, <1>7, <1>11 DEF Spoilt
<1> QED BY <1>9, <1>10, <1>11 DEF Spoilt

LEMMA InAssertionIsInside ==
  ASSUME TreeShape, StackSeen
  PROVE  /\ InAssertion(ident) => open[2] \in Assertions("Assertion") /\ Inside(open[2])
         /\ \A a \in Assertions("Assertion") : Inside(a) => InAssertion(ident)
<1>1. Len(open) \in Nat
  BY LenProperties DEF TreeShape
<1>2. ASSUME Len(open) >= 2
      PROVE  /\ ident.stack[2] = Name(document[open[2]].el)
             /\ open[2] \in Elements /\ open[1] \in Elements
             /\ document[open[1]].parent = 0 /\ document[open[2]].parent = open[1]
  <2>1. \A k \in Nat : k >= 2 => 1 \in 1..k /\ 2 \in 1..k
    OBVIOUS
  <2>2. 1 \in 1..Len(open) /\ 2 \in 1..Len(open)
    BY <2>1, <1>1, <1>2
  <2> QED BY <2>2 DEF TreeShape, StackSeen
<1>3. \A t : Name(t) = AssertionName <=> t.space = "saml" /\ t.local = "Assertion"
  BY DEF Name, AssertionName
<1>4. ASSUME InAssertion(ident) PROVE open[2] \in Assertions("Assertion") /\ Inside(open[2])
  <2>1. Len(open) >= 2 /\ ident.stack[2] = AssertionName
    BY <1>4 DEF InAssertion, StackSeen
  <2>2. open[1] \in Roots
    BY <2>1, <1>2, MembersAlways DEF Members
  <2>3. document[open[2]].el.space = "saml" /\ document[open[2]].el.local = "Assertion"
    BY <2>1, <1>2, <1>3
  <2> QED BY <2>1, <2>2, <2>3, <1>2, MembersAlways DEF Members, Inside
<1>5. ASSUME NEW a \in Assertions("Assertion"), Inside(a) PROVE InAssertion(ident)
  <2>1. Len(open) >= 2 /\ open[2] = a
    BY <1>5 DEF Inside
  <2>2. document[a].el.space = "saml" /\ document[a].el.local = "Assertion"
    BY MembersAlways DEF Members
  <2> QED BY <2>1, <2>2, <1>2, <1>3 DEF InAssertion, StackSeen
<1> QED BY <1>4, <1>5
\* A start tag in an assertion that is open: the scan either counts it or has
\* found what spoils the assertion.
LEMMA InsideGrows ==
  ASSUME TreeShape, StackSeen, ident \in Identities, ~ident.failed,
         NEW el \in Tags, StartElement(el), IdentityAfter(ident, el, ident'),
         NEW a \in Assertions("Assertion"), Inside(a), Clean(a), CountedSoFar(a)
  PROVE  IF ident'.failed THEN Spoilt(a)' ELSE Clean(a)' /\ CountedSoFar(a)'
<1>1. PICK n : n = Fresh
  OBVIOUS
<1>2. /\ a \in Elements /\ n \notin Elements /\ InAssertion(ident) /\ Len(ident.stack) = Len(open)
      /\ Len(open) >= 2 /\ Len(open) \in Nat
  BY <1>1, PathFacts, StartFacts, InAssertionIsInside DEF StackSeen, Inside
<1>3. /\ IsIssuer(ident, el) \in BOOLEAN /\ IsSubject(ident, el) \in BOOLEAN
      /\ IsNameID(ident, el) \in BOOLEAN
  BY DEF IsIssuer, IsSubject, IsNameID
<1>4. /\ IsIssuer(ident, el) <=> Above = a /\ el.local = "Issuer"
      /\ IsSubject(ident, el) <=> Above = a /\ el.local = "Subject"
  BY <1>2, PathFacts DEF IsIssuer, IsSubject
<1>5. IsNameID(ident, el) <=> Above \in Subjects(a) /\ el.local = "NameID"
  <2>1. Len(open) = 3 => ident.stack[3].local = document[open[3]].el.local
    <3>1. \A k \in Nat : k = 3 => 3 \in 1..k
      OBVIOUS
    <3>2. Len(open) = 3 => ident.stack[3] = Name(document[open[3]].el)
      BY <3>1, <1>2 DEF StackSeen
    <3> QED BY <3>2 DEF Name
  <2> QED BY <2>1, <1>2, PathFacts DEF IsNameID
<1>6. /\ Issuers(a)' = Issuers(a) \cup (IF IsIssuer(ident, el) THEN {n} ELSE {})
      /\ Subjects(a)' = Subjects(a) \cup (IF IsSubject(ident, el) THEN {n} ELSE {})
      /\ NameIDs(a)' = NameIDs(a) \cup (IF IsNameID(ident, el) THEN {n} ELSE {})
  BY <1>1, <1>2, <1>4, <1>5, SetsGrow
<1>7. /\ ident'.issuers = IF IsIssuer(ident, el) THEN ident.issuers + 1 ELSE ident.issuers
      /\ ident'.subjects = IF IsSubject(ident, el) THEN ident.subjects + 1 ELSE ident.subjects
      /\ ident'.names = IF IsNameID(ident, el) THEN ident.names + 1 ELSE ident.names
  <2>1. ~BeginsAssertion(ident, el)
    <3>1. \A k \in Nat : k >= 2 => k # 1
      OBVIOUS
    <3> QED BY <3>1, <1>2 DEF BeginsAssertion
  <2> QED BY <2>1 DEF IdentityAfter
<1>8. /\ n \notin Issuers(a) /\ n \notin Subjects(a) /\ n \notin NameIDs(a)
      /\ ident.issuers \in Nat /\ ident.subjects \in Nat /\ ident.names \in Nat
  BY <1>2, MembersAlways DEF Members, Identities
<1>9. /\ (IsIssuer(ident, el) => ident'.issuers = 1) => Counted(Issuers(a)', ident'.issuers)
      /\ IsIssuer(ident, el) /\ ident'.issuers # 1 => ~AtMostOne(Issuers(a)')
  BY <1>3, <1>6, <1>7, <1>8, PartGrows DEF CountedSoFar
<1>10. /\ (IsSubject(ident, el) => ident'.subjects = 1) => Counted(Subjects(a)', ident'.subjects)
       /\ IsSubject(ident, el) /\ ident'.subjects # 1 => ~AtMostOne(Subjects(a)')
  <2>1. Counted(Subjects(a), ident.subjects) /\ n \notin Subjects(a) /\ ident.subjects \in Nat
    BY <1>8 DEF CountedSoFar
  <2>2. Subjects(a)' = Subjects(a) \cup (IF IsSubject(ident, el) THEN {n} ELSE {})
    BY <1>6
  <2>3. ident'.subjects = IF IsSubject(ident, el) THEN ident.subjects + 1 ELSE ident.subjects
    BY <1>7
  <2> QED BY <2>1, <2>2, <2>3, <1>3, PartGrows
<1>11. /\ (IsNameID(ident, el) => ident'.names = 1) => Counted(NameIDs(a)', ident'.names)
       /\ IsNameID(ident, el) /\ ident'.names # 1 => ~AtMostOne(NameIDs(a)')
  BY <1>3, <1>6, <1>7, <1>8, PartGrows DEF CountedSoFar
<1>12. /\ \A j \in Parts(a) : IsSaml(j)'
       /\ IsSaml(n)' <=> el.space = "saml"
  BY <1>1, StartKeeps DEF Clean
<1>13. \A j : j \in Parts(a)' <=>
               j \in Parts(a) \/ (j = n /\ (IsIssuer(ident, el) \/ IsSubject(ident, el) \/ IsNameID(ident, el)))
  BY <1>6 DEF Parts
<1>14. CASE ident'.failed
  <2>1. \/ IsIssuer(ident, el) /\ ~OnlyOne(el, ident'.issuers)
        \/ IsSubject(ident, el) /\ ~OnlyOne(el, ident'.subjects)
        \/ IsNameID(ident, el) /\ ~OnlyOne(el, ident'.names)
    BY <1>14 DEF IdentityAfter
  <2>2. CASE el.space # "saml"
    <3>1. n \in Parts(a)' /\ ~IsSaml(n)'
      BY <2>1, <2>2, <1>12, <1>13
    <3>2. ~Clean(a)'
      BY <3>1 DEF Clean
    <3> QED BY <3>2, <1>14 DEF Spoilt
  <2>3. CASE el.space = "saml"
    <3>1. ~AtMostOne(Issuers(a)') \/ ~AtMostOne(Subjects(a)') \/ ~AtMostOne(NameIDs(a)')
      BY <2>1, <2>3, <1>9, <1>10, <1>11 DEF OnlyOne
    <3> QED BY <3>1, <1>14 DEF Spoilt, AtMostOne
  <2> QED BY <2>2, <2>3
<1>15. CASE ~ident'.failed
  <2>1. /\ IsIssuer(ident, el) => OnlyOne(el, ident'.issuers)
        /\ IsSubject(ident, el) => OnlyOne(el, ident'.subjects)
        /\ IsNameID(ident, el) => OnlyOne(el, ident'.names)
    BY <1>15 DEF IdentityAfter
  <2>2. /\ Counted(Issuers(a)', ident'.issuers) /\ Counted(Subjects(a)', ident'.subjects)
        /\ Counted(NameIDs(a)', ident'.names)
    BY <2>1, <1>9, <1>10, <1>11 DEF OnlyOne
  <2>3. \A j \in Parts(a)' : IsSaml(j)'
    BY <2>1, <1>12, <1>13 DEF OnlyOne
  <2> QED BY <2>2, <2>3, <1>15 DEF CountedSoFar, Counted, AtMostOne, Clean
<1> QED BY <1>14, <1>15

\* A start tag keeps what validatePlaintextIdentityShape knows true to the tree.
LEMMA IdentityStartStep ==
  ASSUME ScanInv, NEW el \in Tags, StartElement(el)
  PROVE  ident' \in Identities /\ IdentitySeen'
<1>1. TreeShape /\ ident \in Identities /\ IdentitySeen /\ ending = "none" /\ ending' = ending
  BY DEF ScanInv, Phase, StartElement
<1>2. ident' = IdentityStart(ident, el)
  BY DEF StartElement
<1>3. CASE ident.failed
  <2>1. ident' = ident
    BY <1>2, <1>3 DEF IdentityStart
  <2>2. PICK a \in Assertions("Assertion") : Spoilt(a)
    BY <1>1, <1>3 DEF IdentitySeen
  <2>3. a \in Assertions("Assertion")' /\ Spoilt(a)'
    BY <2>2, <1>1, SpoiltGrows
  <2> QED BY <2>1, <2>3, <1>1, <1>3 DEF IdentitySeen
<1>4. CASE ~ident.failed
  <2>1. IdentityAfter(ident, el, ident')
    BY <1>1, <1>2, <1>4, IdentityStartFacts
  <2>2. StackSeen /\ \A a \in Assertions("Assertion") :
                        Clean(a) /\ IF Inside(a) THEN CountedSoFar(a) ELSE Sound(a)
    BY <1>1, <1>4 DEF IdentitySeen
  <2>3. PICK n : n = Fresh
    OBVIOUS
  <2>4. /\ n \notin Elements /\ document'[n].el = el
        /\ \A j \in Elements : document'[j] = document[j]
        /\ Len(open) \in Nat /\ Len(open') = Len(open) + 1
        /\ \A k \in 1..Len(open) : open'[k] = open[k] /\ open[k] \in Elements
        /\ open'[Len(open) + 1] = n
    BY <2>3, <1>1, StartFacts DEF TreeShape
  <2>5. StackSeen'
    <3>1. /\ Len(ident'.stack) = Len(open) + 1
          /\ \A k \in 1..Len(open) : ident'.stack[k] = ident.stack[k]
          /\ ident'.stack[Len(open) + 1] = Name(el)
      <4>1. ident.stack \in Seq(TagNames) /\ Name(el) \in TagNames
        BY <1>1 DEF Identities, TagNames
      <4> QED BY <4>1, <2>1, <2>2, AppendProperties DEF IdentityAfter, StackSeen
    <3>2. ASSUME NEW k \in 1..(Len(open) + 1)
          PROVE  ident'.stack[k] = Name(document'[open'[k]].el)
      <4>1. CASE k = Len(open) + 1
        BY <4>1, <3>1, <2>4
      <4>2. CASE k \in 1..Len(open)
        BY <4>2, <3>1, <2>2, <2>4 DEF StackSeen
      <4>3. \A d \in Nat : \A i \in 1..(d + 1) : i = d + 1 \/ i \in 1..d
        OBVIOUS
      <4> QED BY <4>1, <4>2, <4>3, <2>4
    <3> QED BY <3>1, <3>2, <2>4 DEF StackSeen
  <2>6. \A a \in Assertions("Assertion") : a \in Elements
    BY MembersAlways DEF Members
  <2>7. Assertions("Assertion")' =
          Assertions("Assertion") \cup (IF BeginsAssertion(ident, el) THEN {n} ELSE {})
    <3>1. Name(el) = AssertionName <=> el.local = "Assertion" /\ el.space = "saml"
      BY DEF Name, AssertionName
    <3>2. BeginsAssertion(ident, el) <=> Len(open) = 1 /\ el.local = "Assertion" /\ el.space = "saml"
      BY <3>1, <2>2 DEF BeginsAssertion, StackSeen
    <3> QED BY <3>2, <2>3, <1>1, SetsGrow
  <2>8. ASSUME NEW a \in Assertions("Assertion"), ~ident'.failed
        PROVE  Clean(a)' /\ IF Inside(a)' THEN CountedSoFar(a)' ELSE Sound(a)'
    <3>1. Inside(a)' <=> Inside(a)
      BY <2>3, <2>6, <1>1, StartKeeps
    <3>2. CASE Inside(a)
      BY <3>1, <3>2, <2>1, <2>2, <2>8, <1>1, <1>4, InsideGrows
    <3>3. CASE ~Inside(a)
      <4>1. Above # a /\ Above \notin Subjects(a)
        BY <3>3, <1>1, PathFacts
      <4>2. Issuers(a)' = Issuers(a) /\ Subjects(a)' = Subjects(a) /\ NameIDs(a)' = NameIDs(a)
        <5>1. /\ Issuers(a)' =
                   Issuers(a) \cup (IF Above = a /\ el.local = "Issuer" THEN {n} ELSE {})
              /\ Subjects(a)' =
                   Subjects(a) \cup (IF Above = a /\ el.local = "Subject" THEN {n} ELSE {})
              /\ NameIDs(a)' =
                   NameIDs(a) \cup (IF Above \in Subjects(a) /\ el.local = "NameID" THEN {n} ELSE {})
          BY <2>3, <2>6, <1>1, SetsGrow
        <5> QED BY <4>1, <5>1
      <4>3. \A j \in Parts(a) : IsSaml(j)'
        BY <2>2, <2>3, <1>1, StartKeeps DEF Clean
      <4>4. Clean(a)'
        BY <4>2, <4>3 DEF Clean, Parts
      <4>5. Sound(a)'
        BY <4>2, <3>3, <2>2 DEF Sound, AtMostOne
      <4> QED BY <4>4, <4>5, <3>1, <3>3
    <3> QED BY <3>2, <3>3
  <2>9. ASSUME BeginsAssertion(ident, el)
        PROVE  Clean(n)' /\ Inside(n)' /\ CountedSoFar(n)'
    <3>1. Issuers(n)' = {} /\ Subjects(n)' = {} /\ NameIDs(n)' = {}
      BY <2>3, <1>1, SetsGrow
    <3>2. Inside(n)'
      BY <2>2, <2>3, <2>9, <1>1, StartKeeps DEF BeginsAssertion, StackSeen
    <3>3. ident'.issuers = 0 /\ ident'.subjects = 0 /\ ident'.names = 0
      BY <2>1, <2>9 DEF IdentityAfter
    <3>4. Counted(Issuers(n), ident.issuers)' /\ Counted(Subjects(n), ident.subjects)'
          /\ Counted(NameIDs(n), ident.names)'
      BY <3>1, <3>3 DEF Counted, AtMostOne
    <3>5. Parts(n)' = {}
      BY <3>1 DEF Parts
    <3> QED BY <3>2, <3>4, <3>5 DEF CountedSoFar, Clean
  <2>10. CASE ident'.failed
    <3>1. IsIssuer(ident, el) \/ IsSubject(ident, el) \/ IsNameID(ident, el)
      BY <2>1, <2>10 DEF IdentityAfter
    <3>2. PICK a : a = open[2]
      OBVIOUS
    <3>3. a \in Assertions("Assertion") /\ Inside(a)
      BY <3>1, <3>2, <2>2, <1>1, InAssertionIsInside DEF IsIssuer, IsSubject, IsNameID
    <3>4. Spoilt(a)'
      BY <3>3, <2>1, <2>2, <2>10, <1>1, <1>4, InsideGrows
    <3>5. a \in Assertions("Assertion")'
      BY <3>3, <2>7
    <3> QED BY <3>4, <3>5, <2>1, <2>10 DEF IdentitySeen, IdentityAfter
  <2>11. CASE ~ident'.failed
    <3>1. \A a \in Assertions("Assertion")' :
             Clean(a)' /\ IF Inside(a)' THEN CountedSoFar(a)' ELSE Sound(a)'
      BY <2>7, <2>8, <2>9, <2>11
    <3>2. ending' # "error"
      BY <1>1
    <3> QED BY <3>1, <3>2, <2>1, <2>5, <2>11 DEF IdentitySeen, IdentityAfter
  <2> QED BY <2>10, <2>11
<1> QED BY <1>3, <1>4
-----------------------------------------------------------------------------
\* The other tokens leave the tree alone.
SameTree ==
  /\ Elements' = Elements /\ Roots' = Roots /\ Stating' = Stating
  /\ \A l : Assertions(l)' = Assertions(l)
  /\ \A a : /\ Issuers(a)' = Issuers(a) /\ Subjects(a)' = Subjects(a)
            /\ NameIDs(a)' = NameIDs(a) /\ Parts(a)' = Parts(a)
            /\ Clean(a)' <=> Clean(a)

LEMMA TreeKept ==
  ASSUME document' = document
  PROVE  SameTree
<1>1. Elements' = Elements
  BY DEF Elements
<1>2. \A i : Children(i)' = Children(i)
  BY <1>1 DEF Children
<1>3. Roots' = Roots
  BY <1>2 DEF Roots
<1>4. ASSUME NEW a
      PROVE  Issuers(a)' = Issuers(a) /\ Subjects(a)' = Subjects(a) /\ NameIDs(a)' = NameIDs(a)
  <2>1. \A j : j \in Issuers(a)' <=> j \in Issuers(a)
    BY <1>1, MembersAlways, MembersNext DEF Members
  <2>2. \A j : j \in Subjects(a)' <=> j \in Subjects(a)
    BY <1>1, MembersAlways, MembersNext DEF Members
  <2>3. \A j : j \in NameIDs(a)' <=> j \in NameIDs(a)
    BY <2>2, <1>1, MembersAlways, MembersNext DEF Members
  <2> QED BY <2>1, <2>2, <2>3
<1>5. ASSUME NEW l PROVE Assertions(l)' = Assertions(l)
  <2>1. \A j : j \in Assertions(l)' <=> j \in Assertions(l)
    BY <1>1, <1>3, MembersAlways, MembersNext DEF Members
  <2> QED BY <2>1
<1>6. ASSUME NEW a PROVE Parts(a)' = Parts(a)
  BY <1>4 DEF Parts
<1>7. ASSUME NEW a PROVE Clean(a)' <=> Clean(a)
  BY <1>6 DEF Clean, IsSaml
<1>8. Stating' = Stating
  BY <1>3 DEF Stating
<1> QED BY <1>1, <1>3, <1>4, <1>5, <1>6, <1>7, <1>8 DEF SameTree

LEMMA EndFacts ==
  ASSUME TreeShape, EndElement
  PROVE  /\ Len(open) \in Nat \ {0} /\ Len(open') = Len(open) - 1
         /\ \A k \in 1..(Len(open) - 1) : open'[k] = open[k]
         /\ \A a : Inside(a)' <=> Inside(a) /\ Len(open) # 2
         /\ TreeShape' /\ document' = document
<1>1. open \in Seq(Nat) /\ open # <<>> /\ open' = SubSeq(open, 1, Len(open) - 1) /\ document' = document
  BY DEF TreeShape, EndElement, Front
<1>2. Len(open) \in Nat \ {0}
  BY <1>1, EmptySeq, LenProperties
<1>3. /\ open' \in Seq(Nat) /\ Len(open') = Len(open) - 1
      /\ \A k \in 1..(Len(open) - 1) : open'[k] = open[k]
  <2>1. \A d \in Nat \ {0} : d - 1 \in Nat /\ \A k \in 1..(d - 1) : k \in 1..d
    OBVIOUS
  <2>2. Len(open) - 1 \in Nat /\ \A k \in 1..(Len(open) - 1) : k \in 1..Len(open)
    BY <2>1, <1>2
  <2>3. \A k \in 1..(Len(open) - 1) : open[k] \in Nat
    BY <2>2, <1>1, ElementOfSeq
  <2>4. open' = [k \in 1..(Len(open) - 1) |-> open[k]]
    BY <1>1, <2>2
  <2> QED BY <2>2, <2>3, <2>4, IsASeq, LenProperties
<1>4. ASSUME NEW a PROVE Inside(a)' <=> Inside(a) /\ Len(open) # 2
  <2>1. \A d \in Nat \ {0} : d - 1 >= 2 <=> d >= 2 /\ d # 2
    OBVIOUS
  <2>2. \A d \in Nat \ {0} : d - 1 >= 2 => 2 \in 1..(d - 1)
    OBVIOUS
  <2>3. Len(open') >= 2 <=> Len(open) >= 2 /\ Len(open) # 2
    BY <2>1, <1>2, <1>3
  <2>4. Len(open') >= 2 => open'[2] = open[2]
    BY <2>2, <1>2, <1>3
  <2> QED BY <2>3, <2>4 DEF Inside
<1>5. TreeShape'
  <2>1. \A d \in Nat \ {0} : \A k \in 1..(d - 1) : k \in 1..d /\ (k # 1 => k - 1 \in 1..(d - 1))
    OBVIOUS
  <2>2. \A k \in 1..(Len(open) - 1) : k \in 1..Len(open) /\ (k # 1 => k - 1 \in 1..(Len(open) - 1))
    BY <2>1, <1>2
  <2>3. ASSUME NEW k \in 1..(Len(open) - 1)
        PROVE  /\ open'[k] \in Elements
               /\ document[open'[k]].parent = IF k = 1 THEN 0 ELSE open'[k - 1]
    <3>1. open'[k] = open[k] /\ (k # 1 => open'[k - 1] = open[k - 1])
      BY <2>2, <1>3
    <3> QED BY <3>1, <2>2 DEF TreeShape
  <2>4. Elements' = Elements
    BY <1>1 DEF Elements
  <2> QED BY <2>3, <2>4, <1>1, <1>3 DEF TreeShape
<1> QED BY <1>1, <1>2, <1>3, <1>4, <1>5

\* An end tag, for the two scanners that keep a depth.
LEMMA ShapeEndStep ==
  ASSUME ScanInv, EndElement
  PROVE  shape' \in Shapes /\ RootsSeen' /\ DestinationSeen' /\ AssertionsSeen'
<1>1. TreeShape /\ shape \in Shapes /\ RootsSeen /\ DestinationSeen /\ AssertionsSeen /\ ~shape.failed
  BY DEF ScanInv, Phase, EndElement
<1>2. Len(open) \in Nat \ {0} /\ Len(open') = Len(open) - 1 /\ document' = document /\ SameTree
  BY <1>1, EndFacts, TreeKept
<1>3. shape' = [shape EXCEPT !.depth = @ - 1] /\ shape.depth = Len(open)
  BY <1>1 DEF EndElement, ShapeEnd, RootsSeen
<1>4. shape.depth - 1 \in Nat
  BY <1>2, <1>3
<1>5. /\ shape' \in Shapes /\ shape'.depth = shape.depth - 1 /\ shape'.failed = shape.failed
      /\ shape'.rootIsResponse = shape.rootIsResponse
      /\ shape'.hasDestinationAttr = shape.hasDestinationAttr
      /\ shape'.destination = shape.destination
      /\ shape'.assertionCount = shape.assertionCount
      /\ shape'.hasEncryptedAssertion = shape.hasEncryptedAssertion
  BY <1>1, <1>3, <1>4 DEF Shapes
<1>6. RootsSeen'
  BY <1>1, <1>2, <1>3, <1>5 DEF RootsSeen, SameTree
<1>7. DestinationSeen'
  BY <1>1, <1>2, <1>5 DEF DestinationSeen, SameTree
<1>8. AssertionsSeen'
  <2>1. Assertions("Assertion")' = Assertions("Assertion")
        /\ Assertions("EncryptedAssertion")' = Assertions("EncryptedAssertion")
    BY <1>2 DEF SameTree
  <2> QED BY <2>1, <1>1, <1>5 DEF AssertionsSeen
<1> QED BY <1>5, <1>6, <1>7, <1>8
LEMMA IdentityEndStep ==
  ASSUME ScanInv, EndElement
  PROVE  ident' \in Identities /\ IdentitySeen'
<1>1. TreeShape /\ ident \in Identities /\ IdentitySeen /\ ending = "none" /\ ending' = ending
  BY DEF ScanInv, Phase, EndElement
<1>2. /\ Len(open) \in Nat \ {0} /\ Len(open') = Len(open) - 1 /\ document' = document /\ SameTree
      /\ \A k \in 1..(Len(open) - 1) : open'[k] = open[k]
      /\ \A a : Inside(a)' <=> Inside(a) /\ Len(open) # 2
  BY <1>1, EndFacts, TreeKept
<1>3. ident' = IdentityEnd(ident)
  BY DEF EndElement
<1>4. CASE ident.failed
  <2>1. ident' = ident
    BY <1>3, <1>4 DEF IdentityEnd
  <2>2. PICK a \in Assertions("Assertion") : Spoilt(a)
    BY <1>1, <1>4 DEF IdentitySeen
  <2>3. a \in Assertions("Assertion")'
    BY <1>2 DEF SameTree
  <2>4. Spoilt(a)'
    BY <2>2, <1>2 DEF SameTree, Spoilt, AtMostOne
  <2> QED BY <2>1, <2>3, <2>4, <1>1, <1>4 DEF IdentitySeen
<1>5. CASE ~ident.failed
  <2>1. StackSeen /\ \A a \in Assertions("Assertion") :
                        Clean(a) /\ IF Inside(a) THEN CountedSoFar(a) ELSE Sound(a)
    BY <1>1, <1>5 DEF IdentitySeen
  <2> DEFINE ends == Len(ident.stack) = 2 /\ ident.stack[2] = AssertionName
  <2>2. ends <=> InAssertion(ident) /\ Len(open) = 2
    BY <2>1 DEF InAssertion, StackSeen
  <2> HIDE DEF ends
  <2>4. CASE ends /\ ident.issuers # 1
    <3>1. PICK a : a = open[2]
      OBVIOUS
    <3>2. a \in Assertions("Assertion") /\ Inside(a)
      BY <3>1, <2>1, <2>2, <2>4, <1>1, InAssertionIsInside
    <3>3. Issuers(a) = {}
      BY <3>2, <2>1, <2>4 DEF CountedSoFar, Counted
    <3>4. a \in Assertions("Assertion")' /\ Issuers(a)' = {} /\ ~Inside(a)'
      BY <3>2, <3>3, <2>2, <2>4, <1>2 DEF SameTree
    <3>5. ident' = [ident EXCEPT !.failed = TRUE]
      BY <2>4, <1>3, <1>5 DEF IdentityEnd, ends
    <3>6. ident' \in Identities /\ ident'.failed = TRUE
      BY <3>5, <1>1 DEF Identities
    <3> QED BY <3>4, <3>6 DEF IdentitySeen, Spoilt
  <2>5. CASE ~(ends /\ ident.issuers # 1)
    <3> DEFINE popped == SubSeq(ident.stack, 1, Len(ident.stack) - 1)
    <3>1. ident' = [ident EXCEPT !.stack = popped]
      BY <2>5, <1>3, <1>5 DEF IdentityEnd, ends
    <3>2. /\ popped \in Seq(TagNames) /\ Len(popped) = Len(open) - 1
          /\ \A k \in 1..(Len(open) - 1) : popped[k] = ident.stack[k]
      <4>1. ident.stack \in Seq(TagNames) /\ Len(ident.stack) = Len(open)
        BY <1>1, <2>1 DEF Identities, StackSeen
      <4>2. \A d \in Nat \ {0} : d - 1 \in Nat /\ \A k \in 1..(d - 1) : k \in 1..d
        OBVIOUS
      <4>3. Len(open) - 1 \in Nat /\ \A k \in 1..(Len(open) - 1) : k \in 1..Len(open)
        BY <4>2, <1>2
      <4>4. \A k \in 1..(Len(open) - 1) : ident.stack[k] \in TagNames
        BY <4>1, <4>3, ElementOfSeq
      <4>5. popped = [k \in 1..(Len(open) - 1) |-> ident.stack[k]]
        BY <4>1, <4>3
      <4> HIDE DEF popped
      <4> QED BY <4>3, <4>4, <4>5, IsASeq, LenProperties
    <3> HIDE DEF popped
    <3>3. /\ ident' \in Identities /\ ident'.stack = popped /\ ident'.failed = ident.failed
          /\ ident'.issuers = ident.issuers /\ ident'.subjects = ident.subjects /\ ident'.names = ident.names
      BY <3>1, <3>2, <1>1 DEF Identities
    <3>4. StackSeen'
      <4>1. \A d \in Nat \ {0} : \A k \in 1..(d - 1) : k \in 1..d
        OBVIOUS
      <4>2. \A k \in 1..(Len(open) - 1) : ident'.stack[k] = Name(document[open'[k]].el)
        BY <4>1, <3>2, <3>3, <2>1, <1>2 DEF StackSeen
      <4> QED BY <4>2, <3>2, <3>3, <1>2 DEF StackSeen
    <3>5. ASSUME NEW a \in Assertions("Assertion")
          PROVE  Clean(a)' /\ IF Inside(a)' THEN CountedSoFar(a)' ELSE Sound(a)'
      <4>1. Clean(a)'
        BY <2>1, <1>2 DEF SameTree
      <4>2. CASE Inside(a)'
        <5>1. CountedSoFar(a)
          BY <4>2, <2>1, <1>2
        <5>2. CountedSoFar(a)'
          BY <5>1, <3>3, <1>2 DEF SameTree, CountedSoFar, Counted, AtMostOne
        <5> QED BY <4>1, <4>2, <5>2
      <4>3. CASE ~Inside(a)'
        <5>1. Sound(a)
          <6>1. CASE Inside(a)
            <7>1. ends /\ ident.issuers = 1
              BY <6>1, <4>3, <2>1, <2>2, <2>5, <1>1, <1>2, InAssertionIsInside
            <7> QED BY <6>1, <7>1, <2>1 DEF CountedSoFar, Counted, Sound
          <6>2. CASE ~Inside(a)
            BY <6>2, <2>1
          <6> QED BY <6>1, <6>2
        <5>2. Sound(a)'
          BY <5>1, <1>2 DEF SameTree, Sound, AtMostOne
        <5> QED BY <4>1, <4>3, <5>2
      <4> QED BY <4>2, <4>3
    <3>6. Assertions("Assertion")' = Assertions("Assertion")
      BY <1>2 DEF SameTree
    <3>7. ending' # "error"
      BY <1>1
    <3> QED BY <3>3, <3>4, <3>5, <3>6, <3>7, <1>5 DEF IdentitySeen
  <2> QED BY <2>4, <2>5
<1> QED BY <1>4, <1>5
-----------------------------------------------------------------------------
\* A step that is no tag.
LEMMA QuietStep ==
  ASSUME ScanInv, UNCHANGED <<document, open, shape, weak>>
  PROVE  /\ TreeShape' /\ shape' \in Shapes /\ RootsSeen' /\ DestinationSeen' /\ AssertionsSeen'
         /\ WeakSeen'
<1>1. SameTree
  BY TreeKept
<1>2. TreeShape' /\ WeakSeen'
  BY DEF ScanInv, TreeShape, WeakSeen, Elements
<1>3. RootsSeen' /\ DestinationSeen'
  BY <1>1 DEF ScanInv, RootsSeen, DestinationSeen, SameTree
<1>4. AssertionsSeen'
  <2>1. /\ Assertions("Assertion")' = Assertions("Assertion")
        /\ Assertions("EncryptedAssertion")' = Assertions("EncryptedAssertion")
    BY <1>1 DEF SameTree
  <2> QED BY <2>1 DEF ScanInv, AssertionsSeen
<1> QED BY <1>2, <1>3, <1>4 DEF ScanInv

LEMMA QuietIdentity ==
  ASSUME ScanInv, UNCHANGED <<document, open, ident>>, ending' = "error" <=> ending = "error"
  PROVE  ident' \in Identities /\ IdentitySeen'
<1>1. SameTree
  BY TreeKept
<1>2. \A a : /\ Inside(a)' <=> Inside(a)
             /\ CountedSoFar(a)' <=> CountedSoFar(a)
             /\ Sound(a)' <=> Sound(a)
             /\ Spoilt(a)' <=> Spoilt(a)
  BY <1>1 DEF SameTree, Inside, CountedSoFar, Counted, Sound, Spoilt, AtMostOne
<1>3. StackSeen' <=> StackSeen
  BY DEF StackSeen
<1> QED BY <1>1, <1>2, <1>3 DEF ScanInv, IdentitySeen, SameTree

\* The tags that may come next are tags.
LEMMA NextTags ==
  ASSUME TreeShape
  PROVE  ElementsAt[Min({Len(open) + 1, Len(ElementsAt)})] \subseteq Tags
<1>1. Len(open) \in Nat /\ Len(ElementsAt) \in Nat \ {0} /\ DOMAIN ElementsAt = 1..Len(ElementsAt)
  BY TagsType, LenProperties, EmptySeq DEF TreeShape
<1>2. ASSUME NEW i \in Nat, NEW j \in Nat PROVE Min({i, j}) = IF i <= j THEN i ELSE j
  <2>1. CASE i <= j
    <3>1. \A x \in {i, j} : (\A y \in {i, j} : x <= y) <=> x = i
      BY <2>1
    <3> QED BY <3>1, <2>1 DEF Min
  <2>2. CASE ~(i <= j)
    <3>1. \A x \in {i, j} : (\A y \in {i, j} : x <= y) <=> x = j
      BY <2>2
    <3> QED BY <3>1, <2>2 DEF Min
  <2> QED BY <2>1, <2>2
<1>3. Min({Len(open) + 1, Len(ElementsAt)}) \in DOMAIN ElementsAt
  <2>1. \A d \in Nat, e \in Nat \ {0} : Min({d + 1, e}) \in 1..e
    BY <1>2
  <2> QED BY <2>1, <1>1
<1>4. \A i \in DOMAIN ElementsAt : ElementsAt[i] \subseteq Tags
  BY DEF Tags, Range
<1> QED BY <1>3, <1>4

LEMMA InitScanInv == Init => ScanInv
<1> SUFFICES ASSUME Init PROVE ScanInv
  OBVIOUS
<1>1. /\ document = <<>> /\ open = <<>> /\ Elements = {} /\ Len(open) = 0
      /\ ending = "none" /\ pc = "receive" /\ payload \in Payloads
      /\ shape = NoShape /\ weak = FALSE /\ ident = NoIdentity
  BY DEF Init, Elements
<1>2. Roots = {} /\ \A l : Assertions(l) = {}
  BY <1>1, MembersAlways DEF Members
<1>3. TreeShape
  BY <1>1 DEF TreeShape
<1>4. shape \in Shapes /\ RootsSeen /\ DestinationSeen
  BY <1>1, <1>2 DEF NoShape, Shapes, Destinations, RootsSeen, DestinationSeen, Stating
<1>5. AssertionsSeen
  BY <1>1, <1>2, FS_EmptySet DEF AssertionsSeen, NoShape
<1>6. WeakSeen
  BY <1>1 DEF WeakSeen
<1>7. ident \in Identities /\ IdentitySeen
  BY <1>1, <1>2 DEF NoIdentity, Identities, IdentitySeen, StackSeen
<1>8. Phase
  BY <1>1 DEF Phase, NoShape
<1> QED BY <1>3, <1>4, <1>5, <1>6, <1>7, <1>8 DEF ScanInv

LEMMA NextScanInv == ScanInv /\ [Next]_vars => ScanInv'
<1> SUFFICES ASSUME ScanInv, [Next]_vars PROVE ScanInv'
  OBVIOUS
<1>1. CASE Receive
  <2>1. UNCHANGED <<scanVars, ending>> /\ pc = "receive" /\ pc' \in {"refused", "scan"}
    BY <1>1 DEF Receive
  <2>2. Phase'
    BY <2>1 DEF ScanInv, Phase, scanVars
  <2> QED BY <2>1, <2>2, QuietStep, QuietIdentity DEF ScanInv, scanVars
<1>2. ASSUME NEW el \in ElementsAt[Min({Len(open) + 1, Len(ElementsAt)})], StartElement(el)
      PROVE  ScanInv'
  <2>1. el \in Tags /\ TreeShape
    BY NextTags DEF ScanInv
  <2>2. TreeShape'
    BY <2>1, <1>2, StartFacts
  <2>3. Phase'
    BY <1>2 DEF ScanInv, Phase, StartElement
  <2> QED BY <2>1, <2>2, <2>3, <1>2, ShapeStartStep, WeakStartStep, IdentityStartStep DEF ScanInv
<1>3. CASE EndElement
  <2>1. TreeShape' /\ document' = document /\ weak' = weak
    BY <1>3, EndFacts DEF ScanInv, EndElement
  <2>2. WeakSeen'
    BY <2>1 DEF ScanInv, WeakSeen, Elements
  <2>3. ~shape'.failed
    BY <1>3 DEF ScanInv, Phase, EndElement, ShapeEnd, Shapes
  <2>4. Phase'
    BY <2>3, <1>3 DEF ScanInv, Phase, EndElement
  <2> QED BY <2>1, <2>2, <2>4, <1>3, ShapeEndStep, IdentityEndStep DEF ScanInv
<1>4. CASE SyntaxError
  <2>1. /\ UNCHANGED <<document, open, shape, weak>>
        /\ pc' = "scanned" /\ ending' = "error" /\ ident' = [ident EXCEPT !.failed = TRUE]
    BY <1>4 DEF SyntaxError, IdentityError
  <2>2. ident' \in Identities /\ ident'.failed = TRUE
    BY <2>1 DEF ScanInv, Identities
  <2>3. IdentitySeen'
    BY <2>1, <2>2 DEF IdentitySeen
  <2>4. Phase'
    BY <2>1 DEF Phase
  <2> QED BY <2>1, <2>2, <2>3, <2>4, QuietStep DEF ScanInv
<1>5. CASE EndOfFile
  <2>1. /\ UNCHANGED <<document, open, shape, weak, ident>>
        /\ pc = "scan" /\ pc' = "scanned" /\ ending' = "eof" /\ open = <<>>
    BY <1>5 DEF EndOfFile, scanVars
  <2>2. ending = "none"
    BY <2>1 DEF ScanInv, Phase
  <2>3. Phase'
    BY <2>1 DEF Phase
  <2> QED BY <2>1, <2>2, <2>3, QuietStep, QuietIdentity DEF ScanInv
<1>6. ASSUME NEW cfg \in Configs, ParseXMLResponse(cfg) PROVE ScanInv'
  <2>1. UNCHANGED <<scanVars, ending>> /\ pc' = "convert"
    BY <1>6 DEF ParseXMLResponse
  <2>2. Phase'
    BY <2>1 DEF Phase
  <2> QED BY <2>1, <2>2, QuietStep, QuietIdentity DEF ScanInv, scanVars
<1>7. ASSUME NEW attr \in Attrs, Convert(attr) PROVE ScanInv'
  <2>1. UNCHANGED <<scanVars, ending>> /\ pc' \in {"ErrDuplicateAttribute", "convert"}
    BY <1>7 DEF Convert
  <2>2. Phase'
    BY <2>1 DEF Phase
  <2> QED BY <2>1, <2>2, QuietStep, QuietIdentity DEF ScanInv, scanVars
<1>8. CASE UNCHANGED vars
  <2>1. UNCHANGED <<scanVars, ending>> /\ UNCHANGED <<pc, payload>>
    BY <1>8 DEF vars
  <2>2. Phase'
    BY <2>1 DEF ScanInv, Phase, scanVars
  <2> QED BY <2>1, <2>2, QuietStep, QuietIdentity DEF ScanInv, scanVars
<1> QED BY <1>1, <1>2, <1>3, <1>4, <1>5, <1>6, <1>7, <1>8 DEF Next

\* The scanners' locals say of the document, after every token, what its tree
\* says: the depth is that of the path, the last Destination of a root is kept,
\* assertions and refused algorithms are counted wherever they are, and an
\* assertion that has ended without complaint had one Issuer, at most one Subject
\* and at most one NameID, all of the SAML namespace (rawxml.go).
THEOREM ScannersFollowTree == Spec => []ScanInv
BY InitScanInv, NextScanInv, PTL DEF Spec
-----------------------------------------------------------------------------
\* Counting up to one.
LEMMA SmallSets ==
  ASSUME NEW S, IsFiniteSet(S)
  PROVE  /\ Cardinality(S) = 1 <=> S # {} /\ AtMostOne(S)
         /\ Cardinality(S) <= 1 <=> AtMostOne(S)
<1>1. Cardinality(S) \in Nat /\ (Cardinality(S) = 0 <=> S = {})
  BY FS_CardinalityType, FS_EmptySet
<1>2. Cardinality(S) = 1 <=> \E x : S = {x}
  BY FS_Singleton
<1>3. (\E x : S = {x}) <=> S # {} /\ AtMostOne(S)
  <2>1. ASSUME NEW x, S = {x} PROVE S # {} /\ AtMostOne(S)
    BY <2>1 DEF AtMostOne
  <2>2. ASSUME NEW x \in S, AtMostOne(S) PROVE S = {x}
    BY <2>2 DEF AtMostOne
  <2> QED BY <2>1, <2>2
<1>4. S = {} => AtMostOne(S)
  BY DEF AtMostOne
<1>5. Cardinality(S) <= 1 <=> Cardinality(S) = 0 \/ Cardinality(S) = 1
  BY <1>1
<1> QED BY <1>1, <1>2, <1>3, <1>4, <1>5

LEMMA IdentityIsSound ==
  ASSUME TreeShape, NEW a
  PROVE  IdentityOf(a) <=> Sound(a) /\ Clean(a)
<1>1. Issuers(a) \subseteq Elements /\ Subjects(a) \subseteq Elements /\ NameIDs(a) \subseteq Elements
  BY MembersAlways DEF Members
<1>2. IsFiniteSet(Issuers(a)) /\ IsFiniteSet(Subjects(a)) /\ IsFiniteSet(NameIDs(a))
  BY <1>1, FiniteParts
<1>3. IdentityOf(a) <=>
        /\ Cardinality(Issuers(a)) = 1 /\ Cardinality(Subjects(a)) <= 1 /\ Cardinality(NameIDs(a)) <= 1
        /\ \A j \in Parts(a) : IsSaml(j)
  BY DEF IdentityOf, Issuers, Subjects, NameIDs, Parts
<1> QED BY <1>2, <1>3, SmallSets DEF Sound, Clean

\* What scanResponseShape has found is the first root's Destination, if no
\* other root states one.
Present == shape.hasDestinationAttr /\ shape.destination # ""

LEMMA DestinationIsFirst ==
  ASSUME ScanInv, ~shape.failed, OnlyFirstStates
  PROVE  /\ DestinationOf = IF Present THEN shape.destination ELSE "none"
         /\ Present => shape.destination # "none"
<1>1. \A i \in Stating : i = 1 /\ 1 \in Roots /\ document[1].el.destination # "none"
  BY DEF Stating, OnlyFirstStates
<1>2. CASE shape.hasDestinationAttr
  <2>1. PICK m \in Stating : shape.destination = document[m].el.destination
    BY <1>2 DEF ScanInv, DestinationSeen
  <2>2. /\ m = 1 /\ 1 \in Roots
        /\ shape.destination = document[1].el.destination /\ shape.destination # "none"
    BY <1>1, <2>1
  <2>3. DestinationOf = IF shape.destination = "" THEN "none" ELSE shape.destination
    BY <2>2 DEF DestinationOf, Stated
  <2> QED BY <2>2, <2>3, <1>2 DEF Present
<1>3. CASE ~shape.hasDestinationAttr
  <2>1. Stating = {}
    BY <1>3 DEF ScanInv, DestinationSeen
  <2>2. 1 \in Roots => document[1].el.destination = "none"
    BY <2>1 DEF Stating
  <2>3. DestinationOf = "none"
    BY <2>2 DEF DestinationOf, Stated
  <2> QED BY <2>3, <1>3 DEF Present
<1> QED BY <1>2, <1>3

LEMMA DestinationVerdict ==
  ASSUME ScanInv, ~shape.failed, OnlyFirstStates, NEW cfg, NEW v, v.destination = DestinationOf
  PROVE  DestinationError(cfg) = "none" <=> DestinationOK(cfg, v)
<1>1. DestinationError(cfg) =
        CASE requireDestination(cfg) /\ ~Present -> "ErrMissingDestination"
          [] Present /\ shape.destination # "acs" -> "ErrDestinationMismatch"
          [] OTHER -> "none"
  BY DEF DestinationError, Present
<1>2. DestinationError(cfg) = "none" <=>
        ~(requireDestination(cfg) /\ ~Present) /\ ~(Present /\ shape.destination # "acs")
  BY <1>1
<1>3. DestinationOf = IF Present THEN shape.destination ELSE "none"
  BY DestinationIsFirst
<1>4. Present => shape.destination # "none"
  BY DestinationIsFirst
<1> QED BY <1>2, <1>3, <1>4 DEF DestinationOK

LEMMA IdentityVerdict ==
  ASSUME ScanInv, pc = "scanned", ~shape.failed
  PROVE  ~ident.failed <=> ending = "eof" /\ \A a \in Assertions("Assertion") : IdentityOf(a)
<1>1. TreeShape /\ IdentitySeen
  BY DEF ScanInv
<1>2. ending = "error" \/ (ending = "eof" /\ \A a : ~Inside(a))
  BY DEF ScanInv, Phase, Inside
<1>3. CASE ident.failed
  <2>1. ASSUME NEW a \in Assertions("Assertion"), Spoilt(a), ~Inside(a) PROVE ~IdentityOf(a)
    BY <2>1, <1>1, IdentityIsSound DEF Spoilt, Sound
  <2> QED BY <2>1, <1>1, <1>2, <1>3 DEF IdentitySeen
<1>4. CASE ~ident.failed
  BY <1>1, <1>2, <1>4, IdentityIsSound DEF IdentitySeen
<1> QED BY <1>3, <1>4

LEMMA VerdictOnScanned == ScanInv => VerdictFollowsTree
<1> SUFFICES ASSUME ScanInv, pc = "scanned", OnlyFirstStates, NEW cfg \in Configs
             PROVE  Verdict(cfg) = "admitted" <=> StructureOK(cfg, View)
  BY DEF VerdictFollowsTree
<1> DEFINE v == View
<1>1. /\ v.tooLarge = FALSE
      /\ v.rootIsResponse = (Roots # {} /\ Called(Roots, "Response") = Roots)
      /\ v.assertionCount = Cardinality(Assertions("Assertion") \cup Assertions("EncryptedAssertion"))
      /\ v.destination = DestinationOf
      /\ v.weakAlgorithm = (\E i \in Elements : Refused(document[i].el))
      /\ v.encrypted = (Assertions("EncryptedAssertion") # {})
      /\ v.identityShapeOK = (ending = "eof" /\ \A a \in Assertions("Assertion") : IdentityOf(a))
  BY Zenon DEF View
<1> HIDE DEF v
<1>2. Called(Roots, "Response") = Roots <=> \A r \in Roots : document[r].el.local = "Response"
  BY DEF Called
<1>3. CASE shape.failed
  <2>1. Verdict(cfg) = "ErrMalformedResponse"
    BY <1>3 DEF Verdict
  <2>2. ~v.rootIsResponse
    BY <1>1, <1>2, <1>3 DEF ScanInv, RootsSeen
  <2> QED BY <2>1, <2>2 DEF StructureOK, v
<1>4. CASE ~shape.failed
  <2>1. v.rootIsResponse <=> shape.rootIsResponse
    BY <1>1, <1>2, <1>4 DEF ScanInv, RootsSeen
  <2>2. v.assertionCount = shape.assertionCount /\ shape.assertionCount \in Nat
    BY <1>1, <1>4 DEF ScanInv, AssertionsSeen, Shapes
  <2>3. DestinationError(cfg) = "none" <=> DestinationOK(cfg, v)
    BY <1>1, <1>4, DestinationVerdict
  <2>4. v.weakAlgorithm <=> weak
    BY <1>1 DEF ScanInv, WeakSeen
  <2>5. v.encrypted <=> shape.hasEncryptedAssertion
    BY <1>1, <1>4 DEF ScanInv, AssertionsSeen
  <2>6. v.identityShapeOK <=> ~ident.failed
    BY <1>1, <1>4, IdentityVerdict
  <2>7. DestinationError(cfg) # "admitted"
    BY DEF DestinationError
  <2>8. Verdict(cfg) = "admitted" <=>
          /\ shape.rootIsResponse /\ shape.assertionCount # 0 /\ ~(shape.assertionCount > 1)
          /\ DestinationError(cfg) = "none"
          /\ ~(rejectWeakSignatures(cfg) /\ weak)
          /\ ~(~cfg.AllowEncryptedAssertions /\ shape.hasEncryptedAssertion)
          /\ ~ident.failed
    BY <2>7, <1>4 DEF Verdict
  <2>9. shape.assertionCount # 0 /\ ~(shape.assertionCount > 1) <=> v.assertionCount = 1
    BY <2>2
  <2>10. StructureOK(cfg, v) <=>
          /\ v.rootIsResponse /\ v.assertionCount = 1 /\ DestinationOK(cfg, v)
          /\ ~(rejectWeakSignatures(cfg) /\ v.weakAlgorithm)
          /\ cfg.AllowEncryptedAssertions \/ ~v.encrypted
          /\ v.identityShapeOK
    BY <1>1 DEF StructureOK
  <2>11. Verdict(cfg) = "admitted" <=> StructureOK(cfg, v)
    BY <2>1, <2>3, <2>4, <2>5, <2>6, <2>8, <2>9, <2>10, Zenon
  <2> QED BY <2>11 DEF v
<1> QED BY <1>3, <1>4

\* validate hands a document to crewjam exactly if its tree passes the checks
\* of SamlChecks, for documents of any width and depth, of which no root but
\* the first states a Destination, and any Config (validate.go:93-160 over
\* rawxml.go).
THEOREM SamlVerdict == Spec => []VerdictFollowsTree
BY ScannersFollowTree, VerdictOnScanned, PTL
-----------------------------------------------------------------------------
\* Under a maximum to which one can be added, exactly what exceeds it is refused.
LEMMA InflateExact ==
  ASSUME NEW n \in Nat, NEW max \in -(MaxInt + 1)..MaxInt, OrDefault(max) < MaxInt
  PROVE  /\ OrDefault(max) \in Nat
         /\ InflateLimited(n, max) = IF n <= OrDefault(max) THEN n ELSE Refusal
<1> DEFINE L == OrDefault(max)
<1>1. MaxInt \in Nat /\ L \in Nat /\ L > 0 /\ L < MaxInt
  BY IntWidth DEF OrDefault
<1> HIDE DEF L
<1>2. Wrap(L + 1) = L + 1
  BY <1>1 DEF Wrap
<1>3. LimitReader(n, L + 1) = IF n <= L + 1 THEN n ELSE L + 1
  BY <1>1 DEF LimitReader
<1>4. InflateLimited(n, max) = IF LimitReader(n, L + 1) > L THEN Refusal ELSE LimitReader(n, L + 1)
  BY <1>2 DEF InflateLimited, L
<1>5. InflateLimited(n, max) = IF n <= L THEN n ELSE Refusal
  BY <1>1, <1>3, <1>4
<1> QED BY <1>1, <1>5 DEF L

\* What is scanned is the message in full, and nothing that is readable and
\* within the limits is refused, for any size and any limit below the largest
\* int64 (inflate.go:25-44, validate.go:66-99).
THEOREM SamlWholeOrRefused == Spec => WholeOrRefused
<1> DEFINE fits == /\ payload.readable
                   /\ payload.size <= OrDefault(payload.MaxResponseBytes)
                   /\ payload.binding = "redirect" =>
                        payload.size <= OrDefault(payload.MaxInflatedBytes)
<1>1. ASSUME ScanInv, Next, pc = "receive", OrDefault(payload.MaxInflatedBytes) < MaxInt
      PROVE  IF fits THEN pc' = "scan" /\ whole' ELSE pc' = "refused"
  <2>1. Receive
    BY <1>1 DEF Next, StartElement, EndElement, SyntaxError, EndOfFile, ParseXMLResponse, Convert
  <2>2. /\ payload.size \in Nat /\ payload.readable \in BOOLEAN
        /\ payload.MaxResponseBytes \in -(MaxInt + 1)..MaxInt
        /\ payload.MaxInflatedBytes \in -(MaxInt + 1)..MaxInt
    <3>1. payload \in Payloads
      BY <1>1 DEF ScanInv, Phase
    <3>2. {payload.MaxResponseBytes, payload.MaxInflatedBytes} \subseteq -(MaxInt + 1)..MaxInt
      BY <3>1, PayloadsType
    <3>3. payload.size \in Nat /\ payload.readable \in BOOLEAN
      BY <3>1, PayloadsType
    <3> QED BY <3>2, <3>3
  <2>3. OrDefault(payload.MaxResponseBytes) \in Nat
    BY <2>2, IntWidth DEF OrDefault
  <2>4. InflateLimited(payload.size, payload.MaxInflatedBytes) =
          IF payload.size <= OrDefault(payload.MaxInflatedBytes) THEN payload.size ELSE Refusal
    BY <2>2, <1>1, InflateExact
  <2>5. Refusal \notin Nat
    BY DEF Refusal
  <2>6. Decoded(payload) =
          IF /\ payload.readable
             /\ payload.binding = "redirect" => payload.size <= OrDefault(payload.MaxInflatedBytes)
          THEN payload.size ELSE Refusal
    BY <2>4, Zenon DEF Decoded
  <2>7. /\ Decoded(payload) = Refusal \/ Decoded(payload) > OrDefault(payload.MaxResponseBytes) =>
             pc' = "refused"
        /\ ~(Decoded(payload) = Refusal \/ Decoded(payload) > OrDefault(payload.MaxResponseBytes)) =>
             pc' = "scan" /\ whole' = (Decoded(payload) = payload.size)
    BY <2>1 DEF Receive
  <2>8. CASE fits
    <3>1. Decoded(payload) = payload.size
      BY <2>6, <2>8
    <3>2. ~(Decoded(payload) > OrDefault(payload.MaxResponseBytes))
      BY <3>1, <2>2, <2>3, <2>8
    <3> QED BY <3>1, <3>2, <2>2, <2>5, <2>7, <2>8
  <2>9. CASE ~fits
    <3>1. Decoded(payload) = Refusal \/ Decoded(payload) > OrDefault(payload.MaxResponseBytes)
      <4>1. CASE /\ payload.readable
                 /\ payload.binding = "redirect" => payload.size <= OrDefault(payload.MaxInflatedBytes)
        <5>1. ~(payload.size <= OrDefault(payload.MaxResponseBytes)) /\ Decoded(payload) = payload.size
          BY <4>1, <2>6, <2>9
        <5> QED BY <5>1, <2>2, <2>3
      <4>2. CASE ~(/\ payload.readable
                   /\ payload.binding = "redirect" =>
                        payload.size <= OrDefault(payload.MaxInflatedBytes))
        BY <4>2, <2>6
      <4> QED BY <4>1, <4>2
    <3> QED BY <3>1, <2>7, <2>9
  <2> QED BY <2>8, <2>9
<1>2. ScanInv /\ [Next]_vars =>
        [pc = "receive" /\ OrDefault(payload.MaxInflatedBytes) < MaxInt =>
           IF fits THEN pc' = "scan" /\ whole' ELSE pc' = "refused"]_vars
  BY <1>1
<1> QED BY <1>2, ScannersFollowTree, PTL DEF Spec, WholeOrRefused
-----------------------------------------------------------------------------
\* A set of natural numbers that is not empty has a least element.
LEMMA LeastNat ==
  ASSUME NEW T \in SUBSET Nat, T # {}
  PROVE  \E m \in T : \A y \in T : m <= y
<1>1. PICK m \in T : \A y \in T : ~(<<y, m>> \in OpToRel(<, Nat))
  BY WFMin, NatLessThanWellFounded
<1>2. ASSUME NEW y \in T, y < m PROVE FALSE
  <2>1. <<y, m>> \in Nat \X Nat /\ <<y, m>>[1] < <<y, m>>[2]
    BY <1>2
  <2>2. <<y, m>> \in OpToRel(<, Nat)
    BY <2>1 DEF OpToRel
  <2> QED BY <2>2, <1>1
<1> QED BY <1>2

\* The values up to the nth element of a list, as the recursion of ValuesOf has them.
Piece(list, A, n) == IF list[n] \in A THEN list[n].values ELSE <<>>
Table(list, A, N, f) ==
  f = [n \in 0..N |-> IF n = 0 THEN <<>> ELSE f[n - 1] \o Piece(list, A, n)]

LEMMA TableExists ==
  ASSUME NEW list, NEW A, NEW N \in Nat
  PROVE  \E f : Table(list, A, N, f)
<1> DEFINE T == {m \in Nat : ~\E f : Table(list, A, m, f)}
<1> SUFFICES ASSUME T # {} PROVE FALSE
  OBVIOUS
<1>1. PICK m \in T : \A y \in T : m <= y
  BY LeastNat
<1>2. m # 0
  <2> DEFINE f == [n \in 0..0 |-> <<>>]
  <2>1. f = [n \in 0..0 |-> IF n = 0 THEN <<>> ELSE f[n - 1] \o Piece(list, A, n)]
    OBVIOUS
  <2> HIDE DEF f
  <2>2. Table(list, A, 0, f)
    BY <2>1 DEF Table
  <2> QED BY <2>2
<1>3. m \in Nat /\ m - 1 \in Nat /\ m - 1 \notin T
  BY <1>1, <1>2
<1>4. PICK f : Table(list, A, m - 1, f)
  BY <1>3
<1> DEFINE g == [n \in 0..m |-> IF n = m THEN f[m - 1] \o Piece(list, A, m) ELSE f[n]]
<1>5. ASSUME NEW n \in 0..m PROVE g[n] = IF n = 0 THEN <<>> ELSE g[n - 1] \o Piece(list, A, n)
  <2>1. CASE n = m
    <3>1. g[n] = f[m - 1] \o Piece(list, A, m)
      BY <2>1, <1>3
    <3>2. m - 1 \in 0..m /\ m - 1 # m
      BY <1>3
    <3>3. g[m - 1] = f[m - 1]
      BY <3>2
    <3> QED BY <2>1, <3>1, <3>3, <1>2
  <2>2. CASE n # m
    <3>1. n \in 0..(m - 1) /\ (n # 0 => n - 1 \in 0..m /\ n - 1 # m)
      BY <2>2, <1>3
    <3>2. f[n] = IF n = 0 THEN <<>> ELSE f[n - 1] \o Piece(list, A, n)
      BY <3>1, <1>4 DEF Table
    <3>3. g[n] = f[n] /\ (n # 0 => g[n - 1] = f[n - 1])
      BY <3>1, <2>2
    <3> QED BY <3>2, <3>3
  <2> QED BY <2>1, <2>2
<1>6. g = [n \in 0..m |-> g[n]]
  OBVIOUS
<1> HIDE DEF g
<1>7. Table(list, A, m, g)
  BY <1>5, <1>6 DEF Table
<1> QED BY <1>7, <1>1

LEMMA TablesAgree ==
  ASSUME NEW list, NEW longer, NEW A, NEW N \in Nat, NEW M \in Nat, N <= M,
         \A n \in 1..N : list[n] = longer[n],
         NEW f, Table(list, A, N, f), NEW g, Table(longer, A, M, g)
  PROVE  \A n \in 0..N : f[n] = g[n]
<1> DEFINE T == {n \in 0..N : f[n] # g[n]}
<1> SUFFICES ASSUME T # {} PROVE FALSE
  OBVIOUS
<1>1. PICK m \in T : \A y \in T : m <= y
  <2>1. T \in SUBSET Nat
    OBVIOUS
  <2> HIDE DEF T
  <2> QED BY <2>1, LeastNat
<1>2. f[m] = IF m = 0 THEN <<>> ELSE f[m - 1] \o Piece(list, A, m)
  BY <1>1 DEF Table
<1>3. g[m] = IF m = 0 THEN <<>> ELSE g[m - 1] \o Piece(longer, A, m)
  <2>1. m \in 0..M
    BY <1>1
  <2> QED BY <2>1 DEF Table
<1>4. ASSUME m # 0
      PROVE  m - 1 \in 0..N /\ m - 1 \notin T /\ Piece(longer, A, m) = Piece(list, A, m)
  <2>1. m \in 0..N
    BY <1>1
  <2> HIDE DEF T
  <2>2. m \in 1..N /\ m - 1 \in 0..N /\ ~(m <= m - 1)
    BY <2>1, <1>4
  <2>3. m - 1 \notin T
    BY <2>2, <1>1
  <2> QED BY <2>2, <2>3 DEF Piece
<1> QED BY <1>1, <1>2, <1>3, <1>4

LEMMA ValuesOfNone ==
  ASSUME NEW A
  PROVE  ValuesOf(<<>>, A) = <<>>
<1> DEFINE f == CHOOSE g : Table(<<>>, A, 0, g)
<1>1. ValuesOf(<<>>, A) = f[0]
  BY DEF ValuesOf, Table, Piece
<1>2. Table(<<>>, A, 0, f)
  BY TableExists
<1> HIDE DEF f
<1> QED BY <1>1, <1>2 DEF Table

\* The last element of a list adds its values to those of the others.
LEMMA ValuesOfAppend ==
  ASSUME NEW S, NEW list \in Seq(S), NEW a \in S, NEW A
  PROVE  ValuesOf(Append(list, a), A) = ValuesOf(list, A) \o (IF a \in A THEN a.values ELSE <<>>)
<1> DEFINE TableOf(l) == CHOOSE f : Table(l, A, Len(l), f)
<1>1. ASSUME NEW l PROVE ValuesOf(l, A) = TableOf(l)[Len(l)]
  BY DEF ValuesOf, Table, Piece
<1>2. ASSUME NEW l, Len(l) \in Nat PROVE Table(l, A, Len(l), TableOf(l))
  BY <1>2, TableExists
<1> HIDE DEF TableOf
<1> DEFINE longer == Append(list, a)
           N == Len(list)
<1>4. N \in Nat /\ Len(longer) = N + 1 /\ longer[N + 1] = a /\ \A n \in 1..N : list[n] = longer[n]
  BY AppendProperties, LenProperties
<1>5. ValuesOf(longer, A) = TableOf(longer)[Len(longer)] /\ ValuesOf(list, A) = TableOf(list)[N]
  BY <1>1
<1>6. Table(list, A, N, TableOf(list))
  BY <1>2, <1>4
<1>7. Table(longer, A, N + 1, TableOf(longer))
  <2> HIDE DEF longer, N
  <2>1. Len(longer) \in Nat
    BY <1>4
  <2> QED BY <2>1, <1>2, <1>4
<1> HIDE DEF longer, N
<1>8. TableOf(longer)[N] = TableOf(list)[N]
  <2>1. N + 1 \in Nat /\ N <= N + 1 /\ N \in 0..N
    BY <1>4
  <2>2. PICK f : f = TableOf(list) /\ Table(list, A, N, f)
    BY <1>6
  <2>3. PICK g : g = TableOf(longer) /\ Table(longer, A, N + 1, g)
    BY <1>7
  <2>4. \A n \in 1..N : list[n] = longer[n]
    BY <1>4
  <2>5. \A n \in 0..N : f[n] = g[n]
    BY <2>1, <2>2, <2>3, <2>4, <1>4, TablesAgree
  <2> QED BY <2>1, <2>2, <2>3, <2>5
<1>9. TableOf(longer)[N + 1] = TableOf(longer)[N] \o Piece(longer, A, N + 1)
  <2>1. N + 1 \in 0..(N + 1) /\ N + 1 # 0 /\ (N + 1) - 1 = N
    BY <1>4
  <2> QED BY <2>1, <1>7 DEF Table
<1>10. Piece(longer, A, N + 1) = IF a \in A THEN a.values ELSE <<>>
  BY <1>4 DEF Piece
<1> QED BY <1>4, <1>5, <1>8, <1>9, <1>10 DEF longer
-----------------------------------------------------------------------------
\* The maps of the conversion, and the arrays behind their slices.
Slices == [vals : Seq(STRING), array : Nat]
Maps == UNION {[K -> Slices] : K \in SUBSET STRING}
Outs == [byName : Maps, merged : Maps, seen : SUBSET STRING, arrays : Nat, failed : BOOLEAN]

\* Arrays are numbered as they are allocated; a slice without one is empty.
Allocated(map, n) ==
  \A k \in DOMAIN map : map[k].array <= n /\ (map[k].array = 0 => map[k].vals = <<>>)

\* No key of the map shares its array with another key of it, or with the other map.
Own(map) == \A k, l \in DOMAIN map : k # l /\ map[k].array # 0 => map[k].array # map[l].array
Apart(map, other) ==
  \A k \in DOMAIN map, l \in DOMAIN other : map[k].array # 0 => map[k].array # other[l].array

Kept(o) ==
  /\ o \in Outs
  /\ Allocated(o.byName, o.arrays) /\ Allocated(o.merged, o.arrays)
  /\ Own(o.byName) /\ Own(o.merged) /\ Apart(o.byName, o.merged)

LEMMA MapFacts ==
  ASSUME NEW map \in Maps
  PROVE  /\ DOMAIN map \in SUBSET STRING
         /\ map = [k \in DOMAIN map |-> map[k]]
         /\ \A k \in DOMAIN map : map[k] \in Slices /\ map[k].vals \in Seq(STRING) /\ map[k].array \in Nat
         /\ \A k : Lookup(map, k) \in Slices /\ Lookup(map, k).vals \in Seq(STRING)
<1>1. PICK K \in SUBSET STRING : map \in [K -> Slices]
  BY DEF Maps
<1>2. DOMAIN map = K /\ map = [k \in DOMAIN map |-> map[k]] /\ \A k \in DOMAIN map : map[k] \in Slices
  BY <1>1
<1>3. \A s \in Slices : s.vals \in Seq(STRING) /\ s.array \in Nat
  BY DEF Slices
<1>4. [vals |-> <<>>, array |-> 0] \in Slices
  <2>1. <<>> \in Seq(STRING)
    OBVIOUS
  <2> QED BY <2>1 DEF Slices
<1>5. \A k : Lookup(map, k) \in Slices
  BY <1>2, <1>4 DEF Lookup
<1> QED BY <1>2, <1>3, <1>5

\* append: the values are those of both, the array the slice's own or a new one.
Appended(s, vals, n, r) ==
  /\ r \in Slices /\ r.vals = s.vals \o vals
  /\ r.array \in {s.array, n + 1}
  /\ r.array = 0 => r.vals = <<>>

LEMMA AppendToFacts ==
  ASSUME NEW s \in Slices, s.array = 0 => s.vals = <<>>, NEW vs, vs.vals \in Seq(STRING),
         NEW n \in Nat, NEW r, r = AppendTo(s, vs, n)
  PROVE  Appended(s, vs.vals, n, r)
<1>1. s.vals \in Seq(STRING) /\ s.array \in Nat /\ n + 1 \in Nat /\ n + 1 # 0
  BY DEF Slices
<1>2. CASE vs.vals = <<>>
  <2>1. r = s
    BY <1>2 DEF AppendTo
  <2>2. s.vals \o <<>> = s.vals
    BY <1>1, ConcatEmptySeq
  <2> QED BY <2>1, <2>2, <1>1, <1>2 DEF Appended
<1>3. CASE vs.vals # <<>> /\ s.array = 0
  <2>1. r = [vals |-> vs.vals, array |-> n + 1]
    BY <1>3 DEF AppendTo
  <2>2. s.vals \o vs.vals = vs.vals
    BY <1>3, ConcatEmptySeq
  <2>3. r \in Slices /\ r.vals = vs.vals /\ r.array = n + 1
    BY <2>1, <1>1 DEF Slices
  <2> QED BY <2>2, <2>3, <1>1 DEF Appended
<1>4. CASE vs.vals # <<>> /\ s.array # 0
  <2> DEFINE both == s.vals \o vs.vals
  <2>1. both \in Seq(STRING)
    BY <1>1, ConcatProperties
  <2>2. r = [s EXCEPT !.vals = both]
    BY <1>4 DEF AppendTo
  <2> HIDE DEF both
  <2>3. r \in Slices /\ r.vals = both /\ r.array = s.array
    BY <2>1, <2>2 DEF Slices
  <2> QED BY <2>3, <1>4 DEF both, Appended
<1> QED BY <1>2, <1>3, <1>4

\* m[key] = append(m[key], vals...).
Grown(map, key, vals, n, r) ==
  /\ r \in Maps /\ DOMAIN r = (DOMAIN map) \cup {key}
  /\ \A k \in DOMAIN map : k # key => r[k] = map[k]
  /\ r[key].vals = Lookup(map, key).vals \o vals
  /\ r[key].array \in {Lookup(map, key).array, n + 1}
  /\ Allocated(r, n + 1)

LEMMA PutFacts ==
  ASSUME NEW map \in Maps, NEW key \in STRING, NEW vs, vs.vals \in Seq(STRING), NEW n \in Nat,
         Allocated(map, n), NEW r, r = Put(map, key, AppendTo(Lookup(map, key), vs, n))
  PROVE  Grown(map, key, vs.vals, n, r)
<1> DEFINE s == Lookup(map, key)
           t == AppendTo(s, vs, n)
<1>1. s \in Slices /\ (s.array = 0 => s.vals = <<>>) /\ s.array <= n
  <2>1. CASE key \in DOMAIN map
    BY <2>1, MapFacts DEF Lookup, Allocated
  <2>2. CASE key \notin DOMAIN map
    <3>1. s = [vals |-> <<>>, array |-> 0]
      BY <2>2 DEF Lookup
    <3> QED BY <3>1, MapFacts
  <2> QED BY <2>1, <2>2
<1>2. /\ t \in Slices /\ t.vals = s.vals \o vs.vals /\ t.array \in {s.array, n + 1}
      /\ t.array = 0 => t.vals = <<>>
  <2>1. t = AppendTo(s, vs, n)
    OBVIOUS
  <2> HIDE DEF s, t
  <2>2. Appended(s, vs.vals, n, t)
    BY <2>1, <1>1, AppendToFacts
  <2> QED BY <2>2 DEF Appended
<1>3. r = [k \in (DOMAIN map) \cup {key} |-> IF k = key THEN t ELSE map[k]]
  BY DEF Put
<1> HIDE DEF t, s
<1>4. /\ DOMAIN r = (DOMAIN map) \cup {key} /\ r[key] = t
      /\ \A k \in DOMAIN map : k # key => r[k] = map[k]
  BY <1>3
<1>5. r \in Maps
  <2> DEFINE K == (DOMAIN map) \cup {key}
  <2>1. K \in SUBSET STRING
    BY MapFacts
  <2>2. \A k \in K : (IF k = key THEN t ELSE map[k]) \in Slices
    BY <1>2, MapFacts
  <2>3. r \in [K -> Slices]
    BY <2>2, <1>3
  <2> QED BY <2>1, <2>3 DEF Maps
<1>6. Allocated(r, n + 1)
  <2>1. t.array <= n + 1
    BY <1>1, <1>2 DEF Slices
  <2>2. \A k \in DOMAIN map : map[k].array <= n + 1
    BY MapFacts DEF Allocated
  <2> QED BY <2>1, <2>2, <1>2, <1>4 DEF Allocated
<1> QED BY <1>2, <1>4, <1>5, <1>6 DEF Grown, s

\* A map that grows stays apart from itself and from the other.
LEMMA GrownApart ==
  ASSUME NEW map \in Maps, NEW key \in STRING, NEW vals, NEW n \in Nat, NEW r, NEW other \in Maps,
         Grown(map, key, vals, n, r), Allocated(map, n), Allocated(other, n), Own(map)
  PROVE  /\ Own(r)
         /\ Apart(map, other) => Apart(r, other)
         /\ Apart(other, map) => Apart(other, r)
<1>1. /\ \A k \in DOMAIN map : map[k].array \in Nat /\ map[k].array <= n /\ map[k].array # n + 1
      /\ \A k \in DOMAIN other : other[k].array \in Nat /\ other[k].array <= n /\ other[k].array # n + 1
  BY MapFacts DEF Allocated
<1>2. \A k \in DOMAIN r : k # key => k \in DOMAIN map /\ r[k] = map[k]
  BY DEF Grown
<1>3. \/ r[key].array = n + 1
      \/ key \in DOMAIN map /\ r[key].array = map[key].array
      \/ r[key].array = 0
  BY DEF Grown, Lookup
<1>4. Own(r)
  BY <1>1, <1>2, <1>3 DEF Own
<1>5. Apart(map, other) => Apart(r, other)
  BY <1>1, <1>2, <1>3 DEF Apart
<1>6. Apart(other, map) => Apart(other, r)
  BY <1>1, <1>2, <1>3 DEF Apart
<1> QED BY <1>4, <1>5, <1>6

\* The keys of an element, without repetition.
LEMMA UnlessFacts ==
  ASSUME NEW S, NEW key \in S, NEW skipped, NEW u, u = Unless(key, skipped)
  PROVE  u \in Seq(S) /\ IF key \in skipped THEN Len(u) = 0 ELSE Len(u) = 1 /\ u[1] = key
<1>1. u = IF key \in skipped THEN <<>> ELSE <<key>>
  BY DEF Unless
<1> QED BY <1>1

Joined(u, v, w) ==
  /\ Len(u) = 0 /\ Len(v) = 0 => Len(w) = 0
  /\ Len(u) = 0 /\ Len(v) = 1 => Len(w) = 1 /\ w[1] = v[1]
  /\ Len(u) = 1 /\ Len(v) = 0 => Len(w) = 1 /\ w[1] = u[1]
  /\ Len(u) = 1 /\ Len(v) = 1 => Len(w) = 2 /\ w[1] = u[1] /\ w[2] = v[1]

LEMMA JoinFacts ==
  ASSUME NEW S, NEW u \in Seq(S), NEW v \in Seq(S), NEW w, w = u \o v
  PROVE  Joined(u, v, w)
<1>1. /\ Len(w) = Len(u) + Len(v)
      /\ \A i \in 1..(Len(u) + Len(v)) : w[i] = IF i <= Len(u) THEN u[i] ELSE v[i - Len(u)]
  BY ConcatProperties
<1>2. ASSUME Len(u) = 0, Len(v) = 1 PROVE Len(w) = 1 /\ w[1] = v[1]
  <2>1. 1 \in 1..(0 + 1) /\ ~(1 <= 0) /\ 1 - 0 = 1 /\ 0 + 1 = 1
    OBVIOUS
  <2> QED BY <2>1, <1>1, <1>2
<1>3. ASSUME Len(u) = 1, Len(v) = 0 PROVE Len(w) = 1 /\ w[1] = u[1]
  <2>1. 1 \in 1..(1 + 0) /\ 1 <= 1 /\ 1 + 0 = 1
    OBVIOUS
  <2> QED BY <2>1, <1>1, <1>3
<1>4. ASSUME Len(u) = 1, Len(v) = 1 PROVE Len(w) = 2 /\ w[1] = u[1] /\ w[2] = v[1]
  <2>1. 1 \in 1..(1 + 1) /\ 2 \in 1..(1 + 1) /\ 1 <= 1 /\ ~(2 <= 1) /\ 2 - 1 = 1 /\ 1 + 1 = 2
    OBVIOUS
  <2> QED BY <2>1, <1>1, <1>4
<1> QED BY <1>1, <1>2, <1>3, <1>4 DEF Joined

\* keys lists the members of K, which are in S, once each.
Lists(keys, K, S) ==
  \/ Len(keys) = 0 /\ K = {}
  \/ Len(keys) = 1 /\ K = {keys[1]} /\ keys[1] \in S
  \/ /\ Len(keys) = 2 /\ K = {keys[1], keys[2]} /\ keys[1] # keys[2]
     /\ keys[1] \in S /\ keys[2] \in S

LEMMA DedupeKeys ==
  ASSUME NEW S, NEW none, NEW name \in S, NEW friendlyName \in S,
         NEW keys, keys = Unless(name, {none}) \o Unless(friendlyName, {none, name})
  PROVE  Lists(keys, {name, friendlyName} \ {none}, S)
<1>1. PICK u : u = Unless(name, {none})
  OBVIOUS
<1>2. PICK v : v = Unless(friendlyName, {none, name})
  OBVIOUS
<1>3. keys = u \o v
  BY <1>1, <1>2
<1>4. u \in Seq(S) /\ IF name = none THEN Len(u) = 0 ELSE Len(u) = 1 /\ u[1] = name
  <2>1. u \in Seq(S) /\ IF name \in {none} THEN Len(u) = 0 ELSE Len(u) = 1 /\ u[1] = name
    BY <1>1, UnlessFacts
  <2> QED BY <2>1, Zenon
<1>5. /\ v \in Seq(S)
      /\ IF friendlyName \in {none, name} THEN Len(v) = 0 ELSE Len(v) = 1 /\ v[1] = friendlyName
  BY <1>2, UnlessFacts
<1>6. Joined(u, v, keys)
  BY <1>3, <1>4, <1>5, JoinFacts
<1>7. CASE name = none /\ friendlyName = none
  BY <1>4, <1>5, <1>6, <1>7 DEF Lists, Joined
<1>8. CASE name = none /\ friendlyName # none
  <2>1. Len(keys) = 1 /\ keys[1] = friendlyName
    BY <1>4, <1>5, <1>6, <1>8, Zenon DEF Joined
  <2> QED BY <2>1, <1>8 DEF Lists
<1>9. CASE name # none /\ friendlyName \in {none, name}
  <2>1. Len(keys) = 1 /\ keys[1] = name
    BY <1>4, <1>5, <1>6, <1>9, Zenon DEF Joined
  <2>2. {name, friendlyName} \ {none} = {name}
    BY <1>9
  <2> QED BY <2>1, <2>2 DEF Lists
<1>10. CASE name # none /\ friendlyName \notin {none, name}
  <2>1. Len(keys) = 2 /\ keys[1] = name /\ keys[2] = friendlyName
    BY <1>4, <1>5, <1>6, <1>10, Zenon DEF Joined
  <2>2. {name, friendlyName} \ {none} = {name, friendlyName} /\ name # friendlyName
    BY <1>10
  <2> QED BY <2>1, <2>2 DEF Lists
<1> QED BY <1>7, <1>8, <1>9, <1>10

LEMMA DedupeFacts ==
  ASSUME NEW name \in STRING, NEW friendlyName \in STRING
  PROVE  Lists(dedupeKeys(name, friendlyName), {name, friendlyName} \ {""}, STRING)
BY DedupeKeys, Zenon DEF dedupeKeys

\* One turn of the loop over the keys, and the lines before it.
Named(o, name, vals, r) ==
  /\ Kept(r)
  /\ r.merged = o.merged /\ r.seen = o.seen /\ (r.failed <=> o.failed)
  /\ IF name = "" THEN r.byName = o.byName ELSE Grown(o.byName, name, vals, o.arrays, r.byName)

LEMMA ByNameFacts ==
  ASSUME NEW o, Kept(o), NEW name \in STRING, NEW vs, vs.vals \in Seq(STRING),
         NEW r, r = ByName(o, name, vs)
  PROVE  Named(o, name, vs.vals, r)
<1>1. /\ o \in Outs /\ o.byName \in Maps /\ o.merged \in Maps /\ o.arrays \in Nat
      /\ o.seen \in SUBSET STRING /\ o.failed \in BOOLEAN
  BY DEF Kept, Outs
<1>2. CASE name = ""
  BY <1>2 DEF ByName, Named
<1>3. CASE name # ""
  <2> DEFINE m == Put(o.byName, name, AppendTo(Lookup(o.byName, name), vs, o.arrays))
  <2>1. Grown(o.byName, name, vs.vals, o.arrays, m)
    <3>1. m = Put(o.byName, name, AppendTo(Lookup(o.byName, name), vs, o.arrays))
      OBVIOUS
    <3> HIDE DEF m
    <3> QED BY <3>1, <1>1, PutFacts DEF Kept
  <2>2. r = [o EXCEPT !.byName = m, !.arrays = @ + 1]
    BY <1>3 DEF ByName
  <2> HIDE DEF m
  <2>3. m \in Maps /\ o.arrays + 1 \in Nat
    BY <2>1, <1>1 DEF Grown
  <2>4. r = [byName |-> m, merged |-> o.merged, seen |-> o.seen, arrays |-> o.arrays + 1, failed |-> o.failed]
    BY <2>2, <1>1 DEF Outs
  <2>5. /\ r \in Outs /\ r.byName = m /\ r.merged = o.merged /\ r.seen = o.seen
        /\ r.arrays = o.arrays + 1 /\ r.failed = o.failed
    BY <2>3, <2>4, <1>1 DEF Outs
  <2>6. Own(m) /\ Apart(m, o.merged)
    BY <2>1, <1>1, GrownApart DEF Kept
  <2>7. Allocated(o.merged, o.arrays + 1)
    BY <1>1, MapFacts DEF Kept, Allocated
  <2>8. Allocated(m, o.arrays + 1)
    BY <2>1 DEF Grown
  <2> QED BY <2>1, <2>5, <2>6, <2>7, <2>8, <1>3 DEF Kept, Named
<1> QED BY <1>2, <1>3

Refuses(o, key, strictly) == o.failed \/ (strictly /\ key \in o.seen)

Keyed(o, key, vals, strictly, r) ==
  /\ Kept(r)
  /\ r.byName = o.byName
  /\ r.failed <=> Refuses(o, key, strictly)
  /\ ~r.failed => /\ r.seen = IF strictly THEN o.seen \cup {key} ELSE o.seen
                  /\ Grown(o.merged, key, vals, o.arrays, r.merged)

LEMMA ByKeyFacts ==
  ASSUME NEW o, Kept(o), NEW key \in STRING, NEW vs, vs.vals \in Seq(STRING),
         NEW strictly, NEW r, r = ByKey(o, key, vs, strictly)
  PROVE  Keyed(o, key, vs.vals, strictly, r)
<1>1. /\ o \in Outs /\ o.byName \in Maps /\ o.merged \in Maps /\ o.arrays \in Nat
      /\ o.seen \in SUBSET STRING /\ o.failed \in BOOLEAN
  BY DEF Kept, Outs
<1>2. CASE Refuses(o, key, strictly)
  <2>1. r = [o EXCEPT !.failed = TRUE]
    BY <1>2 DEF ByKey, Refuses
  <2>2. /\ r \in Outs /\ r.byName = o.byName /\ r.merged = o.merged /\ r.arrays = o.arrays /\ r.failed = TRUE
    BY <2>1, <1>1 DEF Outs
  <2> QED BY <2>2, <1>2 DEF Kept, Keyed
<1>3. CASE ~Refuses(o, key, strictly)
  <2> DEFINE m == Put(o.merged, key, AppendTo(Lookup(o.merged, key), vs, o.arrays))
             seen == IF strictly THEN o.seen \cup {key} ELSE o.seen
  <2>1. Grown(o.merged, key, vs.vals, o.arrays, m)
    <3>1. m = Put(o.merged, key, AppendTo(Lookup(o.merged, key), vs, o.arrays))
      OBVIOUS
    <3> HIDE DEF m
    <3> QED BY <3>1, <1>1, PutFacts DEF Kept
  <2>2. r = [o EXCEPT !.seen = seen, !.merged = m, !.arrays = @ + 1]
    BY <1>3 DEF ByKey, Refuses
  <2>3. m \in Maps /\ o.arrays + 1 \in Nat
    <3> HIDE DEF m
    <3> QED BY <2>1, <1>1 DEF Grown
  <2>4. seen \in SUBSET STRING /\ seen = IF strictly THEN o.seen \cup {key} ELSE o.seen
    BY <1>1
  <2> HIDE DEF m, seen
  <2>5. r = [byName |-> o.byName, merged |-> m, seen |-> seen, arrays |-> o.arrays + 1, failed |-> o.failed]
    BY <2>2, <1>1 DEF Outs
  <2>6. /\ r \in Outs /\ r.byName = o.byName /\ r.merged = m /\ r.seen = seen
        /\ r.arrays = o.arrays + 1 /\ r.failed = o.failed
    BY <2>3, <2>4, <2>5, <1>1 DEF Outs
  <2>7. Own(m) /\ Apart(o.byName, m)
    BY <2>1, <1>1, GrownApart DEF Kept
  <2>8. Allocated(o.byName, o.arrays + 1)
    BY <1>1, MapFacts DEF Kept, Allocated
  <2>9. Allocated(m, o.arrays + 1)
    BY <2>1 DEF Grown
  <2>10. Kept(r)
    BY <2>6, <2>7, <2>8, <2>9 DEF Kept
  <2>11. ~o.failed
    BY <1>3 DEF Refuses
  <2> QED BY <2>1, <2>4, <2>6, <2>10, <2>11, <1>3 DEF Keyed
<1> QED BY <1>2, <1>3

LEMMA GrownLookup ==
  ASSUME NEW map \in Maps, NEW key, NEW vals, NEW n, NEW r, Grown(map, key, vals, n, r), NEW k
  PROVE  Lookup(r, k).vals = IF k = key THEN Lookup(map, k).vals \o vals ELSE Lookup(map, k).vals
<1>1. CASE k = key
  BY <1>1 DEF Grown, Lookup
<1>2. CASE k # key
  <2>1. Lookup(r, k) = Lookup(map, k)
    BY <1>2 DEF Grown, Lookup
  <2> QED BY <2>1, <1>2
<1> QED BY <1>1, <1>2

\* What the loop's body makes of one <Attribute> element.
Added(o, attr, strictly, r) ==
  /\ Kept(r)
  /\ r.failed <=> strictly /\ Keys(attr) \cap DOMAIN o.merged # {}
  /\ ~r.failed =>
       /\ strictly => r.seen = DOMAIN r.merged
       /\ DOMAIN r.byName = (DOMAIN o.byName) \cup ({attr.name} \ {""})
       /\ DOMAIN r.merged = (DOMAIN o.merged) \cup Keys(attr)
       /\ \A k : k # "" => Lookup(r.byName, k).vals =
                   IF attr.name = k THEN Lookup(o.byName, k).vals \o attr.values ELSE Lookup(o.byName, k).vals
       /\ \A k : Lookup(r.merged, k).vals =
                   IF k \in Keys(attr) THEN Lookup(o.merged, k).vals \o attr.values ELSE Lookup(o.merged, k).vals

LEMMA AddAttributeFacts ==
  ASSUME NEW o, Kept(o), ~o.failed, NEW strictly, strictly => o.seen = DOMAIN o.merged,
         NEW attr \in Attrs, NEW r, r = AddAttribute(o, attr, strictly)
  PROVE  Added(o, attr, strictly, r)
<1>1. attr.name \in STRING /\ attr.friendlyName \in STRING /\ attr.values \in Seq(STRING)
  BY AttrsType
<1> DEFINE o0 == [o EXCEPT !.arrays = @ + 1]
           vs == [vals |-> attr.values, array |-> IF attr.values = <<>> THEN 0 ELSE o.arrays + 1]
           named == ByName(o0, attr.name, vs)
           keys == dedupeKeys(attr.name, attr.friendlyName)
<1>2. r = CASE Len(keys) = 0 -> named
            [] Len(keys) = 1 -> ByKey(named, keys[1], vs, strictly)
            [] OTHER -> ByKey(ByKey(named, keys[1], vs, strictly), keys[2], vs, strictly)
  BY DEF AddAttribute
<1>3. Lists(keys, Keys(attr), STRING)
  BY <1>1, DedupeFacts DEF Keys
<1>4. vs.vals = attr.values /\ vs.vals \in Seq(STRING)
  BY <1>1
<1>5. /\ o \in Outs /\ o.byName \in Maps /\ o.merged \in Maps /\ o.arrays \in Nat
      /\ o.seen \in SUBSET STRING /\ o.failed \in BOOLEAN
  BY DEF Kept, Outs
<1>6. /\ o0 \in Outs /\ o0.byName = o.byName /\ o0.merged = o.merged /\ o0.seen = o.seen
      /\ o0.failed = o.failed /\ o0.arrays = o.arrays + 1
  BY <1>5 DEF Outs
<1> HIDE DEF o0, vs, keys
<1>7. Kept(o0)
  <2>1. Allocated(o.byName, o.arrays + 1) /\ Allocated(o.merged, o.arrays + 1)
    BY <1>5, MapFacts DEF Kept, Allocated
  <2> QED BY <2>1, <1>6 DEF Kept
<1>8. /\ Kept(named) /\ named.merged = o.merged /\ named.seen = o.seen /\ ~named.failed
      /\ IF attr.name = "" THEN named.byName = o.byName
         ELSE Grown(o.byName, attr.name, attr.values, o0.arrays, named.byName)
  <2>1. named = ByName(o0, attr.name, vs)
    OBVIOUS
  <2> HIDE DEF named
  <2>2. Named(o0, attr.name, vs.vals, named)
    BY <2>1, <1>1, <1>4, <1>7, ByNameFacts
  <2> QED BY <2>2, <1>4, <1>6 DEF Named
<1> HIDE DEF named
<1>9. /\ DOMAIN named.byName = (DOMAIN o.byName) \cup ({attr.name} \ {""})
      /\ \A k : k # "" => Lookup(named.byName, k).vals =
                  IF attr.name = k THEN Lookup(o.byName, k).vals \o attr.values ELSE Lookup(o.byName, k).vals
  <2>1. CASE attr.name = ""
    BY <2>1, <1>8
  <2>2. CASE attr.name # ""
    <3>1. Grown(o.byName, attr.name, attr.values, o0.arrays, named.byName)
      BY <2>2, <1>8
    <3>2. DOMAIN named.byName = (DOMAIN o.byName) \cup ({attr.name} \ {""})
      BY <3>1, <2>2 DEF Grown
    <3>3. ASSUME NEW k, k # ""
          PROVE  Lookup(named.byName, k).vals =
                   IF attr.name = k THEN Lookup(o.byName, k).vals \o attr.values ELSE Lookup(o.byName, k).vals
      BY <3>1, <1>5, GrownLookup
    <3> QED BY <3>2, <3>3
  <2> QED BY <2>1, <2>2
<1>10. CASE Len(keys) = 0
  <2>1. r = named /\ Keys(attr) = {}
    BY <1>2, <1>3, <1>10 DEF Lists
  <2> QED BY <2>1, <1>8, <1>9 DEF Added
<1>11. CASE Len(keys) = 1
  <2>1. r = ByKey(named, keys[1], vs, strictly) /\ Keys(attr) = {keys[1]} /\ keys[1] \in STRING
    BY <1>2, <1>3, <1>11 DEF Lists
  <2>2. Keyed(named, keys[1], attr.values, strictly, r)
    BY <2>1, <1>4, <1>8, ByKeyFacts
  <2>3. r.failed <=> strictly /\ Keys(attr) \cap DOMAIN o.merged # {}
    BY <2>1, <2>2, <1>8 DEF Refuses, Keyed
  <2>4. ASSUME ~r.failed
        PROVE  /\ strictly => r.seen = DOMAIN r.merged
               /\ DOMAIN r.merged = (DOMAIN o.merged) \cup Keys(attr)
               /\ \A k : Lookup(r.merged, k).vals =
                    IF k \in Keys(attr) THEN Lookup(o.merged, k).vals \o attr.values ELSE Lookup(o.merged, k).vals
    <3>1. Grown(o.merged, keys[1], attr.values, named.arrays, r.merged)
      BY <2>2, <2>4, <1>4, <1>8 DEF Keyed
    <3>2. DOMAIN r.merged = (DOMAIN o.merged) \cup Keys(attr)
      BY <3>1, <2>1 DEF Grown
    <3>3. strictly => r.seen = DOMAIN r.merged
      BY <3>2, <2>1, <2>2, <2>4, <1>8 DEF Keyed
    <3> QED BY <3>1, <3>2, <3>3, <2>1, <1>5, GrownLookup
  <2> QED BY <2>2, <2>3, <2>4, <1>9 DEF Added, Keyed
<1>12. CASE Len(keys) = 2
  <2>1. /\ Keys(attr) = {keys[1], keys[2]} /\ keys[1] # keys[2]
        /\ keys[1] \in STRING /\ keys[2] \in STRING
    BY <1>3, <1>12 DEF Lists
  <2>2. PICK o1 : o1 = ByKey(named, keys[1], vs, strictly)
    OBVIOUS
  <2>3. r = ByKey(o1, keys[2], vs, strictly)
    BY <2>2, <1>2, <1>12
  <2>4. Keyed(named, keys[1], attr.values, strictly, o1)
    BY <2>1, <2>2, <1>4, <1>8, ByKeyFacts
  <2>5. Keyed(o1, keys[2], attr.values, strictly, r)
    <3>1. Kept(o1)
      BY <2>4 DEF Keyed
    <3> QED BY <3>1, <2>1, <2>3, <1>4, ByKeyFacts
  <2>6. r.failed <=> strictly /\ Keys(attr) \cap DOMAIN o.merged # {}
    <3>1. r.failed <=> strictly /\ (keys[1] \in o.seen \/ keys[2] \in o.seen)
      <4>1. o1.failed <=> strictly /\ keys[1] \in o.seen
        BY <2>4, <1>8 DEF Refuses, Keyed
      <4>2. ~o1.failed /\ strictly => o1.seen = o.seen \cup {keys[1]}
        BY <2>4, <1>8 DEF Keyed
      <4>3. r.failed <=> o1.failed \/ (strictly /\ keys[2] \in o1.seen)
        BY <2>5 DEF Refuses, Keyed
      <4> QED BY <4>1, <4>2, <4>3, <2>1
    <3> QED BY <3>1, <2>1
  <2>7. ASSUME ~r.failed
        PROVE  /\ strictly => r.seen = DOMAIN r.merged
               /\ DOMAIN r.merged = (DOMAIN o.merged) \cup Keys(attr)
               /\ \A k : Lookup(r.merged, k).vals =
                    IF k \in Keys(attr) THEN Lookup(o.merged, k).vals \o attr.values ELSE Lookup(o.merged, k).vals
    <3>1. ~o1.failed
      BY <2>5, <2>7 DEF Refuses, Keyed
    <3>2. Grown(o.merged, keys[1], attr.values, named.arrays, o1.merged)
      BY <3>1, <2>4, <1>4, <1>8 DEF Keyed
    <3>3. Grown(o1.merged, keys[2], attr.values, o1.arrays, r.merged) /\ o1.merged \in Maps
      BY <2>4, <2>5, <2>7, <1>4 DEF Kept, Outs, Keyed
    <3>4. DOMAIN r.merged = (DOMAIN o.merged) \cup Keys(attr)
      BY <3>2, <3>3, <2>1 DEF Grown
    <3>5. strictly => r.seen = DOMAIN r.merged
      BY <3>1, <3>4, <2>1, <2>4, <2>5, <2>7, <1>8 DEF Keyed
    <3>6. ASSUME NEW k
          PROVE  Lookup(r.merged, k).vals =
                   IF k \in Keys(attr) THEN Lookup(o.merged, k).vals \o attr.values ELSE Lookup(o.merged, k).vals
      <4>1. Lookup(o1.merged, k).vals =
              IF k = keys[1] THEN Lookup(o.merged, k).vals \o attr.values ELSE Lookup(o.merged, k).vals
        BY <3>2, <1>5, GrownLookup
      <4>2. Lookup(r.merged, k).vals =
              IF k = keys[2] THEN Lookup(o1.merged, k).vals \o attr.values ELSE Lookup(o1.merged, k).vals
        BY <3>3, GrownLookup
      <4> QED BY <4>1, <4>2, <2>1
    <3> QED BY <3>4, <3>5, <3>6
  <2>8. Kept(r) /\ r.byName = named.byName
    BY <2>4, <2>5 DEF Keyed
  <2> QED BY <2>6, <2>7, <2>8, <1>9 DEF Added
<1> QED BY <1>3, <1>10, <1>11, <1>12 DEF Lists
-----------------------------------------------------------------------------
SentKeys == UNION {Keys(attrs[i]) : i \in DOMAIN attrs}

\* The inductive invariant of the conversion: as long as no key is refused, both
\* maps hold what was sent, an absent key counting as one with no values; a strict
\* Provider has seen exactly the merged keys; and the maps are apart throughout.
MapsInv ==
  /\ attrs \in Seq(Attrs) /\ Kept(out)
  /\ pc \notin {"convert", "ErrDuplicateAttribute"} => attrs = <<>> /\ out = NoAttributes
  /\ pc = "ErrDuplicateAttribute" => strict /\ Collision
  /\ pc = "convert" =>
       /\ ~out.failed
       /\ strict => out.seen = DOMAIN out.merged /\ ~Collision
       /\ DOMAIN out.byName = {attrs[i].name : i \in DOMAIN attrs} \ {""}
       /\ DOMAIN out.merged = SentKeys
       /\ \A k : k # "" => Lookup(out.byName, k).vals = ValuesOf(attrs, {a \in Attrs : a.name = k})
       /\ \A k : Lookup(out.merged, k).vals = ValuesOf(attrs, {a \in Attrs : k \in Keys(a)})

LEMMA NothingConverted ==
  /\ Kept(NoAttributes) /\ ~NoAttributes.failed /\ NoAttributes.seen = {}
  /\ DOMAIN NoAttributes.byName = {} /\ DOMAIN NoAttributes.merged = {}
<1> DEFINE empty == [k \in {} |-> <<>>]
<1>1. empty \in Maps /\ DOMAIN empty = {}
  <2>1. empty \in [{} -> Slices]
    OBVIOUS
  <2>2. {} \in SUBSET STRING
    OBVIOUS
  <2> QED BY <2>1, <2>2 DEF Maps
<1>2. NoAttributes = [byName |-> empty, merged |-> empty, seen |-> {}, arrays |-> 0, failed |-> FALSE]
  BY DEF NoAttributes
<1> HIDE DEF empty
<1>3. /\ NoAttributes \in Outs /\ NoAttributes.byName = empty /\ NoAttributes.merged = empty
      /\ NoAttributes.seen = {} /\ NoAttributes.arrays = 0 /\ NoAttributes.failed = FALSE
  BY <1>1, <1>2 DEF Outs
<1>4. Allocated(empty, 0) /\ Own(empty) /\ Apart(empty, empty)
  BY <1>1 DEF Allocated, Own, Apart
<1> QED BY <1>1, <1>3, <1>4 DEF Kept

\* What one more element does to the list of what was sent.
LEMMA AttrsGrow ==
  ASSUME attrs \in Seq(Attrs), NEW attr \in Attrs, attrs' = Append(attrs, attr)
  PROVE  /\ attrs' \in Seq(Attrs)
         /\ {attrs'[i].name : i \in DOMAIN attrs'} = {attrs[i].name : i \in DOMAIN attrs} \cup {attr.name}
         /\ SentKeys' = SentKeys \cup Keys(attr)
         /\ Collision' <=> Collision \/ Keys(attr) \cap SentKeys # {}
<1> DEFINE N == Len(attrs)
<1>1. /\ attrs' \in Seq(Attrs) /\ N \in Nat /\ DOMAIN attrs = 1..N /\ DOMAIN attrs' = 1..(N + 1)
      /\ \A i \in 1..N : attrs'[i] = attrs[i]
      /\ attrs'[N + 1] = attr
  BY AppendProperties, LenProperties
<1> HIDE DEF N
<1>2. /\ N + 1 \notin DOMAIN attrs /\ DOMAIN attrs' = DOMAIN attrs \cup {N + 1}
      /\ \A i \in DOMAIN attrs : attrs'[i] = attrs[i]
  BY <1>1
<1>3. PICK n : n = N + 1
  OBVIOUS
<1>4. /\ n \notin DOMAIN attrs /\ DOMAIN attrs' = DOMAIN attrs \cup {n}
      /\ attrs'[n] = attr /\ \A i \in DOMAIN attrs : attrs'[i] = attrs[i]
  BY <1>1, <1>2, <1>3
<1>5. {attrs'[i].name : i \in DOMAIN attrs'} = {attrs[i].name : i \in DOMAIN attrs} \cup {attr.name}
  BY <1>4
<1>6. SentKeys' = SentKeys \cup Keys(attr)
  <2>1. \A k : k \in SentKeys' <=> \E i \in DOMAIN attrs' : k \in Keys(attrs'[i])
    BY DEF SentKeys, Keys
  <2>2. \A k : k \in SentKeys <=> \E i \in DOMAIN attrs : k \in Keys(attrs[i])
    BY DEF SentKeys
  <2>3. \A k : (\E i \in DOMAIN attrs' : k \in Keys(attrs'[i])) <=>
                 (\E i \in DOMAIN attrs : k \in Keys(attrs[i])) \/ k \in Keys(attr)
    BY <1>4
  <2> QED BY <2>1, <2>2, <2>3
<1>7. Collision' <=> \E i, j \in DOMAIN attrs' : i # j /\ Keys(attrs'[i]) \cap Keys(attrs'[j]) # {}
  BY DEF Collision, Keys
<1>8. Collision' <=> Collision \/ \E i \in DOMAIN attrs : Keys(attrs[i]) \cap Keys(attr) # {}
  <2> DEFINE Share(i, j) == Keys(attrs'[i]) \cap Keys(attrs'[j]) # {}
  <2>1. \A i, j : Share(i, j) <=> Share(j, i)
    OBVIOUS
  <2>2. Collision <=> \E i, j \in DOMAIN attrs : i # j /\ Share(i, j)
    BY <1>4 DEF Collision
  <2>3. (\E i \in DOMAIN attrs : Keys(attrs[i]) \cap Keys(attr) # {}) <=>
          \E i \in DOMAIN attrs : Share(i, n)
    BY <1>4
  <2>4. Collision' <=> \E i, j \in DOMAIN attrs' : i # j /\ Share(i, j)
    BY <1>7
  <2> HIDE DEF Share
  <2> QED BY <1>4, <2>1, <2>2, <2>3, <2>4
<1>9. (\E i \in DOMAIN attrs : Keys(attrs[i]) \cap Keys(attr) # {}) <=>
        Keys(attr) \cap SentKeys # {}
  BY DEF SentKeys
<1> QED BY <1>1, <1>5, <1>6, <1>8, <1>9

LEMMA ConvertStep ==
  ASSUME MapsInv, NEW attr \in Attrs, Convert(attr)
  PROVE  MapsInv'
<1>1. /\ pc = "convert" /\ attrs' = Append(attrs, attr) /\ out' = AddAttribute(out, attr, strict)
      /\ pc' = IF out'.failed THEN "ErrDuplicateAttribute" ELSE "convert"
      /\ strict' = strict
  BY DEF Convert
<1>2. /\ attrs \in Seq(Attrs) /\ Kept(out) /\ ~out.failed
      /\ strict => out.seen = DOMAIN out.merged /\ ~Collision
      /\ DOMAIN out.byName = {attrs[i].name : i \in DOMAIN attrs} \ {""}
      /\ DOMAIN out.merged = SentKeys
      /\ \A k : k # "" => Lookup(out.byName, k).vals = ValuesOf(attrs, {a \in Attrs : a.name = k})
      /\ \A k : Lookup(out.merged, k).vals = ValuesOf(attrs, {a \in Attrs : k \in Keys(a)})
  BY <1>1 DEF MapsInv
<1>3. Added(out, attr, strict, out')
  BY <1>1, <1>2, AddAttributeFacts
<1>4. /\ attrs' \in Seq(Attrs)
      /\ {attrs'[i].name : i \in DOMAIN attrs'} = {attrs[i].name : i \in DOMAIN attrs} \cup {attr.name}
      /\ SentKeys' = SentKeys \cup Keys(attr)
      /\ Collision' <=> Collision \/ Keys(attr) \cap SentKeys # {}
  BY <1>1, <1>2, AttrsGrow
<1>5. CASE out'.failed
  <2>1. pc' = "ErrDuplicateAttribute" /\ strict' /\ Collision' /\ Kept(out)'
    BY <1>1, <1>2, <1>3, <1>4, <1>5 DEF Added
  <2> QED BY <2>1, <1>4 DEF MapsInv
<1>6. CASE ~out'.failed
  <2>1. pc' = "convert" /\ Kept(out')
    BY <1>1, <1>3, <1>6 DEF Added
  <2>2. strict => out'.seen = DOMAIN out'.merged /\ ~Collision'
    BY <1>2, <1>3, <1>4, <1>6 DEF Added
  <2>3. DOMAIN out'.byName = {attrs'[i].name : i \in DOMAIN attrs'} \ {""}
    BY <1>2, <1>3, <1>4, <1>6 DEF Added
  <2>4. DOMAIN out'.merged = SentKeys'
    <3>1. DOMAIN out'.merged = (DOMAIN out.merged) \cup Keys(attr)
      BY <1>3, <1>6 DEF Added
    <3> QED BY <3>1, <1>2, <1>4
  <2>5. ASSUME NEW A, ValuesOf(attrs, A) \in Seq(STRING)
        PROVE  ValuesOf(attrs', A) =
                 IF attr \in A THEN ValuesOf(attrs, A) \o attr.values ELSE ValuesOf(attrs, A)
    <3>1. ValuesOf(attrs', A) = ValuesOf(attrs, A) \o (IF attr \in A THEN attr.values ELSE <<>>)
      <4>1. attrs \in Seq(Attrs) /\ attrs' = Append(attrs, attr)
        BY <1>1, <1>2
      <4>2. ValuesOf(Append(attrs, attr), A) =
              ValuesOf(attrs, A) \o (IF attr \in A THEN attr.values ELSE <<>>)
        BY <4>1, ValuesOfAppend
      <4> QED BY <4>1, <4>2
    <3>2. ValuesOf(attrs, A) \o <<>> = ValuesOf(attrs, A)
      BY <2>5, ConcatEmptySeq
    <3> QED BY <3>1, <3>2
  <2>6. /\ \A k : Lookup(out.byName, k).vals \in Seq(STRING)
        /\ \A k : Lookup(out.merged, k).vals \in Seq(STRING)
    BY <1>2, MapFacts DEF Kept, Outs
  <2>7. ASSUME NEW k, k # ""
        PROVE  Lookup(out'.byName, k).vals = ValuesOf(attrs', {a \in Attrs : a.name = k})
    <3> DEFINE A == {a \in Attrs : a.name = k}
    <3>1. Lookup(out.byName, k).vals = ValuesOf(attrs, A) /\ (attr \in A <=> attr.name = k)
      BY <1>2, <2>7
    <3>2. Lookup(out'.byName, k).vals =
            IF attr.name = k THEN Lookup(out.byName, k).vals \o attr.values ELSE Lookup(out.byName, k).vals
      BY <1>3, <1>6, <2>7 DEF Added
    <3> HIDE DEF A
    <3>3. ValuesOf(attrs', A) = IF attr \in A THEN ValuesOf(attrs, A) \o attr.values ELSE ValuesOf(attrs, A)
      BY <3>1, <2>5, <2>6
    <3>4. Lookup(out'.byName, k).vals = ValuesOf(attrs', A)
      BY <3>1, <3>2, <3>3
    <3> QED BY <3>4 DEF A
  <2>8. ASSUME NEW k
        PROVE  Lookup(out'.merged, k).vals = ValuesOf(attrs', {a \in Attrs : k \in Keys(a)})
    <3> DEFINE A == {a \in Attrs : k \in Keys(a)}
    <3>1. Lookup(out.merged, k).vals = ValuesOf(attrs, A) /\ (attr \in A <=> k \in Keys(attr))
      BY <1>2
    <3>2. Lookup(out'.merged, k).vals =
            IF k \in Keys(attr) THEN Lookup(out.merged, k).vals \o attr.values ELSE Lookup(out.merged, k).vals
      BY <1>3, <1>6 DEF Added
    <3> HIDE DEF A
    <3>3. ValuesOf(attrs', A) = IF attr \in A THEN ValuesOf(attrs, A) \o attr.values ELSE ValuesOf(attrs, A)
      BY <3>1, <2>5, <2>6
    <3>4. Lookup(out'.merged, k).vals = ValuesOf(attrs', A)
      BY <3>1, <3>2, <3>3
    <3> QED BY <3>4 DEF A
  <2> QED BY <2>1, <2>2, <2>3, <2>4, <2>7, <2>8, <1>1, <1>4, <1>6 DEF MapsInv
<1> QED BY <1>5, <1>6
LEMMA InitMapsInv == Init => MapsInv
<1> SUFFICES ASSUME Init PROVE MapsInv
  OBVIOUS
<1>1. attrs = <<>> /\ out = NoAttributes /\ pc = "receive"
  BY DEF Init
<1>2. <<>> \in Seq(Attrs)
  OBVIOUS
<1> QED BY <1>1, <1>2, NothingConverted DEF MapsInv

LEMMA NextMapsInv == MapsInv /\ [Next]_vars => MapsInv'
<1> SUFFICES ASSUME MapsInv, [Next]_vars PROVE MapsInv'
  OBVIOUS
<1> DEFINE Converting == {"convert", "ErrDuplicateAttribute"}
<1>1. ASSUME pc \notin Converting, pc' \notin Converting, UNCHANGED <<attrs, out>> PROVE MapsInv'
  <2>1. attrs' = <<>> /\ out' = NoAttributes
    BY <1>1 DEF MapsInv
  <2>2. attrs' \in Seq(Attrs) /\ Kept(out')
    BY <2>1, NothingConverted
  <2> QED BY <2>1, <2>2, <1>1 DEF MapsInv
<1>2. CASE Receive
  BY <1>1, <1>2 DEF Receive, convertVars
<1>3. ASSUME NEW el, StartElement(el) PROVE MapsInv'
  BY <1>1, <1>3 DEF StartElement, convertVars
<1>4. CASE EndElement
  BY <1>1, <1>4 DEF EndElement, convertVars
<1>5. CASE SyntaxError
  BY <1>1, <1>5 DEF SyntaxError, convertVars
<1>6. CASE EndOfFile
  BY <1>1, <1>6 DEF EndOfFile, convertVars
<1>7. ASSUME NEW cfg \in Configs, ParseXMLResponse(cfg) PROVE MapsInv'
  <2>1. attrs' = <<>> /\ out' = NoAttributes /\ pc' = "convert"
    BY <1>7 DEF ParseXMLResponse, MapsInv
  <2>2. attrs' \in Seq(Attrs) /\ DOMAIN attrs' = {}
    BY <2>1
  <2>3. ~Collision' /\ SentKeys' = {} /\ {attrs'[i].name : i \in DOMAIN attrs'} \ {""} = {}
    BY <2>2 DEF Collision, SentKeys
  <2>4. /\ Kept(out') /\ ~out'.failed /\ out'.seen = {}
        /\ DOMAIN out'.byName = {} /\ DOMAIN out'.merged = {}
    BY <2>1, NothingConverted
  <2>5. \A k : Lookup(out'.byName, k).vals = <<>> /\ Lookup(out'.merged, k).vals = <<>>
    BY <2>4 DEF Lookup
  <2>6. \A A : ValuesOf(attrs', A) = <<>>
    BY <2>1, ValuesOfNone
  <2> QED BY <2>1, <2>2, <2>3, <2>4, <2>5, <2>6 DEF MapsInv
<1>8. ASSUME NEW attr \in Attrs, Convert(attr) PROVE MapsInv'
  BY <1>8, ConvertStep
<1>9. CASE UNCHANGED vars
  <2>1. UNCHANGED <<pc, attrs, out, strict>>
    BY <1>9 DEF vars, convertVars
  <2>2. SentKeys' = SentKeys /\ (Collision' <=> Collision)
    BY <2>1 DEF SentKeys, Collision, Keys
  <2> QED BY <2>1, <2>2 DEF MapsInv
<1> QED BY <1>2, <1>3, <1>4, <1>5, <1>6, <1>7, <1>8, <1>9 DEF Next

\* The maps of the conversion stand for the list of what was sent, whatever the
\* attributes are called and however many there are (assertion.go:62-110).
THEOREM ConversionInvariant == Spec => []MapsInv
BY InitMapsInv, NextMapsInv, PTL DEF Spec

\* Both maps hold each element's values once, in order, under every key it has
\* and no other; strict refuses exactly shared keys (assertion.go:62-110).
THEOREM SamlConvertedAsSent == Spec => []ConvertedAsSent
<1>1. MapsInv => ConvertedAsSent
  <2> SUFFICES ASSUME MapsInv PROVE ConvertedAsSent
    OBVIOUS
  <2>1. pc = "ErrDuplicateAttribute" => strict /\ Collision
    BY DEF MapsInv
  <2>2. ASSUME pc = "convert"
        PROVE  /\ strict => ~Collision
               /\ DOMAIN out.byName = {attrs[i].name : i \in DOMAIN attrs} \ {""}
               /\ DOMAIN out.merged = UNION {Keys(attrs[i]) : i \in DOMAIN attrs}
    BY <2>2 DEF MapsInv, SentKeys
  <2>3. ASSUME pc = "convert", NEW n \in DOMAIN out.byName
        PROVE  out.byName[n].vals = ValuesOf(attrs, {a \in Attrs : a.name = n})
    <3>1. n # ""
      BY <2>2, <2>3
    <3>2. Lookup(out.byName, n).vals = ValuesOf(attrs, {a \in Attrs : a.name = n})
      BY <3>1, <2>3 DEF MapsInv
    <3> QED BY <3>2 DEF Lookup
  <2>4. ASSUME pc = "convert", NEW k \in DOMAIN out.merged
        PROVE  out.merged[k].vals = ValuesOf(attrs, {a \in Attrs : k \in Keys(a)})
    <3>1. Lookup(out.merged, k).vals = ValuesOf(attrs, {a \in Attrs : k \in Keys(a)})
      BY <2>4 DEF MapsInv
    <3> QED BY <3>1 DEF Lookup
  <2> QED BY <2>1, <2>2, <2>3, <2>4 DEF ConvertedAsSent
<1> QED BY <1>1, ConversionInvariant, PTL

\* No two keys of the two maps share a backing array, while the conversion runs,
\* when it is done and when it gives up (assertion.go:62-110, 173-174).
THEOREM SamlMapsShareNoArray == Spec => []MapsShareNoArray
<1>1. MapsInv => MapsShareNoArray
  <2> SUFFICES ASSUME MapsInv PROVE MapsShareNoArray
    OBVIOUS
  <2>1. Own(out.byName) /\ Own(out.merged) /\ Apart(out.byName, out.merged)
    BY DEF MapsInv, Kept
  <2> DEFINE B == {<<"byName", k>> : k \in DOMAIN out.byName}
             M == {<<"merged", k>> : k \in DOMAIN out.merged}
             ArrayOf(s) == IF s[1] = "byName" THEN out.byName[s[2]].array ELSE out.merged[s[2]].array
  <2>2. \A s \in B : \E k \in DOMAIN out.byName : s = <<"byName", k>> /\ ArrayOf(s) = out.byName[k].array
    OBVIOUS
  <2>3. \A s \in M : \E k \in DOMAIN out.merged : s = <<"merged", k>> /\ ArrayOf(s) = out.merged[k].array
    OBVIOUS
  <2>4. \A s, t \in B \cup M : s # t /\ ArrayOf(s) # 0 => ArrayOf(s) # ArrayOf(t)
    <3> HIDE DEF B, M, ArrayOf
    <3> SUFFICES ASSUME NEW s \in B \cup M, NEW t \in B \cup M, s # t, ArrayOf(s) # 0
                 PROVE  ArrayOf(s) # ArrayOf(t)
      OBVIOUS
    <3>1. CASE s \in B /\ t \in B
      BY <3>1, <2>1, <2>2 DEF Own
    <3>2. CASE s \in M /\ t \in M
      BY <3>2, <2>1, <2>3 DEF Own
    <3>3. CASE s \in B /\ t \in M
      BY <3>3, <2>1, <2>2, <2>3 DEF Apart
    <3>4. CASE s \in M /\ t \in B
      BY <3>4, <2>1, <2>2, <2>3 DEF Apart
    <3> QED BY <3>1, <3>2, <3>3, <3>4
  <2> QED BY <2>4 DEF MapsShareNoArray
<1> QED BY <1>1, ConversionInvariant, PTL
=============================================================================
