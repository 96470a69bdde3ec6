--------------------------- MODULE SamlReplayProofs ---------------------------
(***************************************************************************)
(* At-most-once acceptance, for any number of handlers, any set of         *)
(* assertions and deadlines, any capacity, and any skew, floor and margin, *)
(* as long as a handler is quicker than the margin.                        *)
(***************************************************************************)
EXTENDS SamlReplay, FiniteSetTheorems, WellFoundedInduction, TLAPS

\* When an assertion with this deadline is past all dispute.
Covered(deadline) == deadline + Skew + Margin

\* Once accepted, an id stays in the cache past each of its deadlines (with
\* skew and margin), or that time has come.
AcceptedCovered ==
  \A id \in Ids : \A deadline \in NotOnOrAfter[id] :
    accepted[id] > 0 =>
      \/ id \in DOMAIN items /\ items[id] >= Covered(deadline)
      \/ clock >= Covered(deadline)

\* A handler past crewjam got there before a deadline, and not long ago.
ParsedInTime ==
  \A h \in Handlers : pc[h] # "idle" =>
    /\ clock <= parsedAt[h] + MaxStall
    /\ \E deadline \in NotOnOrAfter[doc[h].id] : parsedAt[h] <= deadline + Skew

\* What expiryFor returned outlives every deadline.
ExpiryCovers ==
  \A h \in Handlers : pc[h] \in {"stamped", "ready"} =>
    \A deadline \in NotOnOrAfter[doc[h].id] :
      expiresAt[h] >= Covered(deadline)

\* A handler's clock reading is not ahead of the clock.
NowPast == \A h \in Handlers : pc[h] = "ready" => now[h] <= clock

\* The inductive invariant.
IInv ==
  /\ TypeOK
  /\ IsFiniteSet(DOMAIN items)
  /\ Bounded
  /\ AtMostOnce
  /\ OnlyAcceptedRemembered
  /\ AcceptedCovered
  /\ ParsedInTime
  /\ ExpiryCovers
  /\ NowPast

-----------------------------------------------------------------------------
\* A bounded set of natural numbers that is not empty has a greatest element.
LEMMA GreatestNat ==
  ASSUME NEW b \in Nat, NEW S \in SUBSET (0..b), S # {}
  PROVE  \E m \in S : \A n \in S : n <= m
<1> DEFINE T == {b - n : n \in S}
<1>1. T \in SUBSET Nat /\ T # {}
  <2>1. \A n \in S : b - n \in Nat
    OBVIOUS
  <2>2. T \in SUBSET Nat
    BY <2>1
  <2> QED BY <2>2
<1> HIDE DEF T
<1>2. PICK t \in T : \A y \in T : t <= y
  <2>1. PICK t \in T : \A y \in T : ~(<<y, t>> \in OpToRel(<, Nat))
    BY <1>1, WFMin, NatLessThanWellFounded
  <2>2. ASSUME NEW y \in T, y < t PROVE FALSE
    <3>1. <<y, t>> \in Nat \X Nat /\ <<y, t>>[1] < <<y, t>>[2]
      BY <1>1, <2>2
    <3> QED BY <3>1, <2>1 DEF OpToRel
  <2> QED BY <1>1, <2>2
<1> USE DEF T
<1>3. PICK m \in S : t = b - m
  OBVIOUS
<1>4. ASSUME NEW n \in S PROVE n <= m
  <2>1. b - n \in T
    OBVIOUS
  <2>2. b - m <= b - n /\ m \in Int /\ n \in Int
    BY <2>1, <1>2, <1>3
  <2> QED BY <2>2
<1> QED BY <1>4

\* expiryFor returns a time, no earlier than any deadline with skew and margin.
LEMMA ExpiryFacts ==
  ASSUME NEW id \in Ids, NEW t \in Nat
  PROVE  /\ expiryFor(id, t) \in Nat
         /\ \A deadline \in NotOnOrAfter[id] : expiryFor(id, t) >= Covered(deadline)
<1> DEFINE S == NotOnOrAfter[id] \cup {t + Floor}
           b == MaxWindow + t + Floor
           m == Latest(t, NotOnOrAfter[id])
<1>1. b \in Nat /\ S \in SUBSET (0..b) /\ S # {}
  <2>1. NotOnOrAfter[id] \in SUBSET (0..MaxWindow)
    BY DeadlinesType
  <2> QED BY <2>1, Durations, ModelBounds
<1>2. \E x \in S : \A n \in S : n <= x
  BY <1>1, GreatestNat
<1>3. m \in S /\ \A n \in S : n <= m
  BY <1>2 DEF Latest
<1>4. m \in Nat
  BY <1>1, <1>3
<1> HIDE DEF m
<1>5. expiryFor(id, t) = m + Skew + Margin
  BY DEF expiryFor, m
<1>6. \A deadline \in NotOnOrAfter[id] : deadline <= m /\ deadline \in Nat
  BY <1>1, <1>3
<1> QED BY <1>4, <1>5, <1>6, Durations DEF Covered

\* Sweeping only takes away, keeps the cache finite, and takes away nothing
\* that has not expired by t.
LEMMA SweptFacts ==
  ASSUME NEW t \in Nat, IInv
  PROVE  /\ DOMAIN Swept(t) \subseteq DOMAIN items
         /\ IsFiniteSet(DOMAIN Swept(t))
         /\ Cardinality(DOMAIN Swept(t)) \in Nat
         /\ \A id \in DOMAIN Swept(t) : Swept(t)[id] = items[id]
         /\ Swept(t) \in [DOMAIN Swept(t) -> Nat]
         /\ \A id \in (DOMAIN items) \ (DOMAIN Swept(t)) : items[id] <= t
<1>1. items \in [DOMAIN items -> Nat] /\ IsFiniteSet(DOMAIN items)
  BY DEF IInv, TypeOK
<1>2. CASE Cardinality(DOMAIN items) < Capacity
  BY <1>1, <1>2, FS_CardinalityType DEF Swept
<1>3. CASE ~(Cardinality(DOMAIN items) < Capacity)
  <2>1. Swept(t) = [id \in {i \in DOMAIN items : t < items[i]} |-> items[id]]
    BY <1>3 DEF Swept
  <2>2. DOMAIN Swept(t) \in SUBSET DOMAIN items
    BY <2>1
  <2>3. IsFiniteSet(DOMAIN Swept(t))
    BY <2>2, <1>1, FS_Subset
  <2>4. Cardinality(DOMAIN Swept(t)) \in Nat
    BY <2>3, FS_CardinalityType
  <2> QED BY <2>1, <2>2, <2>3, <2>4, <1>1
<1> QED BY <1>2, <1>3

\* A handler that finds its id new has an id that was never accepted: within
\* MaxStall of its deadline check the record cannot have lapsed.
LEMMA NewIsNew ==
  ASSUME IInv, NEW h \in Handlers, pc[h] = "ready", ~Seen(doc[h].id, now[h])
  PROVE  accepted[doc[h].id] = 0
<1> DEFINE id == doc[h].id
<1>1. id \in Ids /\ accepted[id] \in Nat /\ clock \in Nat /\ now[h] \in Nat /\ parsedAt[h] \in Nat
  BY ResponsesType, ModelBounds DEF IInv, TypeOK
<1>2. PICK deadline \in NotOnOrAfter[id] : parsedAt[h] <= deadline + Skew
  BY DEF IInv, ParsedInTime
<1>3. deadline \in Nat
  BY <1>1, DeadlinesType
<1>4. clock <= parsedAt[h] + MaxStall /\ now[h] <= clock
  BY DEF IInv, ParsedInTime, NowPast
<1>5. clock < Covered(deadline)
  BY <1>1, <1>2, <1>3, <1>4, Durations, StallWithinMargin DEF Covered
<1>6. ASSUME accepted[id] > 0 PROVE FALSE
  <2>1. Covered(deadline) \in Nat
    BY <1>3, Durations DEF Covered
  <2>2. id \in DOMAIN items /\ items[id] >= Covered(deadline)
    BY <1>1, <1>5, <1>6, <2>1 DEF IInv, AcceptedCovered
  <2>3. items[id] \in Nat
    BY <2>2 DEF IInv, TypeOK
  <2>4. now[h] < items[id]
    BY <1>1, <1>4, <1>5, <2>1, <2>2, <2>3
  <2> QED BY <2>2, <2>4 DEF Seen
<1> QED BY <1>1, <1>6

-----------------------------------------------------------------------------
\* The initial state satisfies the invariant.
LEMMA InitIInv == Init => IInv
<1> SUFFICES ASSUME Init PROVE IInv
  OBVIOUS
<1>1. DOMAIN items = {} /\ items \in [DOMAIN items -> Nat]
  BY DEF Init
<1>2. TypeOK
  BY <1>1, ModelBounds DEF Init, TypeOK
<1>3. IsFiniteSet(DOMAIN items) /\ Bounded
  BY <1>1, FS_EmptySet, CapacityPositive DEF Bounded
<1>4. AtMostOnce /\ OnlyAcceptedRemembered /\ AcceptedCovered
  BY <1>1 DEF Init, AtMostOnce, OnlyAcceptedRemembered, AcceptedCovered
<1>5. ParsedInTime /\ ExpiryCovers /\ NowPast
  BY DEF Init, ParsedInTime, ExpiryCovers, NowPast
<1> QED BY <1>2, <1>3, <1>4, <1>5 DEF IInv

\* Every step preserves the invariant.
LEMMA NextIInv == IInv /\ [Next]_vars => IInv'
<1> SUFFICES ASSUME IInv, [Next]_vars PROVE IInv'
  OBVIOUS
<1>1. /\ TypeOK /\ IsFiniteSet(DOMAIN items) /\ Bounded /\ AtMostOnce
      /\ OnlyAcceptedRemembered /\ AcceptedCovered /\ ParsedInTime /\ ExpiryCovers /\ NowPast
  BY DEF IInv
<1>2. /\ clock \in Nat /\ clock <= MaxTime
      /\ DOMAIN items \subseteq Ids /\ items \in [DOMAIN items -> Nat]
      /\ \A h \in Handlers : /\ doc[h] \in Responses /\ doc[h].id \in Ids
                             /\ parsedAt[h] \in Nat /\ expiresAt[h] \in Nat /\ now[h] \in Nat
      /\ \A id \in Ids : accepted[id] \in Nat
  BY <1>1, ModelBounds, ResponsesType DEF TypeOK
<1>3. \A id \in Ids : \A deadline \in NotOnOrAfter[id] :
        deadline \in Nat /\ Covered(deadline) \in Nat
  BY DeadlinesType, Durations DEF Covered
<1>4. CASE Tick
  <2>1. /\ clock' = clock + 1 /\ clock' \in 0..MaxTime
        /\ \A h \in Handlers : pc[h] # "idle" => clock < parsedAt[h] + MaxStall
        /\ UNCHANGED <<items, pc, doc, parsedAt, expiresAt, now, accepted>>
    BY <1>2, <1>4, ModelBounds DEF Tick
  <2>2. TypeOK' /\ IsFiniteSet(DOMAIN items)' /\ Bounded' /\ AtMostOnce' /\ OnlyAcceptedRemembered'
    BY <2>1, <1>1 DEF TypeOK, Bounded, AtMostOnce, OnlyAcceptedRemembered
  <2>3. AcceptedCovered'
    BY <2>1, <1>1, <1>2, <1>3 DEF AcceptedCovered, Covered
  <2>4. ParsedInTime'
    <3>1. \A h \in Handlers : pc[h] # "idle" => clock + 1 <= parsedAt[h] + MaxStall
      BY <2>1, <1>2, Durations
    <3> QED BY <3>1, <2>1, <1>1 DEF ParsedInTime
  <2>5. ExpiryCovers'
    BY <2>1, <1>1 DEF ExpiryCovers, Covered
  <2>6. NowPast'
    BY <2>1, <1>1, <1>2 DEF NowPast
  <2> QED BY <2>2, <2>3, <2>4, <2>5, <2>6 DEF IInv
<1>5. ASSUME NEW h \in Handlers, NEW r \in Responses, Parse(h, r) PROVE IInv'
  <2>1. /\ doc' = [doc EXCEPT ![h] = r] /\ parsedAt' = [parsedAt EXCEPT ![h] = clock]
        /\ pc' = [pc EXCEPT ![h] = "parsed"] /\ ParseXMLResponse(r, clock)
        /\ UNCHANGED <<clock, items, expiresAt, now, accepted>>
    BY <1>5 DEF Parse
  <2>2. TypeOK'
    BY <2>1, <1>1 DEF TypeOK
  <2>3. IsFiniteSet(DOMAIN items)' /\ Bounded' /\ AtMostOnce' /\ OnlyAcceptedRemembered' /\ AcceptedCovered'
    BY <2>1, <1>1 DEF Bounded, AtMostOnce, OnlyAcceptedRemembered, AcceptedCovered, Covered
  <2>4. \A g \in Handlers :
          /\ pc'[g] = IF g = h THEN "parsed" ELSE pc[g]
          /\ doc'[g] = IF g = h THEN r ELSE doc[g]
          /\ parsedAt'[g] = IF g = h THEN clock ELSE parsedAt[g]
    BY <2>1, <1>1 DEF TypeOK
  <2>5. ParsedInTime'
    <3>1. \E deadline \in NotOnOrAfter[r.id] : clock <= deadline + Skew
      BY <2>1 DEF ParseXMLResponse
    <3>2. clock <= clock + MaxStall
      BY <1>2, Durations
    <3> QED BY <3>1, <3>2, <2>1, <2>4, <1>1 DEF ParsedInTime
  <2>6. ExpiryCovers'
    BY <2>1, <2>4, <1>1 DEF ExpiryCovers, Covered
  <2>7. NowPast'
    BY <2>1, <2>4, <1>1 DEF NowPast
  <2> QED BY <2>2, <2>3, <2>5, <2>6, <2>7 DEF IInv
<1>6. ASSUME NEW h \in Handlers, ComputeExpiry(h) PROVE IInv'
  <2>1. /\ pc[h] = "parsed" /\ expiresAt' = [expiresAt EXCEPT ![h] = expiryFor(doc[h].id, clock)]
        /\ pc' = [pc EXCEPT ![h] = "stamped"]
        /\ UNCHANGED <<clock, items, doc, parsedAt, now, accepted>>
    BY <1>6 DEF ComputeExpiry
  <2>2. /\ expiryFor(doc[h].id, clock) \in Nat
        /\ \A deadline \in NotOnOrAfter[doc[h].id] :
             expiryFor(doc[h].id, clock) >= Covered(deadline)
    BY <1>2, ExpiryFacts
  <2>3. TypeOK'
    BY <2>1, <2>2, <1>1 DEF TypeOK
  <2>4. IsFiniteSet(DOMAIN items)' /\ Bounded' /\ AtMostOnce' /\ OnlyAcceptedRemembered' /\ AcceptedCovered'
    BY <2>1, <1>1 DEF Bounded, AtMostOnce, OnlyAcceptedRemembered, AcceptedCovered, Covered
  <2>5. \A g \in Handlers :
          /\ pc'[g] = IF g = h THEN "stamped" ELSE pc[g]
          /\ expiresAt'[g] = IF g = h THEN expiryFor(doc[h].id, clock) ELSE expiresAt[g]
    BY <2>1, <1>1 DEF TypeOK
  <2>6. ParsedInTime'
    BY <2>1, <2>5, <1>1 DEF ParsedInTime
  <2>7. ExpiryCovers'
    BY <2>1, <2>2, <2>5, <1>1 DEF ExpiryCovers, Covered
  <2>8. NowPast'
    BY <2>1, <2>5, <1>1 DEF NowPast
  <2> QED BY <2>3, <2>4, <2>6, <2>7, <2>8 DEF IInv
<1>7. ASSUME NEW h \in Handlers, ReadNow(h) PROVE IInv'
  <2>1. /\ pc[h] = "stamped" /\ now' = [now EXCEPT ![h] = clock]
        /\ pc' = [pc EXCEPT ![h] = "ready"]
        /\ UNCHANGED <<clock, items, doc, parsedAt, expiresAt, accepted>>
    BY <1>7 DEF ReadNow
  <2>2. TypeOK'
    BY <2>1, <1>1 DEF TypeOK
  <2>3. IsFiniteSet(DOMAIN items)' /\ Bounded' /\ AtMostOnce' /\ OnlyAcceptedRemembered' /\ AcceptedCovered'
    BY <2>1, <1>1 DEF Bounded, AtMostOnce, OnlyAcceptedRemembered, AcceptedCovered, Covered
  <2>4. \A g \in Handlers :
          /\ pc'[g] = IF g = h THEN "ready" ELSE pc[g]
          /\ now'[g] = IF g = h THEN clock ELSE now[g]
    BY <2>1, <1>1 DEF TypeOK
  <2>5. ParsedInTime' /\ ExpiryCovers'
    BY <2>1, <2>4, <1>1 DEF ParsedInTime, ExpiryCovers, Covered
  <2>6. NowPast'
    BY <2>1, <2>4, <1>1, <1>2 DEF NowPast
  <2> QED BY <2>2, <2>3, <2>5, <2>6 DEF IInv
\* The three outcomes of SeenOrAdd leave the handler idle and the locals alone.
<1>8. ASSUME NEW h \in Handlers, pc' = [pc EXCEPT ![h] = "idle"],
             UNCHANGED <<clock, doc, parsedAt, expiresAt, now>>
      PROVE  /\ ParsedInTime' /\ ExpiryCovers' /\ NowPast'
             /\ pc' \in [Handlers -> {"idle", "parsed", "stamped", "ready"}]
  <2>1. \A g \in Handlers : pc'[g] = IF g = h THEN "idle" ELSE pc[g]
    BY <1>1, <1>8 DEF TypeOK
  <2> QED BY <2>1, <1>1, <1>8 DEF ParsedInTime, ExpiryCovers, NowPast, Covered, TypeOK
<1>9. ASSUME NEW h \in Handlers, SeenOrAddSeen(h) PROVE IInv'
  <2>1. pc' = [pc EXCEPT ![h] = "idle"] /\ UNCHANGED <<clock, items, doc, parsedAt, expiresAt, now, accepted>>
    BY <1>9 DEF SeenOrAddSeen
  <2>2. ParsedInTime' /\ ExpiryCovers' /\ NowPast' /\ pc' \in [Handlers -> {"idle", "parsed", "stamped", "ready"}]
    BY <2>1, <1>8
  <2> QED BY <2>1, <2>2, <1>1
       DEF IInv, TypeOK, Bounded, AtMostOnce, OnlyAcceptedRemembered, AcceptedCovered, Covered
<1>10. ASSUME NEW h \in Handlers, SeenOrAddFull(h) PROVE IInv'
  <2>1. /\ pc[h] = "ready" /\ items' = Swept(now[h]) /\ pc' = [pc EXCEPT ![h] = "idle"]
        /\ UNCHANGED <<clock, doc, parsedAt, expiresAt, now, accepted>>
    BY <1>10 DEF SeenOrAddFull
  <2>2. /\ DOMAIN items' \subseteq DOMAIN items
        /\ IsFiniteSet(DOMAIN items')
        /\ \A id \in DOMAIN items' : items'[id] = items[id]
        /\ items' \in [DOMAIN items' -> Nat]
        /\ \A id \in (DOMAIN items) \ (DOMAIN items') : items[id] <= now[h]
    BY <2>1, <1>2, SweptFacts
  <2>3. ParsedInTime' /\ ExpiryCovers' /\ NowPast' /\ pc' \in [Handlers -> {"idle", "parsed", "stamped", "ready"}]
    BY <2>1, <1>8
  <2>4. TypeOK'
    BY <2>1, <2>2, <2>3, <1>1 DEF TypeOK
  <2>5. Bounded'
    <3>1. Cardinality(DOMAIN items') <= Cardinality(DOMAIN items)
      BY <2>2, <1>1, FS_Subset
    <3>2. Cardinality(DOMAIN items') \in Nat /\ Cardinality(DOMAIN items) \in Nat
      BY <2>2, <1>1, FS_CardinalityType
    <3>3. Cardinality(DOMAIN items) <= Capacity /\ Capacity \in Nat
      BY <1>1, CapacityPositive DEF Bounded
    <3>4. Cardinality(DOMAIN items') <= Capacity
      BY <3>1, <3>2, <3>3
    <3> QED BY <3>4 DEF Bounded
  <2>6. AtMostOnce' /\ OnlyAcceptedRemembered'
    BY <2>1, <2>2, <1>1 DEF AtMostOnce, OnlyAcceptedRemembered
  <2>7. AcceptedCovered'
    <3>1. SUFFICES ASSUME NEW id \in Ids, NEW deadline \in NotOnOrAfter[id], accepted[id] > 0
                   PROVE  \/ id \in DOMAIN items' /\ items'[id] >= Covered(deadline)
                          \/ clock >= Covered(deadline)
      BY <2>1 DEF AcceptedCovered, Covered
    <3>2. CASE clock >= Covered(deadline)
      BY <3>2
    <3>3. CASE id \in DOMAIN items /\ items[id] >= Covered(deadline)
      <4>1. CASE id \in DOMAIN items'
        BY <3>3, <4>1, <2>2
      <4>2. CASE id \notin DOMAIN items'
        <5>1. items[id] <= now[h] /\ now[h] <= clock
          BY <3>3, <4>2, <2>1, <2>2, <1>1 DEF NowPast
        <5>2. items[id] \in Nat /\ now[h] \in Nat /\ clock \in Nat /\ Covered(deadline) \in Nat
          BY <3>3, <1>2, <1>3
        <5> QED BY <5>1, <5>2, <3>3
      <4> QED BY <4>1, <4>2
    <3> QED BY <3>1, <3>2, <3>3, <1>1 DEF AcceptedCovered
  <2> QED BY <2>2, <2>3, <2>4, <2>5, <2>6, <2>7 DEF IInv
<1>11. ASSUME NEW h \in Handlers, SeenOrAddNew(h) PROVE IInv'
  <2> DEFINE new == doc[h].id
             sw == Swept(now[h])
  <2>1. /\ pc[h] = "ready" /\ ~Seen(new, now[h]) /\ Cardinality(DOMAIN sw) < Capacity
        /\ accepted[new] < MaxAccepted
        /\ items' = [id \in (DOMAIN sw) \cup {new} |-> IF id = new THEN expiresAt[h] ELSE items[id]]
        /\ accepted' = [accepted EXCEPT ![new] = @ + 1] /\ pc' = [pc EXCEPT ![h] = "idle"]
        /\ UNCHANGED <<clock, doc, parsedAt, expiresAt, now>>
    BY <1>11 DEF SeenOrAddNew
  <2>2. new \in Ids /\ expiresAt[h] \in Nat /\ now[h] \in Nat
    BY <1>2
  <2>3. /\ DOMAIN sw \subseteq DOMAIN items
        /\ IsFiniteSet(DOMAIN sw)
        /\ Cardinality(DOMAIN sw) \in Nat
        /\ \A id \in DOMAIN sw : sw[id] = items[id]
        /\ sw \in [DOMAIN sw -> Nat]
        /\ \A id \in (DOMAIN items) \ (DOMAIN sw) : items[id] <= now[h]
    BY <2>2, SweptFacts
  <2>4. accepted[new] = 0
    BY <2>1, NewIsNew
  <2> HIDE DEF sw, new
  <2>5. /\ DOMAIN items' = (DOMAIN sw) \cup {new} /\ items'[new] = expiresAt[h]
        /\ \A id \in (DOMAIN sw) \ {new} : items'[id] = items[id]
    BY <2>1
  <2>6. \A id \in Ids : accepted'[id] = IF id = new THEN 1 ELSE accepted[id]
    BY <2>1, <2>2, <2>4, <1>1 DEF TypeOK
  <2>7. ParsedInTime' /\ ExpiryCovers' /\ NowPast' /\ pc' \in [Handlers -> {"idle", "parsed", "stamped", "ready"}]
    BY <2>1, <1>8
  <2>8. TypeOK'
    <3>1. accepted' \in [Ids -> 0..MaxAccepted]
      <4>1. accepted[new] + 1 \in 0..MaxAccepted
        BY <2>4, ModelBounds
      <4> QED BY <4>1, <2>1, <2>2, <1>1 DEF TypeOK
    <3>2. DOMAIN items' \subseteq Ids /\ items' \in [DOMAIN items' -> Nat]
      <4>1. \A id \in DOMAIN items' : items'[id] \in Nat
        BY <2>2, <2>3, <2>5, <1>2
      <4>2. DOMAIN items' \subseteq Ids
        BY <2>2, <2>3, <2>5, <1>2
      <4> QED BY <4>1, <4>2, <2>1
    <3> QED BY <3>1, <3>2, <2>1, <2>7, <1>1 DEF TypeOK
  <2>9. IsFiniteSet(DOMAIN items')
    BY <2>3, <2>5, FS_AddElement
  <2>10. Bounded'
    <3>1. Cardinality((DOMAIN sw) \cup {new}) <= Cardinality(DOMAIN sw) + 1
      BY <2>3, FS_AddElement
    <3>2. Cardinality(DOMAIN items') \in Nat
      BY <2>9, FS_CardinalityType
    <3>3. Cardinality(DOMAIN items') <= Capacity
      BY <3>1, <3>2, <2>1, <2>3, <2>5, CapacityPositive
    <3> QED BY <3>3 DEF Bounded
  <2>11. AtMostOnce'
    BY <2>6, <1>1 DEF AtMostOnce
  <2>12. OnlyAcceptedRemembered'
    <3>1. ASSUME NEW id \in DOMAIN items' PROVE accepted'[id] > 0
      <4>1. id \in Ids
        BY <2>8 DEF TypeOK
      <4>2. CASE id = new
        BY <4>1, <4>2, <2>6
      <4>3. CASE id # new
        BY <4>1, <4>3, <2>3, <2>5, <2>6, <1>1 DEF OnlyAcceptedRemembered
      <4> QED BY <4>2, <4>3
    <3> QED BY <3>1 DEF OnlyAcceptedRemembered
  <2>13. AcceptedCovered'
    <3>1. SUFFICES ASSUME NEW id \in Ids, NEW deadline \in NotOnOrAfter[id], accepted'[id] > 0
                   PROVE  \/ id \in DOMAIN items' /\ items'[id] >= Covered(deadline)
                          \/ clock >= Covered(deadline)
      BY <2>1 DEF AcceptedCovered, Covered
    <3>2. CASE id = new
      <4>1. expiresAt[h] >= Covered(deadline)
        BY <3>2, <2>1, <1>1 DEF ExpiryCovers, new
      <4> QED BY <3>2, <4>1, <2>5
    <3>3. CASE id # new
      <4>1. accepted[id] > 0
        BY <3>1, <3>3, <2>6
      <4>2. CASE clock >= Covered(deadline)
        BY <4>2
      <4>3. CASE id \in DOMAIN items /\ items[id] >= Covered(deadline)
        <5>1. CASE id \in DOMAIN sw
          BY <3>3, <4>3, <5>1, <2>5
        <5>2. CASE id \notin DOMAIN sw
          <6>1. items[id] <= now[h] /\ now[h] <= clock
            BY <4>3, <5>2, <2>1, <2>3, <1>1 DEF NowPast
          <6>2. items[id] \in Nat /\ now[h] \in Nat /\ clock \in Nat /\ Covered(deadline) \in Nat
            BY <4>3, <1>2, <1>3
          <6> QED BY <6>1, <6>2, <4>3
        <5> QED BY <5>1, <5>2
      <4> QED BY <4>1, <4>2, <4>3, <1>1 DEF AcceptedCovered
    <3> QED BY <3>2, <3>3
  <2> QED BY <2>7, <2>8, <2>9, <2>10, <2>11, <2>12, <2>13 DEF IInv
<1>12. CASE UNCHANGED vars
  BY <1>1, <1>12 DEF vars, IInv, TypeOK, Bounded, AtMostOnce, OnlyAcceptedRemembered,
                     AcceptedCovered, ParsedInTime, ExpiryCovers, NowPast, Covered
<1> QED BY <1>4, <1>5, <1>6, <1>7, <1>9, <1>10, <1>11, <1>12 DEF Next

\* The inductive invariant holds in every reachable state.
THEOREM ReplayInvariant == Spec => []IInv
BY InitIInv, NextIInv, PTL DEF Spec

\* No assertion is accepted twice, provided a handler gets from crewjam's
\* clock check to the cache within the margin (validate.go:147-167).
THEOREM ReplayAtMostOnce == Spec => []AtMostOnce
<1>1. IInv => AtMostOnce
  BY DEF IInv
<1> QED BY <1>1, ReplayInvariant, PTL

\* The cache remembers accepted assertions only: a rejected response uses no
\* id up (validate.go:93-99).
THEOREM ReplayRemembersAccepted == Spec => []OnlyAcceptedRemembered
<1>1. IInv => OnlyAcceptedRemembered
  BY DEF IInv
<1> QED BY <1>1, ReplayInvariant, PTL

\* The cache stays within its capacity (replay.go:40).
THEOREM ReplayBounded == Spec => []Bounded
<1>1. IInv => Bounded
  BY DEF IInv
<1> QED BY <1>1, ReplayInvariant, PTL

\* Type correctness of the cache and the handlers' locals.
THEOREM ReplayTypeCorrect == Spec => []TypeOK
<1>1. IInv => TypeOK
  BY DEF IInv
<1> QED BY <1>1, ReplayInvariant, PTL

\* A live record is never dropped or shortened (replay.go:40-43): the clock
\* reading a sweep uses may be old, but never ahead of the clock.
THEOREM ReplayProtectedUntilExpiry == Spec => ProtectedUntilExpiry
<1> DEFINE Kept == \A id \in DOMAIN items :
             clock < items[id] => id \in DOMAIN items' /\ items'[id] >= items[id]
<1>1. ASSUME IInv, [Next]_vars PROVE Kept
  <2>1. \A id \in DOMAIN items : items[id] \in Nat
    BY <1>1 DEF IInv, TypeOK
  <2>2. clock \in Nat /\ \A h \in Handlers : now[h] \in Nat /\ (pc[h] = "ready" => now[h] <= clock)
    BY <1>1, ModelBounds DEF IInv, TypeOK, NowPast
  <2>3. CASE items' = items
    BY <2>1, <2>3
  <2>4. ASSUME NEW h \in Handlers, SeenOrAddFull(h) PROVE Kept
    <3>1. items' = Swept(now[h]) /\ pc[h] = "ready"
      BY <2>4 DEF SeenOrAddFull
    <3>2. /\ \A id \in DOMAIN items' : items'[id] = items[id]
          /\ \A id \in (DOMAIN items) \ (DOMAIN items') : items[id] <= now[h]
      BY <3>1, <2>2, <1>1, SweptFacts
    <3> QED BY <3>1, <3>2, <2>1, <2>2
  <2>5. ASSUME NEW h \in Handlers, SeenOrAddNew(h) PROVE Kept
    <3> DEFINE new == doc[h].id
               sw == Swept(now[h])
    <3>1. /\ pc[h] = "ready" /\ ~Seen(new, now[h])
          /\ items' = [id \in (DOMAIN sw) \cup {new} |-> IF id = new THEN expiresAt[h] ELSE items[id]]
      BY <2>5 DEF SeenOrAddNew
    <3>2. \A id \in (DOMAIN items) \ (DOMAIN sw) : items[id] <= now[h]
      BY <2>2, <1>1, SweptFacts
    <3> HIDE DEF new, sw
    <3>3. SUFFICES ASSUME NEW id \in DOMAIN items, clock < items[id]
                   PROVE  id \in DOMAIN items' /\ items'[id] >= items[id]
      OBVIOUS
    <3>4. now[h] < items[id]
      BY <3>1, <3>3, <2>1, <2>2
    <3>5. id # new /\ id \in DOMAIN sw
      BY <3>1, <3>2, <3>4, <2>1, <2>2 DEF Seen
    <3> QED BY <3>1, <3>5, <2>1
  <2>6. CASE Next /\ items' # items
    BY <2>4, <2>5, <2>6 DEF Next, Tick, Parse, ComputeExpiry, ReadNow, SeenOrAddSeen
  <2>7. CASE UNCHANGED vars
    BY <2>3, <2>7 DEF vars
  <2> QED BY <1>1, <2>3, <2>6, <2>7
<1>2. IInv /\ [Next]_vars => [Kept]_vars
  BY <1>1
<1> QED BY <1>2, ReplayInvariant, PTL DEF Spec, ProtectedUntilExpiry
=============================================================================
