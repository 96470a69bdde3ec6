---------------------------- MODULE CaptchaProofs ----------------------------
(***************************************************************************)
(* The captcha store's invariants, for every set of ids and texts, every   *)
(* TTL and every capacity, and those of the token verifier.                *)
(***************************************************************************)
EXTENDS CaptchaStore, TTLListProofs, TokenVerifier

\* No entry expires later than one put now would.
ExpiresSoon == \A id \in DOMAIN store.items : store.items[id].expires <= clock + TTL

\* What is still held has not been read for good.
HeldUnread == \A id \in DOMAIN store.items : guesses[store.items[id].elem] = 0

\* The inductive invariant.  ExpiryOrdered is kept by Set because of
\* ExpiresSoon, and OneGuess is kept by Get because of HeldUnread, which in
\* turn needs the map and the list to agree on the nodes.
IInv ==
  /\ TypeOK
  /\ MapMatchesList
  /\ Bounded
  /\ ExpiryOrdered
  /\ OneGuess
  /\ ExpiresSoon
  /\ HeldUnread

-----------------------------------------------------------------------------
\* What DropOld does: the id is gone, everything else stays.
LEMMA DropOldFacts ==
  ASSUME NEW n \in Nat, NEW st, StoreType(st, Ids, Texts, n), Coherent(st),
         OrderedWithin(st, 0), NEW id
  PROVE  LET d == DropOld(st, id)
         IN  /\ StoreType(d, Ids, Texts, n)
             /\ DOMAIN d.items = (DOMAIN st.items) \ {id}
             /\ \A x \in DOMAIN d.items : d.items[x] = st.items[x]
             /\ Coherent(d)
             /\ OrderedWithin(d, 0)
<1>1. CASE id \in DOMAIN st.items
  <2>1. /\ StoreType(Delete(st, id), Ids, Texts, n)
        /\ DOMAIN Delete(st, id).items = (DOMAIN st.items) \ {id}
        /\ \A x \in DOMAIN Delete(st, id).items : Delete(st, id).items[x] = st.items[x]
        /\ Coherent(Delete(st, id))
        /\ OrderedWithin(st, 0) => OrderedWithin(Delete(st, id), 0)
    BY <1>1, DeleteFacts
  <2> QED BY <2>1, <1>1 DEF DropOld
<1>2. CASE id \notin DOMAIN st.items
  BY <1>2 DEF DropOld
<1> QED BY <1>1, <1>2

\* A store after Set: still well formed, within the cap, ordered, with no
\* expired entry; an entry is either the new one or an old one, and a live
\* one is lost only to a full store, in which everything else is younger.
AfterSetIs(st, id, value, now, n, d) ==
  /\ StoreType(d, Ids, Texts, n + 1)
  /\ Coherent(d)
  /\ OrderedWithin(d, 0)
  /\ Cardinality(DOMAIN d.items) <= MaxItems
  /\ id \in DOMAIN d.items
  /\ d.items[id] = [value |-> value, expires |-> now + TTL, elem |-> n + 1]
  /\ \A x \in (DOMAIN d.items) \ {id} :
       /\ x \in DOMAIN st.items
       /\ d.items[x] = st.items[x]
       /\ d.items[x].expires >= now
  /\ \A x \in (DOMAIN st.items) \ (DOMAIN d.items) :
       st.items[x].expires >= now =>
         /\ Cardinality(DOMAIN d.items) = MaxItems
         /\ \A y \in DOMAIN d.items : st.items[x].elem < d.items[y].elem

LEMMA AfterSetFacts ==
  ASSUME NEW n \in Nat, NEW st, StoreType(st, Ids, Texts, n), Coherent(st),
         OrderedWithin(st, 0), NEW id \in Ids, NEW value \in Texts, NEW now \in Nat,
         \A x \in DOMAIN st.items : st.items[x].expires <= now + TTL
  PROVE  AfterSetIs(st, id, value, now, n, AfterSet(st, id, value, now, n + 1))
<1> DEFINE a == Purge(st, now)
           b == DropOld(a, id)
           c == MakeRoom(b, MaxItems)
           d == PushBack(c, id, value, now + TTL, n + 1)
           k == PurgeRounds(st, now)
           m == EvictRounds(b, MaxItems)
<1>1. now + TTL \in Nat /\ MaxItems \in Nat \ {0} /\ 0 \in Nat
  BY StoreBounds
<1>2. /\ k \in 0..Len(st.order)
      /\ \A x \in (DOMAIN st.items) \ (DOMAIN a.items) : st.items[x].expires < now
      /\ \A x \in DOMAIN a.items : a.items[x].expires + 0 >= now
  BY <1>1, PurgeFacts
<1>3. a = DropFront(st, k)
  BY DEF Purge
<1> HIDE DEF k
<1>4. /\ StoreType(DropFront(st, k), Ids, Texts, n)
      /\ Len(DropFront(st, k).order) = Len(st.order) - k
      /\ \A i \in 1..Len(DropFront(st, k).order) : DropFront(st, k).order[i] = st.order[i + k]
      /\ DOMAIN DropFront(st, k).items \subseteq DOMAIN st.items
      /\ \A x \in DOMAIN DropFront(st, k).items : DropFront(st, k).items[x] = st.items[x]
      /\ \A x \in DOMAIN st.items :
           x \notin DOMAIN DropFront(st, k).items <=> \E i \in 1..k : st.order[i].id = x
  BY <1>2, DropFrontFacts
<1>5. /\ Coherent(DropFront(st, k))
      /\ OrderedWithin(st, 0) => OrderedWithin(DropFront(st, k), 0)
  BY <1>1, <1>2, DropFrontKeeps
<1>6. /\ StoreType(a, Ids, Texts, n) /\ Coherent(a) /\ OrderedWithin(a, 0)
      /\ DOMAIN a.items \subseteq DOMAIN st.items
      /\ \A x \in DOMAIN a.items : a.items[x] = st.items[x] /\ a.items[x].expires >= now
  <2>1. \A x \in DOMAIN a.items : a.items[x].expires \in Nat
    BY <1>3, <1>4 DEF StoreType
  <2> QED BY <2>1, <1>2, <1>3, <1>4, <1>5
<1> HIDE DEF a
<1>7. /\ StoreType(b, Ids, Texts, n)
      /\ DOMAIN b.items = (DOMAIN a.items) \ {id}
      /\ \A x \in DOMAIN b.items : b.items[x] = a.items[x]
      /\ Coherent(b)
      /\ OrderedWithin(b, 0)
  BY <1>6, DropOldFacts
<1> HIDE DEF b
<1>8. m \in 0..Len(b.order) /\ Cardinality(DOMAIN c.items) < MaxItems
  BY <1>1, <1>7, MakeRoomFacts
<1>9. c = DropFront(b, m)
  BY DEF MakeRoom
<1> HIDE DEF m
<1>10. /\ StoreType(DropFront(b, m), Ids, Texts, n)
       /\ Len(DropFront(b, m).order) = Len(b.order) - m
       /\ \A i \in 1..Len(DropFront(b, m).order) : DropFront(b, m).order[i] = b.order[i + m]
       /\ DOMAIN DropFront(b, m).items \subseteq DOMAIN b.items
       /\ \A x \in DOMAIN DropFront(b, m).items : DropFront(b, m).items[x] = b.items[x]
       /\ \A x \in DOMAIN b.items :
            x \notin DOMAIN DropFront(b, m).items <=> \E i \in 1..m : b.order[i].id = x
  BY <1>7, <1>8, DropFrontFacts
<1>11. /\ Coherent(DropFront(b, m))
       /\ OrderedWithin(b, 0) => OrderedWithin(DropFront(b, m), 0)
  BY <1>1, <1>7, <1>8, DropFrontKeeps
<1>12. /\ StoreType(c, Ids, Texts, n) /\ Coherent(c) /\ OrderedWithin(c, 0)
       /\ id \notin DOMAIN c.items
       /\ \A x \in DOMAIN c.items :
            /\ x \in DOMAIN st.items
            /\ c.items[x] = st.items[x]
            /\ c.items[x].expires >= now
            /\ c.items[x].expires <= (now + TTL) + 0
  <2>1. \A x \in DOMAIN c.items :
          x \in DOMAIN st.items /\ c.items[x] = st.items[x] /\ c.items[x].expires >= now
    BY <1>6, <1>7, <1>9, <1>10
  <2>2. \A x \in DOMAIN c.items : c.items[x].expires <= (now + TTL) + 0
    BY <2>1, <1>1
  <2> QED BY <2>1, <2>2, <1>7, <1>9, <1>10, <1>11
<1> HIDE DEF c
<1>13. /\ StoreType(d, Ids, Texts, n + 1)
       /\ DOMAIN d.items = (DOMAIN c.items) \cup {id}
       /\ \A x \in DOMAIN c.items : d.items[x] = c.items[x]
       /\ d.items[id] = [value |-> value, expires |-> now + TTL, elem |-> n + 1]
       /\ Coherent(d)
       /\ OrderedWithin(c, 0)
            /\ (\A x \in DOMAIN c.items : c.items[x].expires <= (now + TTL) + 0)
          => OrderedWithin(d, 0)
  BY <1>1, <1>12, PushBackFacts
<1> HIDE DEF d
<1>14. Cardinality(DOMAIN d.items) <= MaxItems
  <2>1. IsFiniteSet(DOMAIN c.items)
    BY <1>12 DEF StoreType
  <2>2. Cardinality((DOMAIN c.items) \cup {id}) = Cardinality(DOMAIN c.items) + 1
    BY <2>1, <1>12, FS_AddElement
  <2>3. Cardinality(DOMAIN c.items) \in Nat
    BY <2>1, FS_CardinalityType
  <2>4. Cardinality(DOMAIN c.items) + 1 <= MaxItems
    BY <2>3, <1>1, <1>8
  <2> QED BY <2>2, <2>4, <1>13
<1>15. AfterSet(st, id, value, now, n + 1) = d
  BY DEF AfterSet, a, b, c, d
<1>16. ASSUME NEW x \in (DOMAIN st.items) \ (DOMAIN d.items), st.items[x].expires >= now
       PROVE  /\ Cardinality(DOMAIN d.items) = MaxItems
              /\ \A y \in DOMAIN d.items : st.items[x].elem < d.items[y].elem
  <2>1. st.items[x].expires \in Nat /\ st.items[x].elem \in 1..n
    BY NodeFacts
  <2>2. x \in DOMAIN a.items
    BY <2>1, <1>2, <1>16 DEF a
  <2>3. x \in (DOMAIN b.items) \ (DOMAIN c.items) /\ b.items[x] = st.items[x]
    BY <2>2, <1>6, <1>7, <1>13
  <2>4. c = MakeRoom(b, MaxItems)
    BY DEF c
  <2>5. /\ Cardinality(DOMAIN c.items) = MaxItems - 1
        /\ \A y \in DOMAIN c.items : b.items[x].elem < b.items[y].elem
    <3>1. x \in (DOMAIN b.items) \ (DOMAIN MakeRoom(b, MaxItems).items)
      BY <2>3, <2>4
    <3>2. /\ Cardinality(DOMAIN MakeRoom(b, MaxItems).items) = MaxItems - 1
          /\ \A y \in DOMAIN MakeRoom(b, MaxItems).items : b.items[x].elem < b.items[y].elem
      BY <3>1, <1>1, <1>7, MakeRoomEvicts
    <3> QED BY <3>2, <2>4
  <2>6. Cardinality(DOMAIN d.items) = MaxItems
    <3>1. IsFiniteSet(DOMAIN c.items)
      BY <1>12 DEF StoreType
    <3>2. Cardinality((DOMAIN c.items) \cup {id}) = Cardinality(DOMAIN c.items) + 1
      BY <3>1, <1>12, FS_AddElement
    <3> QED BY <3>2, <2>5, <1>1, <1>13
  <2>7. ASSUME NEW y \in DOMAIN d.items PROVE st.items[x].elem < d.items[y].elem
    <3>1. CASE y = id
      BY <3>1, <2>1, <1>13
    <3>2. CASE y # id
      <4>1. y \in DOMAIN c.items /\ d.items[y] = c.items[y]
        BY <3>2, <1>13
      <4>2. c.items[y] = b.items[y]
        BY <4>1, <1>9, <1>10
      <4> QED BY <4>1, <4>2, <2>3, <2>5
    <3> QED BY <3>1, <3>2
  <2> QED BY <2>6, <2>7
<1> QED BY <1>12, <1>13, <1>14, <1>15, <1>16 DEF AfterSetIs

\* A store after Get: the id is gone, or nothing changed.
LEMMA GetStepFacts ==
  ASSUME IInv, NEW id \in Ids, NEW clear \in BOOLEAN, GetStep(id, clear),
         UNCHANGED <<clock, sets>>
  PROVE  /\ StoreType(store', Ids, Texts, sets)
         /\ Coherent(store')
         /\ OrderedWithin(store', 0)
         /\ DOMAIN store'.items \subseteq DOMAIN store.items
         /\ \A x \in DOMAIN store'.items : store'.items[x] = store.items[x]
         /\ (Live(id) /\ clear) => DOMAIN store'.items = (DOMAIN store.items) \ {id}
<1>1. StoreType(store, Ids, Texts, sets) /\ Coherent(store) /\ OrderedWithin(store, 0) /\ sets \in Nat
  BY DEF IInv, TypeOK, MapMatchesList, ExpiryOrdered
<1>2. CASE id \in DOMAIN store.items /\ (clear \/ ~Live(id))
  <2>1. /\ StoreType(Delete(store, id), Ids, Texts, sets)
        /\ DOMAIN Delete(store, id).items = (DOMAIN store.items) \ {id}
        /\ \A x \in DOMAIN Delete(store, id).items : Delete(store, id).items[x] = store.items[x]
        /\ Coherent(Delete(store, id))
        /\ OrderedWithin(store, 0) => OrderedWithin(Delete(store, id), 0)
    BY <1>1, <1>2, DeleteFacts
  <2>2. store' = Delete(store, id)
    BY <1>2 DEF GetStep
  <2> QED BY <2>1, <2>2, <1>1
<1>3. CASE ~(id \in DOMAIN store.items /\ (clear \/ ~Live(id)))
  <2>1. store' = store
    BY <1>3 DEF GetStep
  <2>2. ~(Live(id) /\ clear)
    BY <1>3 DEF Live
  <2> QED BY <2>1, <2>2, <1>1
<1> QED BY <1>2, <1>3

-----------------------------------------------------------------------------
\* The initial state satisfies the invariant.
LEMMA InitIInv == Init => IInv
<1> SUFFICES ASSUME Init PROVE IInv
  OBVIOUS
<1>1. DOMAIN store.items = {} /\ store.order = << >> /\ Len(store.order) = 0
  BY DEF Init, EmptyStore
<1>2. store.items \in [DOMAIN store.items -> [value : Texts, expires : Nat, elem : 1..0]]
  BY DEF Init, EmptyStore
<1>3. store.order \in Seq([id : Ids, elem : 1..0])
  BY <1>1, EmptySeq
<1>4. StoreType(store, Ids, Texts, 0)
  BY <1>1, <1>2, <1>3, FS_EmptySet DEF StoreType
<1>5. TypeOK
  <2>1. 1..0 = {}
    OBVIOUS
  <2>2. guesses \in [1..sets -> Nat]
    BY <2>1 DEF Init
  <2> QED BY <2>2, <1>4, ModelBounds DEF Init, TypeOK
<1>6. MapMatchesList /\ ExpiryOrdered
  BY <1>1 DEF MapMatchesList, Coherent, ExpiryOrdered, OrderedWithin
<1>7. Bounded
  BY <1>1, FS_EmptySet, StoreBounds DEF Bounded
<1>8. OneGuess /\ ExpiresSoon /\ HeldUnread
  BY <1>1 DEF Init, OneGuess, ExpiresSoon, HeldUnread
<1> QED BY <1>5, <1>6, <1>7, <1>8 DEF IInv

\* Every step preserves the invariant.
LEMMA NextIInv == IInv /\ [Next]_vars => IInv'
<1> SUFFICES ASSUME IInv, [Next]_vars PROVE IInv'
  OBVIOUS
<1>1. /\ clock \in Nat /\ clock <= MaxTime /\ sets \in Nat /\ sets <= MaxSets
      /\ StoreType(store, Ids, Texts, sets) /\ Coherent(store) /\ OrderedWithin(store, 0)
      /\ guesses \in [1..sets -> Nat] /\ solved \in SUBSET (1..sets)
  BY ModelBounds DEF IInv, TypeOK, MapMatchesList, ExpiryOrdered
<1>2. \A x \in DOMAIN store.items :
        /\ store.items[x].expires \in Nat /\ store.items[x].elem \in 1..sets
        /\ store.items[x].expires <= clock + TTL
        /\ guesses[store.items[x].elem] = 0
  BY <1>1, NodeFacts DEF IInv, ExpiresSoon, HeldUnread
<1>3. CASE Tick
  <2>1. clock' = clock + 1 /\ clock' \in 0..MaxTime /\ UNCHANGED <<store, sets, guesses, solved>>
    BY <1>1, <1>3, ModelBounds DEF Tick
  <2>2. ExpiresSoon'
    BY <2>1, <1>1, <1>2, StoreBounds DEF ExpiresSoon
  <2> QED BY <2>1, <2>2
       DEF IInv, TypeOK, MapMatchesList, Bounded, ExpiryOrdered, OneGuess, HeldUnread
<1>4. ASSUME NEW id \in Ids, NEW value \in Texts, Set(id, value) PROVE IInv'
  <2> DEFINE d == AfterSet(store, id, value, clock, sets + 1)
  <2>1. /\ sets < MaxSets /\ sets' = sets + 1 /\ store' = d /\ UNCHANGED <<clock, solved>>
        /\ guesses' = [e \in 1..(sets + 1) |-> IF e <= sets THEN guesses[e] ELSE 0]
    BY <1>4 DEF Set
  <2>2. /\ StoreType(d, Ids, Texts, sets + 1)
        /\ Coherent(d)
        /\ OrderedWithin(d, 0)
        /\ Cardinality(DOMAIN d.items) <= MaxItems
        /\ id \in DOMAIN d.items
        /\ d.items[id] = [value |-> value, expires |-> clock + TTL, elem |-> sets + 1]
        /\ \A x \in (DOMAIN d.items) \ {id} :
             /\ x \in DOMAIN store.items
             /\ d.items[x] = store.items[x]
             /\ d.items[x].expires >= clock
    <3>1. AfterSetIs(store, id, value, clock, sets, d)
      BY <1>1, <1>2, AfterSetFacts
    <3> QED BY <3>1 DEF AfterSetIs
  <2> HIDE DEF d
  <2>3. \A e \in 1..(sets + 1) : guesses'[e] = IF e \in 1..sets THEN guesses[e] ELSE 0
    BY <2>1, <1>1
  <2>4. TypeOK'
    <3>1. guesses' \in [1..(sets + 1) -> Nat]
      BY <2>1, <1>1
    <3>2. solved' \in SUBSET (1..(sets + 1))
      BY <2>1, <1>1
    <3>3. clock' \in 0..MaxTime /\ sets' \in 0..MaxSets
      BY <2>1, <1>1, ModelBounds
    <3> QED BY <3>1, <3>2, <3>3, <2>1, <2>2 DEF TypeOK
  <2>5. MapMatchesList' /\ Bounded' /\ ExpiryOrdered'
    BY <2>1, <2>2 DEF MapMatchesList, Bounded, ExpiryOrdered
  <2>6. OneGuess'
    <3>1. ASSUME NEW e \in 1..(sets + 1)
          PROVE  guesses'[e] <= 1 /\ (e \in solved => guesses'[e] = 1)
      <4>1. CASE e \in 1..sets
        BY <4>1, <2>3 DEF IInv, OneGuess
      <4>2. CASE e \notin 1..sets
        BY <4>2, <2>3, <1>1
      <4> QED BY <4>1, <4>2
    <3> QED BY <3>1, <2>1 DEF OneGuess
  <2>7. ExpiresSoon'
    <3>1. \A x \in DOMAIN d.items : d.items[x].expires <= clock + TTL
      BY <2>2, <1>1, <1>2, StoreBounds
    <3> QED BY <3>1, <2>1 DEF ExpiresSoon
  <2>8. HeldUnread'
    <3>1. ASSUME NEW x \in DOMAIN d.items PROVE guesses'[d.items[x].elem] = 0
      <4>1. CASE x = id
        <5>1. d.items[x].elem = sets + 1 /\ sets + 1 \in 1..(sets + 1) /\ sets + 1 \notin 1..sets
          BY <4>1, <2>2, <1>1
        <5> QED BY <5>1, <2>3
      <4>2. CASE x # id
        <5>1. d.items[x] = store.items[x] /\ x \in DOMAIN store.items
          BY <4>2, <2>2
        <5>2. store.items[x].elem \in 1..sets /\ store.items[x].elem \in 1..(sets + 1)
          BY <5>1, <1>1, <1>2
        <5> QED BY <5>1, <5>2, <2>3, <1>2
      <4> QED BY <4>1, <4>2
    <3> QED BY <3>1, <2>1 DEF HeldUnread
  <2> QED BY <2>4, <2>5, <2>6, <2>7, <2>8 DEF IInv
<1>5. ASSUME NEW id \in Ids, NEW clear \in BOOLEAN, GetStep(id, clear),
             UNCHANGED <<clock, sets>>,
             \/ solved' = solved
             \/ clear /\ Live(id) /\ solved' = solved \cup {store.items[id].elem}
      PROVE  IInv'
  <2>1. /\ StoreType(store', Ids, Texts, sets)
        /\ Coherent(store')
        /\ OrderedWithin(store', 0)
        /\ DOMAIN store'.items \subseteq DOMAIN store.items
        /\ \A x \in DOMAIN store'.items : store'.items[x] = store.items[x]
        /\ (Live(id) /\ clear) => DOMAIN store'.items = (DOMAIN store.items) \ {id}
    BY <1>5, GetStepFacts
  <2>2. Live(id) => id \in DOMAIN store.items /\ store.items[id].elem \in 1..sets
    BY <1>2 DEF Live
  <2>3. guesses' = IF Live(id) /\ clear
                     THEN [guesses EXCEPT ![store.items[id].elem] = @ + 1] ELSE guesses
    BY <1>5 DEF GetStep
  <2>4. guesses' \in [1..sets -> Nat] /\ solved' \in SUBSET (1..sets)
    <3>1. guesses' \in [1..sets -> Nat]
      <4>1. CASE Live(id) /\ clear
        <5>1. guesses[store.items[id].elem] + 1 \in Nat
          BY <4>1, <2>2, <1>1
        <5> QED BY <4>1, <5>1, <2>3, <1>1
      <4>2. CASE ~(Live(id) /\ clear)
        BY <4>2, <2>3, <1>1
      <4> QED BY <4>1, <4>2
    <3>2. solved' \in SUBSET (1..sets)
      BY <2>2, <1>1, <1>5
    <3> QED BY <3>1, <3>2
  <2>5. \A e \in 1..sets :
          guesses'[e] = IF Live(id) /\ clear /\ e = store.items[id].elem THEN 1 ELSE guesses[e]
    BY <2>2, <2>3, <1>1, <1>2
  <2>6. TypeOK'
    BY <2>1, <2>4, <1>5 DEF IInv, TypeOK
  <2>7. MapMatchesList' /\ ExpiryOrdered'
    BY <2>1 DEF MapMatchesList, ExpiryOrdered
  <2>8. Bounded'
    <3>1. IsFiniteSet(DOMAIN store.items) /\ DOMAIN store'.items \in SUBSET DOMAIN store.items
      BY <2>1, <1>1 DEF StoreType
    <3>2. Cardinality(DOMAIN store'.items) <= Cardinality(DOMAIN store.items)
      BY <3>1, FS_Subset
    <3>3. Cardinality(DOMAIN store'.items) \in Nat /\ Cardinality(DOMAIN store.items) \in Nat
      BY <3>1, FS_CardinalityType, FS_Subset
    <3>4. Cardinality(DOMAIN store.items) <= MaxItems
      BY DEF IInv, Bounded
    <3>5. Cardinality(DOMAIN store'.items) <= MaxItems
      BY <3>2, <3>3, <3>4, StoreBounds
    <3> QED BY <3>5 DEF Bounded
  <2>9. OneGuess'
    <3>1. ASSUME NEW e \in 1..sets
          PROVE  guesses'[e] <= 1 /\ (e \in solved' => guesses'[e] = 1)
      <4>1. guesses[e] <= 1 /\ (e \in solved => guesses[e] = 1)
        BY DEF IInv, OneGuess
      <4>2. CASE Live(id) /\ clear /\ e = store.items[id].elem
        BY <4>2, <2>5
      <4>3. CASE ~(Live(id) /\ clear /\ e = store.items[id].elem)
        BY <4>1, <4>3, <2>5, <1>5
      <4> QED BY <4>2, <4>3
    <3> QED BY <3>1, <1>5 DEF OneGuess
  <2>10. ExpiresSoon'
    BY <2>1, <1>2, <1>5 DEF ExpiresSoon
  <2>11. HeldUnread'
    <3>1. ASSUME NEW x \in DOMAIN store'.items PROVE guesses'[store'.items[x].elem] = 0
      <4>1. store'.items[x] = store.items[x] /\ x \in DOMAIN store.items
        BY <2>1
      <4>2. store.items[x].elem \in 1..sets /\ guesses[store.items[x].elem] = 0
        BY <4>1, <1>2
      <4>3. CASE Live(id) /\ clear
        <5>1. x # id /\ id \in DOMAIN store.items
          BY <4>3, <2>1, <2>2
        <5>2. store.items[x].elem # store.items[id].elem
          BY <4>1, <5>1, <1>1, DistinctElems
        <5> QED BY <4>1, <4>2, <5>2, <2>5
      <4>4. CASE ~(Live(id) /\ clear)
        BY <4>1, <4>2, <4>4, <2>5
      <4> QED BY <4>3, <4>4
    <3> QED BY <3>1 DEF HeldUnread
  <2> QED BY <2>6, <2>7, <2>8, <2>9, <2>10, <2>11 DEF IInv
<1>6. ASSUME NEW id \in Ids, NEW clear \in BOOLEAN, Get(id, clear) PROVE IInv'
  BY <1>5, <1>6 DEF Get
<1>7. ASSUME NEW id \in Ids, NEW answer \in Texts, NEW clear \in BOOLEAN,
             Verify(id, answer, clear)
      PROVE  IInv'
  <2>1. GetStep(id, clear) /\ UNCHANGED <<clock, sets>>
    BY <1>7 DEF Verify
  <2>2. \/ solved' = solved
        \/ clear /\ Live(id) /\ solved' = solved \cup {store.items[id].elem}
    BY <1>7 DEF Verify, Matches
  <2> QED BY <2>1, <2>2, <1>5
<1>8. CASE UNCHANGED vars
  BY <1>8 DEF vars, IInv, TypeOK, MapMatchesList, Bounded, ExpiryOrdered, OneGuess,
              ExpiresSoon, HeldUnread
<1> QED BY <1>3, <1>4, <1>6, <1>7, <1>8 DEF Next

\* The inductive invariant holds in every reachable state.
THEOREM CaptchaInvariant == Spec => []IInv
BY InitIInv, NextIInv, PTL DEF Spec

\* Type correctness of the store's state.
THEOREM CaptchaTypeCorrect == Spec => []TypeOK
<1>1. IInv => TypeOK
  BY DEF IInv
<1> QED BY <1>1, CaptchaInvariant, PTL

\* An answer is never compared with two guesses, and a solved captcha was
\* solved by its one guess (captcha.go:46-49), whatever the store's size and
\* however calls of Set, Get and Verify are mixed.
THEOREM CaptchaSingleUse == Spec => []OneGuess
<1>1. IInv => OneGuess
  BY DEF IInv
<1> QED BY <1>1, CaptchaInvariant, PTL

\* The map and the list agree and the cap holds after every call
\* (store.go:43-61).
THEOREM CaptchaStoreSound == Spec => [](MapMatchesList /\ Bounded)
<1>1. IInv => MapMatchesList /\ Bounded
  BY DEF IInv
<1> QED BY <1>1, CaptchaInvariant, PTL

\* The list stays expiry-ordered (store.go:180-183).
THEOREM CaptchaExpiryOrdered == Spec => []ExpiryOrdered
<1>1. IInv => ExpiryOrdered
  BY DEF IInv
<1> QED BY <1>1, CaptchaInvariant, PTL

\* No Set leaves an expired entry behind: stopping the purge at the first
\* entry that has not expired misses none (store.go:180-199).
THEOREM CaptchaSetPurgesAll == Spec => SetPurgesAll
<1> DEFINE Purged == sets' # sets =>
             \A id \in DOMAIN store.items' : store.items'[id].expires >= clock
<1>1. ASSUME IInv, [Next]_vars PROVE [Purged]_vars
  <2>1. CASE UNCHANGED vars
    BY <2>1
  <2>2. CASE sets' = sets
    BY <2>2
  <2>3. ASSUME NEW id \in Ids, NEW value \in Texts, Set(id, value) PROVE Purged
    <3> DEFINE d == AfterSet(store, id, value, clock, sets + 1)
    <3>1. /\ clock \in Nat /\ sets \in Nat
          /\ StoreType(store, Ids, Texts, sets) /\ Coherent(store) /\ OrderedWithin(store, 0)
          /\ \A x \in DOMAIN store.items : store.items[x].expires <= clock + TTL
      BY <1>1 DEF IInv, TypeOK, MapMatchesList, ExpiryOrdered, ExpiresSoon
    <3>2. /\ StoreType(d, Ids, Texts, sets + 1)
          /\ Coherent(d)
          /\ OrderedWithin(d, 0)
          /\ Cardinality(DOMAIN d.items) <= MaxItems
          /\ id \in DOMAIN d.items
          /\ d.items[id] = [value |-> value, expires |-> clock + TTL, elem |-> sets + 1]
          /\ \A x \in (DOMAIN d.items) \ {id} :
               /\ x \in DOMAIN store.items
               /\ d.items[x] = store.items[x]
               /\ d.items[x].expires >= clock
      <4>1. AfterSetIs(store, id, value, clock, sets, d)
        BY <3>1, AfterSetFacts
      <4> QED BY <4>1 DEF AfterSetIs
    <3>3. store' = d
      BY <2>3 DEF Set
    <3> HIDE DEF d
    <3>4. \A x \in DOMAIN d.items : d.items[x].expires >= clock
      BY <3>1, <3>2, StoreBounds
    <3> QED BY <3>3, <3>4
  <2>4. CASE Next /\ sets' # sets
    BY <2>3, <2>4 DEF Next, Tick, Get, Verify
  <2> QED BY <1>1, <2>1, <2>2, <2>4
<1>2. IInv /\ [Next]_vars => [Purged]_vars
  BY <1>1
<1> QED BY <1>2, CaptchaInvariant, PTL DEF Spec, SetPurgesAll

\* A Set takes a live entry of another id away only when the store is full, and
\* then an entry older than every one it keeps (store.go:119-126).
THEOREM CaptchaEvictsOldestOnly == Spec => EvictsOldestOnly
<1> DEFINE Evicted ==
             sets' # sets =>
               \A id \in (DOMAIN store.items) \ (DOMAIN store.items') :
                 Live(id) =>
                   /\ Cardinality(DOMAIN store.items') = MaxItems
                   /\ \A other \in DOMAIN store.items' :
                        store.items[id].elem < store.items'[other].elem
<1>1. ASSUME IInv, [Next]_vars PROVE [Evicted]_vars
  <2>1. CASE sets' = sets
    BY <2>1
  <2>2. ASSUME NEW id \in Ids, NEW value \in Texts, Set(id, value) PROVE Evicted
    <3> DEFINE d == AfterSet(store, id, value, clock, sets + 1)
    <3>1. /\ clock \in Nat /\ sets \in Nat
          /\ StoreType(store, Ids, Texts, sets) /\ Coherent(store) /\ OrderedWithin(store, 0)
          /\ \A x \in DOMAIN store.items : store.items[x].expires <= clock + TTL
      BY <1>1 DEF IInv, TypeOK, MapMatchesList, ExpiryOrdered, ExpiresSoon
    <3>2. \A x \in (DOMAIN store.items) \ (DOMAIN d.items) :
            store.items[x].expires >= clock =>
              /\ Cardinality(DOMAIN d.items) = MaxItems
              /\ \A y \in DOMAIN d.items : store.items[x].elem < d.items[y].elem
      <4>1. AfterSetIs(store, id, value, clock, sets, d)
        BY <3>1, AfterSetFacts
      <4> QED BY <4>1 DEF AfterSetIs
    <3>3. store' = d
      BY <2>2 DEF Set
    <3> HIDE DEF d
    <3>4. \A x \in DOMAIN store.items : Live(x) => store.items[x].expires >= clock
      <4>1. \A x \in DOMAIN store.items : store.items[x].expires \in Nat
        BY <3>1, NodeFacts
      <4> QED BY <4>1, <3>1 DEF Live
    <3> QED BY <3>2, <3>3, <3>4
  <2>3. CASE Next /\ sets' # sets
    BY <2>2, <2>3 DEF Next, Tick, Get, Verify
  <2>4. CASE UNCHANGED vars
    BY <2>4
  <2> QED BY <1>1, <2>1, <2>3, <2>4
<1>2. IInv /\ [Next]_vars => [Evicted]_vars
  BY <1>1
<1> QED BY <1>2, CaptchaInvariant, PTL DEF Spec, EvictsOldestOnly

-----------------------------------------------------------------------------
\* A read, of Get or of Verify, is a redemption when it finds a live entry and
\* clears it, and takes something away or nothing otherwise.
LEMMA GetStepRefines ==
  ASSUME IInv, NEW id \in Ids, NEW clear \in BOOLEAN, GetStep(id, clear),
         UNCHANGED <<clock, sets>>
  PROVE  OneTime!Next
<1> DEFINE gone == [id |-> id, value |-> store.items[id].value,
                    expires |-> store.items[id].expires, ticket |-> store.items[id].elem]
           redeemed == {e \in 1..sets : guesses[e] > 0}
<1>1. sets \in Nat /\ guesses \in [1..sets -> Nat] /\ StoreType(store, Ids, Texts, sets)
  BY DEF IInv, TypeOK
<1>2. CASE Live(id) /\ clear
  <2>1. id \in DOMAIN store.items /\ clock <= store.items[id].expires
    BY <1>2 DEF Live
  <2>2. /\ store' = Delete(store, id)
        /\ guesses' = [guesses EXCEPT ![store.items[id].elem] = @ + 1]
    BY <1>2, <2>1 DEF GetStep
  <2>3. gone = [id |-> id, value |-> store.items[id].value,
                expires |-> store.items[id].expires, ticket |-> store.items[id].elem]
    OBVIOUS
  <2>4. /\ gone \in Contents(store) /\ gone.expires = store.items[id].expires
        /\ gone.ticket = store.items[id].elem
    BY <2>1 DEF Contents
  <2> HIDE DEF gone
  <2>5. Contents(store') = Contents(store) \ {gone}
    BY <2>1, <2>2, <2>3, ContentsDelete
  <2>6. redeemed' = redeemed \cup {store.items[id].elem}
    <3> DEFINE t == store.items[id].elem
    <3>1. t \in 1..sets
      BY <2>1, <1>1, NodeFacts
    <3> HIDE DEF t
    <3>2. \A e \in 1..sets : guesses'[e] = IF e = t THEN guesses[t] + 1 ELSE guesses[e]
      BY <3>1, <2>2, <1>1 DEF t
    <3>3. guesses[t] + 1 > 0
      BY <3>1, <1>1
    <3>4. {e \in 1..sets : guesses'[e] > 0} = {e \in 1..sets : guesses[e] > 0} \cup {t}
      BY <3>1, <3>2, <3>3
    <3> QED BY <3>4 DEF t
  <2>7. OneTime!Redeem(gone)
    BY <2>1, <2>4, <2>5, <2>6 DEF OneTime!Redeem
  <2>8. \E e \in Contents(store) : OneTime!Redeem(e)
    BY <2>4, <2>7 DEF OneTime!Redeem
  <2> QED BY <2>8 DEF OneTime!Next
<1>3. CASE ~(Live(id) /\ clear)
  <2>1. guesses' = guesses
    BY <1>3 DEF GetStep
  <2>2. /\ DOMAIN store'.items \subseteq DOMAIN store.items
        /\ \A x \in DOMAIN store'.items : store'.items[x] = store.items[x]
    BY GetStepFacts
  <2>3. Contents(store') \in SUBSET Contents(store)
    BY <2>2 DEF Contents
  <2>4. OneTime!Forget
    BY <2>1, <2>3 DEF OneTime!Forget
  <2> QED BY <2>4 DEF OneTime!Next
<1> QED BY <1>2, <1>3

\* A step of the store is a step of the single-use store, or changes nothing
\* the latter speaks of.
LEMMA StepRefines ==
  ASSUME IInv, [Next]_vars
  PROVE  [OneTime!Next]_(OneTime!oneTimeVars)
<1> DEFINE redeemed == {e \in 1..sets : guesses[e] > 0}
<1>1. CASE UNCHANGED vars
  BY <1>1 DEF vars, OneTime!oneTimeVars
<1>2. CASE Tick
  <2>1. OneTime!Tick
    BY <1>2 DEF Tick, OneTime!Tick
  <2> QED BY <2>1 DEF OneTime!Next
<1>3. ASSUME NEW id \in Ids, NEW value \in Texts, Set(id, value) PROVE OneTime!Next
  <2> DEFINE d == AfterSet(store, id, value, clock, sets + 1)
             until == clock + TTL
  <2>1. /\ sets' = sets + 1 /\ store' = d /\ UNCHANGED clock
        /\ guesses' = [e \in 1..(sets + 1) |-> IF e <= sets THEN guesses[e] ELSE 0]
    BY <1>3 DEF Set
  <2>2. /\ clock \in Nat /\ sets \in Nat /\ guesses \in [1..sets -> Nat]
        /\ StoreType(store, Ids, Texts, sets) /\ Coherent(store) /\ OrderedWithin(store, 0)
        /\ \A x \in DOMAIN store.items : store.items[x].expires <= clock + TTL
    BY DEF IInv, TypeOK, MapMatchesList, ExpiryOrdered, ExpiresSoon
  <2>3. /\ StoreType(d, Ids, Texts, sets + 1)
        /\ Coherent(d)
        /\ OrderedWithin(d, 0)
        /\ Cardinality(DOMAIN d.items) <= MaxItems
        /\ id \in DOMAIN d.items
        /\ d.items[id] = [value |-> value, expires |-> clock + TTL, elem |-> sets + 1]
        /\ \A x \in (DOMAIN d.items) \ {id} :
             /\ x \in DOMAIN store.items
             /\ d.items[x] = store.items[x]
             /\ d.items[x].expires >= clock
    <3>1. AfterSetIs(store, id, value, clock, sets, d)
      BY <2>2, AfterSetFacts
    <3> QED BY <3>1 DEF AfterSetIs
  <2> HIDE DEF d
  <2>4. IsFiniteSet(DOMAIN d.items)
    BY <2>3 DEF StoreType
  <2>5. until \in 0..(clock + TTL)
    BY <2>2, StoreBounds
  <2>6. PICK kept \in SUBSET Contents(store) :
          /\ \A e \in kept : e.id # id
          /\ Cardinality(kept) < MaxItems
          /\ Contents(d) = kept \cup {[id |-> id, value |-> value, expires |-> until,
                                       ticket |-> sets + 1]}
    <3>1. d.items[id] = [value |-> value, expires |-> until, elem |-> sets + 1]
      BY <2>3
    <3> HIDE DEF until
    <3> QED BY <3>1, <2>3, <2>4, StoreBounds, ContentsGrow
  <2>7. redeemed' = redeemed
    <3>1. \A e \in 1..(sets + 1) : guesses'[e] = IF e \in 1..sets THEN guesses[e] ELSE 0
      BY <2>1, <2>2
    <3>2. 1..sets \subseteq 1..(sets + 1)
      BY <2>2
    <3>3. {e \in 1..(sets + 1) : guesses'[e] > 0} = {e \in 1..sets : guesses[e] > 0}
      BY <3>1, <3>2
    <3> QED BY <3>3, <2>1
  <2>8. OneTime!Issue(id, value)
    <3>1. \E k \in SUBSET Contents(store), x \in 0..(clock + TTL) :
            /\ \A e \in k : e.id # id
            /\ Cardinality(k) < MaxItems
            /\ Contents(store') = k \cup {[id |-> id, value |-> value, expires |-> x,
                                         ticket |-> sets']}
      <4> HIDE DEF until
      <4> QED BY <2>1, <2>5, <2>6
    <3> QED BY <3>1, <2>1, <2>7 DEF OneTime!Issue, OneTime!Cardinality, Cardinality
  <2> QED BY <2>8 DEF OneTime!Next
<1>4. ASSUME NEW id \in Ids, NEW clear \in BOOLEAN, Get(id, clear) PROVE OneTime!Next
  BY <1>4, GetStepRefines DEF Get
<1>5. ASSUME NEW id \in Ids, NEW answer \in Texts, NEW clear \in BOOLEAN,
             Verify(id, answer, clear)
      PROVE  OneTime!Next
  BY <1>5, GetStepRefines DEF Verify
<1> QED BY <1>1, <1>2, <1>3, <1>4, <1>5 DEF Next

\* The captcha store is a single-use store under its cap (store.go:10-33,
\* store.go:43-53): every behaviour of it, seen through Contents, is one that
\* OneTimeStore allows.
THEOREM CaptchaImplementsOneTimeStore == Spec => ImplementsOneTimeStore
<1>1. Init => OneTime!Init
  <2> SUFFICES ASSUME Init PROVE OneTime!Init
    OBVIOUS
  <2>1. Contents(store) = {}
    BY DEF Init, EmptyStore, Contents
  <2>2. 1..0 = {}
    OBVIOUS
  <2> QED BY <2>1, <2>2 DEF Init, OneTime!Init
<1>2. IInv /\ [Next]_vars => [OneTime!Next]_(OneTime!oneTimeVars)
  BY StepRefines
<1> QED BY <1>1, <1>2, CaptchaInvariant, PTL DEF Spec, ImplementsOneTimeStore, OneTime!Spec

-----------------------------------------------------------------------------
(***************************************************************************)
(* TokenVerifier: a token buys at most one success, for any number of      *)
(* concurrent and repeated Verify calls, any tokens, hosts and allow list, *)
(* and whenever deadlines fire.                                            *)
(***************************************************************************)
Replies == [status : {0, 200, 500}, body : Bodies, success : BOOLEAN,
            hostname : (DOMAIN HostFold) \cup {""}]
Outcomes == [err : Errors, success : BOOLEAN, hostname : (DOMAIN HostFold) \cup {""},
             mismatch : BOOLEAN]

\* The tokens, and that of a call that was never made.
AnyToken == Tokens \cup {""}

\* The shape of the state.
VerifierShape ==
  /\ spent \in SUBSET Tokens
  /\ pc \in [Calls -> {"idle", "sent", "header"}]
  /\ token \in [Calls -> AnyToken]
  /\ \A c \in Calls : pc[c] # "idle" => token[c] \in Tokens
  /\ reply \in [Calls -> Replies]
  /\ outcome \in [Calls -> Outcomes]
  /\ successes \in [Tokens -> Nat]

\* The calls that hold the service's yes and have not decoded it yet, and
\* those that had it and refused it for its hostname.
Claiming == {c \in Calls : pc[c] = "header" /\ reply[c].success}
Mismatched == {c \in Calls : pc[c] = "idle" /\ outcome[c].mismatch}

\* A response reports the host its token was solved on.
ReportedHost == \A c \in Calls : pc[c] = "header" => reply[c].hostname = SolvedOn[token[c]]

\* The service's yes is spent when it is given, and nobody else has had it.
ClaimIsOnly ==
  \A c \in Claiming :
    /\ token[c] \in spent /\ successes[token[c]] = 0
    /\ \A d \in Claiming : token[d] = token[c] => d = c
    /\ \A d \in Mismatched : token[d] # token[c]

\* The two halves of SpentForSuccess: what a success takes, and what a
\* mismatch costs.
HostOK(t) == allowedHosts = {} \/ SolvedOn[t] = "" \/ hostAllowed(SolvedOn[t])

SuccessTakes ==
  \A t \in Tokens : successes[t] <= 1 /\ (successes[t] = 1 => t \in spent /\ HostOK(t))

MismatchCosts ==
  \A c \in Mismatched : token[c] \in Tokens => token[c] \in spent /\ successes[token[c]] = 0

\* The inductive invariant.
VInv ==
  /\ VerifierShape
  /\ ReportedHost
  /\ ClaimIsOnly
  /\ SuccessTakes
  /\ MismatchCosts

-----------------------------------------------------------------------------
\* What a call returns without a verdict.
LEMMA ErrorFacts ==
  ASSUME NEW e \in Errors
  PROVE  Error(e) \in Outcomes /\ ~Error(e).success /\ ~Error(e).mismatch
<1>1. Error(e) \in Outcomes
  BY DEF Error, Outcomes
<1>2. ~Error(e).success /\ ~Error(e).mismatch
  BY Zenon DEF Error
<1> QED BY <1>1, <1>2

LEMMA NoReplyFacts == NoReply \in Replies
BY DEF NoReply, Replies, Bodies

\* The initial state satisfies the invariant.
LEMMA InitVInv == VerifierInit => VInv
<1> SUFFICES ASSUME VerifierInit PROVE VInv
  OBVIOUS
<1>1. "nil" \in Errors
  BY DEF Errors
<1>2. reply \in [Calls -> Replies] /\ outcome \in [Calls -> Outcomes]
  BY <1>1, NoReplyFacts, ErrorFacts DEF VerifierInit
<1>3. \A c \in Calls : pc[c] = "idle" /\ outcome[c] = Error("nil")
  BY DEF VerifierInit
<1>4. VerifierShape
  <2>1. token \in [Calls -> AnyToken]
    BY DEF VerifierInit, AnyToken
  <2> QED BY <2>1, <1>2, <1>3 DEF VerifierInit, VerifierShape
<1>5. Claiming = {} /\ Mismatched = {}
  <2>1. Claiming = {}
    BY <1>3 DEF Claiming
  <2>2. ~Error("nil").mismatch
    BY <1>1, ErrorFacts
  <2>3. \A c \in Calls : ~outcome[c].mismatch
    BY <2>2, <1>3, Zenon
  <2> QED BY <2>1, <2>3, Zenon DEF Mismatched
<1>6. \A t \in Tokens : successes[t] = 0
  BY DEF VerifierInit
<1>7. SuccessTakes /\ MismatchCosts
  BY <1>5, <1>6 DEF SuccessTakes, MismatchCosts
<1>8. ReportedHost /\ ClaimIsOnly
  BY <1>3, <1>5 DEF ReportedHost, ClaimIsOnly
<1> QED BY <1>4, <1>7, <1>8 DEF VInv

\* One success more.
LEMMA OneMore ==
  ASSUME NEW S, NEW f \in [S -> Nat], NEW t \in S, f[t] = 0, NEW g, g = [f EXCEPT ![t] = f[t] + 1]
  PROVE  g \in [S -> Nat] /\ \A u \in S : g[u] = f[u] \/ (u = t /\ g[u] = 1)
OBVIOUS

\* A call ends.  If it succeeds, or finds its host refused, it holds a yes
\* of the service.
LEMMA ReturnStep ==
  ASSUME VInv, NEW c \in Calls, NEW result \in Outcomes, Return(c, result),
         token' \in [Calls -> AnyToken],
         \A d \in Calls : d # c => token'[d] = token[d],
         spent \subseteq spent', spent' \in SUBSET Tokens,
         result.success => c \in Claiming /\ ~Pinned(reply[c]) /\ ~result.mismatch,
         result.mismatch => c \in Claiming /\ token'[c] = token[c]
  PROVE  VInv'
<1>1. /\ pc' \in [Calls -> {"idle", "sent", "header"}] /\ pc'[c] = "idle"
      /\ outcome' \in [Calls -> Outcomes] /\ outcome'[c] = result
      /\ reply' \in [Calls -> Replies]
      /\ \A d \in Calls : d # c => pc'[d] = pc[d] /\ outcome'[d] = outcome[d] /\ reply'[d] = reply[d]
  BY NoReplyFacts DEF Return, VInv, VerifierShape
<1>2. Claiming' = Claiming \ {c}
  BY <1>1 DEF Claiming
<1>3. /\ \A d \in Mismatched' : d # c => d \in Mismatched
      /\ c \in Mismatched' => result.mismatch
      /\ Mismatched' \subseteq Calls
  BY <1>1 DEF Mismatched
<1> DEFINE t == token[c]
<1>4. c \in Claiming => /\ pc[c] = "header" /\ t \in Tokens /\ t \in spent /\ successes[t] = 0
                        /\ \A d \in Claiming : token[d] = t => d = c
                        /\ \A d \in Mismatched : token[d] # t
  BY DEF VInv, VerifierShape, ClaimIsOnly, Claiming
<1>5. /\ successes' \in [Tokens -> Nat]
      /\ \A u \in Tokens : successes'[u] = successes[u] \/ (u = t /\ successes'[u] = 1)
  <2>1. successes \in [Tokens -> Nat]
    BY DEF VInv, VerifierShape
  <2>2. CASE result.success
    <3>1. successes' = [successes EXCEPT ![t] = successes[t] + 1]
      BY <2>2 DEF Return
    <3>2. t \in Tokens /\ successes[t] = 0
      BY <2>2, <1>4
    <3> HIDE DEF t
    <3> QED BY <2>1, <3>1, <3>2, OneMore
  <2>3. CASE ~result.success
    BY <2>1, <2>3 DEF Return
  <2> QED BY <2>2, <2>3
<1>5a. ~result.success => successes' = successes
  BY DEF Return
<1>6. VerifierShape'
  BY <1>1, <1>5 DEF VInv, VerifierShape
<1>7. ReportedHost'
  BY <1>1 DEF VInv, ReportedHost
<1>8. ClaimIsOnly'
  <2> SUFFICES ASSUME NEW d \in Claiming'
               PROVE  /\ token'[d] \in spent' /\ successes'[token'[d]] = 0
                      /\ \A e \in Claiming' : token'[e] = token'[d] => e = d
                      /\ \A e \in Mismatched' : token'[e] # token'[d]
    BY DEF ClaimIsOnly
  <2>1. d \in Claiming /\ d # c /\ d \in Calls /\ token'[d] = token[d]
    BY <1>2 DEF Claiming
  <2>2. token[d] \in spent /\ successes[token[d]] = 0 /\ token[d] \in Tokens
    BY <2>1 DEF VInv, VerifierShape, ClaimIsOnly
  <2>3. c \in Claiming => token[d] # t
    BY <2>1, <1>4
  <2>4. successes'[token[d]] = 0
    <3>1. CASE result.success
      BY <3>1, <2>2, <2>3, <1>5
    <3>2. CASE ~result.success
      BY <3>2, <2>2, <1>5a
    <3> QED BY <3>1, <3>2
  <2>5. \A e \in Claiming' : token'[e] = token'[d] => e = d
    BY <2>1, <1>2 DEF VInv, ClaimIsOnly, Claiming
  <2>6. ASSUME NEW e \in Mismatched' PROVE token'[e] # token'[d]
    <3>1. CASE e = c
      BY <2>1, <2>3, <3>1, <1>3
    <3>2. CASE e # c
      BY <2>1, <3>2, <1>3 DEF VInv, ClaimIsOnly
    <3> QED BY <3>1, <3>2
  <2> QED BY <2>1, <2>2, <2>4, <2>5, <2>6
<1>9. SuccessTakes'
  <2>1. ASSUME NEW u \in Tokens PROVE successes'[u] <= 1
    <3>1. successes[u] <= 1
      BY DEF VInv, SuccessTakes
    <3>2. successes'[u] = successes[u] \/ successes'[u] = 1
      BY <1>5
    <3> QED BY <3>1, <3>2
  <2>2. ASSUME NEW u \in Tokens, successes'[u] = 1
        PROVE  u \in spent' /\ HostOK(u)
    <3>1. CASE successes[u] = 1
      BY <3>1 DEF VInv, SuccessTakes
    <3>2. CASE successes[u] # 1
      <4>1. u = t /\ c \in Claiming /\ ~Pinned(reply[c])
        BY <2>2, <3>2, <1>5, <1>5a
      <4>2. reply[c].hostname = SolvedOn[u]
        BY <4>1, <1>4 DEF VInv, ReportedHost
      <4>3. HostOK(u)
        BY <4>1, <4>2 DEF Pinned, HostOK
      <4> QED BY <4>1, <4>3, <1>4
    <3> QED BY <3>1, <3>2
  <2> QED BY <2>1, <2>2 DEF SuccessTakes
<1>10. MismatchCosts'
  <2> SUFFICES ASSUME NEW d \in Mismatched', token'[d] \in Tokens
               PROVE  token'[d] \in spent' /\ successes'[token'[d]] = 0
    BY DEF MismatchCosts
  <2>1. CASE d = c
    <3>1. result.mismatch /\ ~result.success /\ token'[c] = t /\ c \in Claiming
      BY <2>1, <1>3
    <3> QED BY <2>1, <3>1, <1>4, <1>5a
  <2>2. CASE d # c
    <3>1. d \in Mismatched /\ token'[d] = token[d]
      BY <2>2, <1>3
    <3>2. token[d] \in spent /\ successes[token[d]] = 0
      BY <3>1 DEF VInv, MismatchCosts
    <3>3. CASE result.success
      <4>1. token[d] # t
        BY <3>1, <3>3, <1>4
      <4> QED BY <3>1, <3>2, <4>1, <1>5
    <3>4. CASE ~result.success
      BY <3>1, <3>2, <3>4, <1>5a
    <3> QED BY <3>3, <3>4
  <2> QED BY <2>1, <2>2
<1> QED BY <1>6, <1>7, <1>8, <1>9, <1>10 DEF VInv

LEMMA VerifyAtOnceStep ==
  ASSUME VInv, NEW c \in Calls, NEW t \in Tokens, VerifyAtOnce(c, t)
  PROVE  VInv'
<1> DEFINE e == IF t = "" THEN "nil" ELSE "ErrRequest"
           result == Error(e)
<1>1. /\ token' = [token EXCEPT ![c] = t] /\ Return(c, result) /\ spent' = spent
  BY DEF VerifyAtOnce
<1>2. result \in Outcomes /\ ~result.success /\ ~result.mismatch
  <2>1. e \in Errors
    BY DEF Errors
  <2> HIDE DEF e
  <2> QED BY <2>1, ErrorFacts
<1> HIDE DEF result
<1>3. /\ token' \in [Calls -> AnyToken]
      /\ \A d \in Calls : d # c => token'[d] = token[d]
      /\ spent \subseteq spent' /\ spent' \in SUBSET Tokens
  <2>1. t \in AnyToken
    BY DEF AnyToken
  <2> QED BY <2>1, <1>1 DEF VInv, VerifierShape
<1> QED BY <1>1, <1>2, <1>3, ReturnStep

\* A call that sends its token claims nothing yet.
LEMMA VerifySendStep ==
  ASSUME VInv, NEW c \in Calls, NEW t \in Tokens, VerifySend(c, t)
  PROVE  VInv'
<1>1. /\ pc[c] = "idle"
      /\ token' = [token EXCEPT ![c] = t]
      /\ pc' = [pc EXCEPT ![c] = "sent"]
      /\ UNCHANGED <<spent, reply, outcome, successes>>
  BY DEF VerifySend
<1>2. /\ pc' \in [Calls -> {"idle", "sent", "header"}] /\ pc'[c] = "sent"
      /\ token' \in [Calls -> AnyToken] /\ token'[c] = t
      /\ \A d \in Calls : d # c => pc'[d] = pc[d] /\ token'[d] = token[d]
  <2>1. t \in AnyToken
    BY DEF AnyToken
  <2> QED BY <2>1, <1>1 DEF VInv, VerifierShape
<1>3. /\ Claiming' = Claiming /\ c \notin Claiming
      /\ \A d \in Claiming : d \in Calls /\ token'[d] = token[d]
  BY <1>1, <1>2 DEF Claiming
<1>4. /\ Mismatched' \subseteq Mismatched
      /\ \A d \in Mismatched' : d \in Calls /\ token'[d] = token[d]
  BY <1>1, <1>2 DEF Mismatched
<1>5. VerifierShape'
  BY <1>1, <1>2 DEF VInv, VerifierShape
<1>6. ReportedHost'
  BY <1>1, <1>2 DEF VInv, ReportedHost
<1>7. ClaimIsOnly'
  BY <1>1, <1>3, <1>4 DEF VInv, ClaimIsOnly
<1>8. SuccessTakes' /\ MismatchCosts'
  BY <1>1, <1>4 DEF VInv, SuccessTakes, MismatchCosts
<1> QED BY <1>5, <1>6, <1>7, <1>8 DEF VInv

\* The service gives its yes for a token that it had not spent, which
\* therefore nobody has had before.
LEMMA ServeStep ==
  ASSUME VInv, NEW c \in Calls, NEW status \in {200, 500}, NEW body \in Bodies,
         Serve(c, status, body)
  PROVE  VInv'
<1> DEFINE t == token[c]
           won == {t} \cap (Solved \ spent)
           answer == [status |-> status, body |-> body, success |-> Accepts(t),
                      hostname |-> SolvedOn[t]]
<1>1. /\ pc[c] = "sent"
      /\ reply' = [reply EXCEPT ![c] = answer]
      /\ pc' = [pc EXCEPT ![c] = "header"]
      /\ UNCHANGED <<token, outcome, successes>>
  BY DEF Serve
<1>2. spent' = spent \cup won
  BY DEF Serve, Accepts
<1>3. t \in Tokens
  <2>1. pc[c] = "sent"
    BY <1>1
  <2> QED BY <2>1 DEF VInv, VerifierShape
<1>4. answer \in Replies /\ answer.hostname = SolvedOn[t]
  <2>1. Accepts(t) \in BOOLEAN
    BY DEF Accepts
  <2>2. SolvedOn[t] \in DOMAIN HostFold
    BY <1>3, HostsType
  <2> QED BY <2>1, <2>2 DEF Replies
<1>5. answer.success => t \in won
  <2>1. Accepts(t) => t \in won
    BY DEF Accepts
  <2> QED BY <2>1, Zenon
<1> HIDE DEF answer
<1>6. /\ pc' \in [Calls -> {"idle", "sent", "header"}] /\ pc'[c] = "header"
      /\ reply' \in [Calls -> Replies] /\ reply'[c] = answer
      /\ \A d \in Calls : d # c => pc'[d] = pc[d] /\ reply'[d] = reply[d]
  BY <1>1, <1>4 DEF VInv, VerifierShape
<1>7. /\ \A d \in Claiming' : d \in Calls /\ (d # c => d \in Claiming)
      /\ c \notin Claiming
  BY <1>1, <1>6 DEF Claiming
<1>8. c \in Claiming' => t \in won
  <2>1. c \in Claiming' => reply'[c].success
    BY Zenon DEF Claiming
  <2> QED BY <2>1, <1>5, <1>6, Zenon
<1>9. Mismatched' = Mismatched
  BY <1>1, <1>6 DEF Mismatched
<1>10. spent \subseteq spent' /\ spent' \in SUBSET Tokens
  <2>1. spent \in SUBSET Tokens
    BY DEF VInv, VerifierShape
  <2> QED BY <2>1, <1>2, <1>3
<1>11. VerifierShape'
  BY <1>1, <1>3, <1>6, <1>10 DEF VInv, VerifierShape
<1>12. ReportedHost'
  BY <1>1, <1>4, <1>6 DEF VInv, ReportedHost
<1>13. SuccessTakes' /\ MismatchCosts'
  BY <1>1, <1>9, <1>10 DEF VInv, SuccessTakes, MismatchCosts
<1>14. ASSUME t \in won
       PROVE  /\ t \in spent' /\ successes[t] = 0
              /\ \A d \in Claiming : token[d] # t
              /\ \A d \in Mismatched : token[d] # t
  <2>1. t \notin spent /\ t \in spent'
    BY <1>14, <1>2
  <2>2. successes[t] \in Nat
    BY <1>3 DEF VInv, VerifierShape
  <2>3. successes[t] <= 1 /\ successes[t] # 1
    BY <1>3, <2>1 DEF VInv, SuccessTakes
  <2>4. successes[t] = 0
    BY <2>2, <2>3
  <2>5. \A d \in Claiming : token[d] # t
    BY <2>1 DEF VInv, ClaimIsOnly
  <2>6. \A d \in Mismatched : token[d] # t
    BY <2>1, <1>3 DEF VInv, MismatchCosts
  <2> QED BY <2>1, <2>4, <2>5, <2>6
<1> HIDE DEF won
<1>15. ClaimIsOnly'
  <2> SUFFICES ASSUME NEW d \in Claiming'
               PROVE  /\ token[d] \in spent' /\ successes[token[d]] = 0
                      /\ \A e \in Claiming' : token[e] = token[d] => e = d
                      /\ \A e \in Mismatched : token[e] # token[d]
    BY <1>1, <1>9 DEF ClaimIsOnly
  <2>1. CASE d = c
    BY <2>1, <1>7, <1>8, <1>14
  <2>2. CASE d # c
    BY <2>2, <1>7, <1>8, <1>10, <1>14 DEF VInv, ClaimIsOnly
  <2> QED BY <2>1, <2>2
<1> QED BY <1>11, <1>12, <1>13, <1>15 DEF VInv

\* The calls that end in an error, whatever the service has spent.
LEMMA ErrorStep ==
  ASSUME VInv, NEW c \in Calls, NEW e \in Errors, Return(c, Error(e)), token' = token,
         spent \subseteq spent', spent' \in SUBSET Tokens
  PROVE  VInv'
<1> DEFINE result == Error(e)
<1>1. result \in Outcomes /\ ~result.success /\ ~result.mismatch /\ Return(c, result)
  BY ErrorFacts
<1> HIDE DEF result
<1>2. token' \in [Calls -> AnyToken] /\ \A d \in Calls : d # c => token'[d] = token[d]
  BY DEF VInv, VerifierShape
<1> QED BY <1>1, <1>2, ReturnStep

LEMMA DecodedStep ==
  ASSUME VInv, NEW c \in Calls, Decoded(c)
  PROVE  VInv'
<1> DEFINE r == reply[c]
           result == Verdict(r)
<1>1. pc[c] = "header" /\ Return(c, result) /\ UNCHANGED <<spent, token>>
  BY DEF Decoded
<1>2. r \in Replies /\ r.hostname \in (DOMAIN HostFold) \cup {""}
  <2>1. reply \in [Calls -> Replies]
    BY DEF VInv, VerifierShape
  <2>2. r \in Replies
    BY <2>1
  <2> HIDE DEF r
  <2> QED BY <2>2 DEF Replies
<1>3. r.success \in BOOLEAN
  BY <1>2, Zenon DEF Replies
<1>4. Pinned(r) \in BOOLEAN
  BY DEF Pinned
<1>5. result \in Outcomes
  <2>1. "nil" \in Errors
    BY DEF Errors
  <2>2. (r.success /\ ~Pinned(r)) \in BOOLEAN /\ (r.success /\ Pinned(r)) \in BOOLEAN
    BY <1>3, <1>4, Zenon
  <2> QED BY <2>1, <2>2, <1>2 DEF Verdict, Outcomes
<1>6. /\ result.success => r.success /\ ~Pinned(r)
      /\ result.mismatch => r.success /\ Pinned(r)
  BY Zenon DEF Verdict
<1>7. r.success => c \in Claiming
  BY <1>1, Zenon DEF Claiming
<1> HIDE DEF result
<1>8. /\ result.success => c \in Claiming /\ ~Pinned(reply[c]) /\ ~result.mismatch
      /\ result.mismatch => c \in Claiming /\ token'[c] = token[c]
  BY <1>1, <1>6, <1>7, Zenon
<1>9. /\ token' \in [Calls -> AnyToken] /\ \A d \in Calls : d # c => token'[d] = token[d]
      /\ spent \subseteq spent' /\ spent' \in SUBSET Tokens
  BY <1>1 DEF VInv, VerifierShape
<1> QED BY <1>1, <1>5, <1>8, <1>9, ReturnStep

\* Every step keeps the invariant.
LEMMA NextVInv == VInv /\ [VerifierNext]_verifierVars => VInv'
<1> SUFFICES ASSUME VInv, [VerifierNext]_verifierVars PROVE VInv'
  OBVIOUS
<1>1. spent \in SUBSET Tokens /\ Solved \subseteq Tokens
  BY TokensType DEF VInv, VerifierShape
<1>2. {"ErrNetwork", "ErrBadStatus", "ErrDecodeResponse"} \subseteq Errors
  BY DEF Errors
<1>3. ASSUME NEW c \in Calls, NEW t \in Tokens, VerifyAtOnce(c, t) \/ VerifySend(c, t) PROVE VInv'
  BY <1>3, VerifyAtOnceStep, VerifySendStep
<1>4. ASSUME NEW c \in Calls, NEW status \in {200, 500}, NEW body \in Bodies, Serve(c, status, body)
      PROVE  VInv'
  BY <1>4, ServeStep
<1>5. ASSUME NEW c \in Calls, DoFails(c) PROVE VInv'
  <2>1. Return(c, Error("ErrNetwork")) /\ token' = token
    BY <1>5 DEF DoFails
  <2>2. spent \subseteq spent' /\ spent' \in SUBSET Tokens
    BY <1>1, <1>5 DEF DoFails
  <2> QED BY <2>1, <2>2, <1>2, ErrorStep
<1>6. ASSUME NEW c \in Calls, BadStatus(c) PROVE VInv'
  BY <1>1, <1>2, <1>6, ErrorStep DEF BadStatus
<1>7. ASSUME NEW c \in Calls, NEW byDeadline \in BOOLEAN, DecodeFails(c, byDeadline) PROVE VInv'
  BY <1>1, <1>2, <1>7, ErrorStep DEF DecodeFails
<1>8. ASSUME NEW c \in Calls, Call(c) PROVE VInv'
  BY <1>3, <1>4, <1>5, <1>6, <1>7, <1>8, DecodedStep DEF Call
<1>9. CASE UNCHANGED verifierVars
  BY <1>9 DEF verifierVars, VInv, VerifierShape, ReportedHost, ClaimIsOnly, Claiming, Mismatched, SuccessTakes,
              MismatchCosts
<1> QED BY <1>8, <1>9 DEF VerifierNext

\* The inductive invariant holds always.
THEOREM TokenInvariant == VerifierSpec => []VInv
<1>1. VerifierInit => VInv
  BY InitVInv
<1>2. VInv /\ [VerifierNext]_verifierVars => VInv'
  BY NextVInv
<1> QED BY <1>1, <1>2, PTL DEF VerifierSpec

\* A token buys one success at most, and only one that the service took, on a
\* host it may be used on; a hostname mismatch costs the token too
\* (token.go:310-315).
THEOREM TokenSpentForSuccess == VerifierSpec => []SpentForSuccess
<1>1. VInv => SpentForSuccess
  BY DEF VInv, SuccessTakes, MismatchCosts, HostOK, Mismatched, SpentForSuccess
<1> QED BY <1>1, TokenInvariant, PTL
=============================================================================
