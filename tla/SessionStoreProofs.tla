-------------------------- MODULE SessionStoreProofs --------------------------
(***************************************************************************)
(* The passkey session store's invariants and its refinement of the        *)
(* single-use store, for any number of goroutines and Puts, every TTL,     *)
(* every capacity and every bound on how late a Put reaches the mutex.     *)
(***************************************************************************)
EXTENDS SessionStore, TTLListProofs

\* A Put that waits for the mutex read the clock not long ago.
PutsPrompt == \A g \in Waiting : clock <= pending[g].now + MaxStall

\* No entry expires later than one stamped now would.
ExpiresSoon == \A id \in DOMAIN store.items : store.items[id].expires <= clock + TTL

\* The cap holds after every call (session_store.go:50-57).
HoldsAtMost == Cardinality(DOMAIN store.items) <= MaxItems

\* An id and its list node were drawn together.
NamedByNode == \A id \in DOMAIN store.items : store.items[id].elem = id

\* What is still held has not been handed out.
HeldUntaken == \A id \in DOMAIN store.items : taken[id] = 0

\* The inductive invariant.  ExpiryAlmostOrdered is kept by a late Put because
\* of PutsPrompt and ExpiresSoon: what is in the list expires at most MaxStall
\* after what the Put appends.  TakenOnce is kept by Take because of
\* HeldUntaken.
IInv ==
  /\ StoreSound
  /\ HoldsAtMost
  /\ ExpiryAlmostOrdered
  /\ TakenOnce
  /\ PutsPrompt
  /\ ExpiresSoon
  /\ NamedByNode
  /\ HeldUntaken

-----------------------------------------------------------------------------
\* A store after the second half of a Put with clock reading now: still well
\* formed and within the cap, as ordered as before, with nothing in it that
\* expired long before now; an entry is either the new one or an old one.
LEMMA AfterPutFacts ==
  ASSUME NEW n \in Nat, NEW st, StoreType(st, 1..n, Data, n), Coherent(st),
         OrderedWithin(st, MaxStall), NEW data \in Data, NEW now \in Nat,
         \A x \in DOMAIN st.items : st.items[x].expires <= (now + TTL) + MaxStall
  PROVE  LET d == AfterPut(st, data, now, n + 1)
         IN  /\ StoreType(d, 1..(n + 1), Data, n + 1)
             /\ Coherent(d)
             /\ OrderedWithin(d, MaxStall)
             /\ Cardinality(DOMAIN d.items) <= MaxItems
             /\ n + 1 \in DOMAIN d.items
             /\ d.items[n + 1] = [value |-> data, expires |-> now + TTL, elem |-> n + 1]
             /\ \A x \in (DOMAIN d.items) \ {n + 1} :
                  /\ x \in DOMAIN st.items
                  /\ d.items[x] = st.items[x]
                  /\ d.items[x].expires + MaxStall >= now
<1> DEFINE a == Purge(st, now)
           c == MakeRoom(a, MaxItems)
           id == n + 1
           d == PushBack(c, id, data, now + TTL, n + 1)
           k == PurgeRounds(st, now)
           m == EvictRounds(a, MaxItems)
<1>1. now + TTL \in Nat /\ MaxItems \in Nat \ {0} /\ MaxStall \in Nat
  BY StoreBounds, ModelBounds
<1>2. /\ k \in 0..Len(st.order)
      /\ \A x \in (DOMAIN st.items) \ (DOMAIN a.items) : st.items[x].expires < now
      /\ \A x \in DOMAIN a.items : a.items[x].expires + MaxStall >= now
  BY <1>1, PurgeFacts
<1>3. a = DropFront(st, k)
  BY DEF Purge
<1> HIDE DEF k
<1>4. /\ StoreType(DropFront(st, k), 1..n, Data, n)
      /\ Len(DropFront(st, k).order) = Len(st.order) - k
      /\ \A i \in 1..Len(DropFront(st, k).order) : DropFront(st, k).order[i] = st.order[i + k]
      /\ DOMAIN DropFront(st, k).items \subseteq DOMAIN st.items
      /\ \A x \in DOMAIN DropFront(st, k).items : DropFront(st, k).items[x] = st.items[x]
      /\ \A x \in DOMAIN st.items :
           x \notin DOMAIN DropFront(st, k).items <=> \E i \in 1..k : st.order[i].id = x
  BY <1>2, DropFrontFacts
<1>5. /\ Coherent(DropFront(st, k))
      /\ OrderedWithin(st, MaxStall) => OrderedWithin(DropFront(st, k), MaxStall)
  BY <1>1, <1>2, DropFrontKeeps
<1>6. /\ StoreType(a, 1..n, Data, n) /\ Coherent(a) /\ OrderedWithin(a, MaxStall)
      /\ DOMAIN a.items \subseteq DOMAIN st.items
      /\ \A x \in DOMAIN a.items : a.items[x] = st.items[x]
  BY <1>3, <1>4, <1>5
<1> HIDE DEF a
<1>7. m \in 0..Len(a.order) /\ Cardinality(DOMAIN c.items) < MaxItems
  BY <1>1, <1>6, MakeRoomFacts
<1>8. c = DropFront(a, m)
  BY DEF MakeRoom
<1> HIDE DEF m
<1>9. /\ StoreType(DropFront(a, m), 1..n, Data, n)
      /\ Len(DropFront(a, m).order) = Len(a.order) - m
      /\ \A i \in 1..Len(DropFront(a, m).order) : DropFront(a, m).order[i] = a.order[i + m]
      /\ DOMAIN DropFront(a, m).items \subseteq DOMAIN a.items
      /\ \A x \in DOMAIN DropFront(a, m).items : DropFront(a, m).items[x] = a.items[x]
      /\ \A x \in DOMAIN a.items :
           x \notin DOMAIN DropFront(a, m).items <=> \E i \in 1..m : a.order[i].id = x
  BY <1>6, <1>7, DropFrontFacts
<1>10. /\ Coherent(DropFront(a, m))
       /\ OrderedWithin(a, MaxStall) => OrderedWithin(DropFront(a, m), MaxStall)
  BY <1>1, <1>6, <1>7, DropFrontKeeps
<1>11. /\ StoreType(c, 1..n, Data, n) /\ Coherent(c) /\ OrderedWithin(c, MaxStall)
       /\ \A x \in DOMAIN c.items :
            /\ x \in DOMAIN st.items
            /\ c.items[x] = st.items[x]
            /\ c.items[x].expires + MaxStall >= now
            /\ c.items[x].expires <= (now + TTL) + MaxStall
  BY <1>2, <1>6, <1>8, <1>9, <1>10
<1> HIDE DEF c
<1>12. id \in 1..(n + 1) /\ id \notin DOMAIN c.items /\ 1..n \subseteq 1..(n + 1)
  <2>1. DOMAIN c.items \subseteq 1..n
    BY <1>11 DEF StoreType
  <2> QED BY <2>1
<1>13. StoreType(c, 1..(n + 1), Data, n)
  <2> DEFINE I == 1..n
             J == 1..(n + 1)
  <2>1. I \subseteq J /\ StoreType(c, I, Data, n)
    BY <1>11, <1>12
  <2> HIDE DEF I, J
  <2>2. StoreType(c, J, Data, n)
    BY <2>1, WidenIds
  <2> QED BY <2>2 DEF J
<1> HIDE DEF id
<1>14. /\ StoreType(d, 1..(n + 1), Data, n + 1)
       /\ DOMAIN d.items = (DOMAIN c.items) \cup {id}
       /\ \A x \in DOMAIN c.items : d.items[x] = c.items[x]
       /\ d.items[id] = [value |-> data, expires |-> now + TTL, elem |-> n + 1]
       /\ Coherent(d)
       /\ OrderedWithin(c, MaxStall)
            /\ (\A x \in DOMAIN c.items : c.items[x].expires <= (now + TTL) + MaxStall)
          => OrderedWithin(d, MaxStall)
  <2> DEFINE J == 1..(n + 1)
             until == now + TTL
  <2>1. /\ until \in Nat /\ MaxStall \in Nat /\ id \in J /\ id \notin DOMAIN c.items
        /\ StoreType(c, J, Data, n) /\ Coherent(c)
    BY <1>1, <1>11, <1>12, <1>13
  <2> HIDE DEF J, until
  <2>2. LET e == PushBack(c, id, data, until, n + 1)
        IN  /\ StoreType(e, J, Data, n + 1)
            /\ DOMAIN e.items = (DOMAIN c.items) \cup {id}
            /\ \A x \in DOMAIN c.items : e.items[x] = c.items[x]
            /\ e.items[id] = [value |-> data, expires |-> until, elem |-> n + 1]
            /\ Coherent(e)
            /\ OrderedWithin(c, MaxStall)
                 /\ (\A x \in DOMAIN c.items : c.items[x].expires <= until + MaxStall)
               => OrderedWithin(e, MaxStall)
    BY <2>1, PushBackFacts
  <2> QED BY <2>2 DEF J, until
<1> HIDE DEF d
<1>15. Cardinality(DOMAIN d.items) <= MaxItems
  <2>1. IsFiniteSet(DOMAIN c.items)
    BY <1>11 DEF StoreType
  <2>2. Cardinality((DOMAIN c.items) \cup {id}) = Cardinality(DOMAIN c.items) + 1
    BY <2>1, <1>12, FS_AddElement
  <2>3. Cardinality(DOMAIN c.items) \in Nat
    BY <2>1, FS_CardinalityType
  <2>4. Cardinality(DOMAIN c.items) + 1 <= MaxItems
    BY <2>3, <1>1, <1>7
  <2> QED BY <2>2, <2>4, <1>14
<1>16. AfterPut(st, data, now, n + 1) = d
  BY DEF AfterPut, a, c, d, id
<1>17. /\ OrderedWithin(d, MaxStall)
       /\ n + 1 \in DOMAIN d.items
       /\ d.items[n + 1] = [value |-> data, expires |-> now + TTL, elem |-> n + 1]
       /\ \A x \in (DOMAIN d.items) \ {n + 1} :
            x \in DOMAIN st.items /\ d.items[x] = st.items[x] /\ d.items[x].expires + MaxStall >= now
  BY <1>11, <1>14 DEF id
<1> QED BY <1>14, <1>15, <1>16, <1>17

-----------------------------------------------------------------------------
\* The initial state satisfies the invariant.
LEMMA InitIInv == Init => IInv
<1> SUFFICES ASSUME Init PROVE IInv
  OBVIOUS
<1>1. DOMAIN store.items = {} /\ store.order = << >> /\ Len(store.order) = 0
  BY DEF Init, EmptyStore
<1>2. store.items \in [DOMAIN store.items -> [value : Data, expires : Nat, elem : 1..0]]
  BY DEF Init, EmptyStore
<1>3. store.order \in Seq([id : 1..0, elem : 1..0])
  BY <1>1, EmptySeq
<1>4. StoreType(store, 1..0, Data, 0)
  BY <1>1, <1>2, <1>3, FS_EmptySet DEF StoreType
<1>5. TypeOK
  <2>1. 1..0 = {}
    OBVIOUS
  <2>2. taken \in [1..puts -> Nat]
    BY <2>1 DEF Init
  <2>3. Waiting = {} /\ pending \in [Waiting -> [now : 0..clock, data : Data]]
    BY DEF Init, Waiting
  <2> QED BY <2>2, <2>3, <1>4, ModelBounds DEF Init, TypeOK
<1>6. Coherent(store) /\ ExpiryAlmostOrdered
  BY <1>1 DEF Coherent, ExpiryAlmostOrdered, OrderedWithin
<1>7. HoldsAtMost
  BY <1>1, FS_EmptySet, StoreBounds DEF HoldsAtMost
<1>8. TakenOnce
  <2>1. 1..0 = {}
    OBVIOUS
  <2> QED BY <2>1 DEF Init, TakenOnce
<1>9. PutsPrompt /\ ExpiresSoon /\ NamedByNode /\ HeldUntaken
  BY <1>1 DEF Init, PutsPrompt, Waiting, ExpiresSoon, NamedByNode, HeldUntaken
<1> QED BY <1>5, <1>6, <1>7, <1>8, <1>9 DEF IInv, StoreSound

\* The facts about a state that the proofs below start from.
LEMMA StateFacts ==
  ASSUME IInv
  PROVE  /\ clock \in Nat /\ clock <= MaxTime /\ puts \in Nat /\ puts <= MaxPuts
         /\ StoreType(store, 1..puts, Data, puts) /\ Coherent(store)
         /\ OrderedWithin(store, MaxStall)
         /\ taken \in [1..puts -> Nat]
         /\ Waiting \subseteq Goroutines
         /\ \A g \in Waiting : /\ pending[g].now \in Nat /\ pending[g].now <= clock
                               /\ pending[g].data \in Data
                               /\ clock <= pending[g].now + MaxStall
         /\ \A x \in DOMAIN store.items :
              /\ x \in 1..puts /\ store.items[x].elem = x /\ taken[x] = 0
              /\ store.items[x].expires \in Nat
              /\ store.items[x].expires <= clock + TTL
              /\ store.items[x].value \in Data
<1>1. /\ clock \in Nat /\ clock <= MaxTime /\ puts \in Nat /\ puts <= MaxPuts
      /\ StoreType(store, 1..puts, Data, puts) /\ Coherent(store)
      /\ OrderedWithin(store, MaxStall)
      /\ taken \in [1..puts -> Nat]
      /\ Waiting \subseteq Goroutines
  BY ModelBounds DEF IInv, StoreSound, TypeOK, ExpiryAlmostOrdered
<1>2. ASSUME NEW g \in Waiting
      PROVE  /\ pending[g].now \in Nat /\ pending[g].now <= clock
             /\ pending[g].data \in Data
             /\ clock <= pending[g].now + MaxStall
  <2>1. pending \in [Waiting -> [now : 0..clock, data : Data]]
    BY DEF IInv, StoreSound, TypeOK
  <2>2. pending[g].now \in 0..clock /\ pending[g].data \in Data
    BY <2>1
  <2>3. clock <= pending[g].now + MaxStall
    BY DEF IInv, PutsPrompt
  <2> QED BY <2>2, <2>3, <1>1
<1>3. ASSUME NEW x \in DOMAIN store.items
      PROVE  /\ x \in 1..puts /\ store.items[x].elem = x /\ taken[x] = 0
             /\ store.items[x].expires \in Nat
             /\ store.items[x].expires <= clock + TTL
             /\ store.items[x].value \in Data
  <2>1. store.items[x].expires \in Nat /\ store.items[x].value \in Data
    BY <1>1, NodeFacts
  <2>2. x \in 1..puts
    BY <1>1 DEF StoreType
  <2> QED BY <2>1, <2>2 DEF IInv, NamedByNode, HeldUntaken, ExpiresSoon
<1> QED BY <1>1, <1>2, <1>3

\* What the second half of a Put does to the store of a reachable state.
LEMMA PutInsertFacts ==
  ASSUME IInv, NEW g, PutInsert(g)
  PROVE  /\ StoreType(store', 1..(puts + 1), Data, puts + 1)
         /\ Coherent(store')
         /\ OrderedWithin(store', MaxStall)
         /\ Cardinality(DOMAIN store'.items) <= MaxItems
         /\ puts + 1 \in DOMAIN store'.items
         /\ store'.items[puts + 1] = [value |-> pending[g].data, expires |-> pending[g].now + TTL,
                                      elem |-> puts + 1]
         /\ \A x \in (DOMAIN store'.items) \ {puts + 1} :
              /\ x \in DOMAIN store.items
              /\ store'.items[x] = store.items[x]
              /\ store'.items[x].expires + MaxStall >= pending[g].now
<1> DEFINE now == pending[g].now
           data == pending[g].data
           d == AfterPut(store, data, now, puts + 1)
<1>1. g \in Waiting /\ store' = d
  BY DEF PutInsert
<1>2. now \in Nat /\ data \in Data /\ clock <= now + MaxStall
  BY <1>1, StateFacts
<1>3. \A x \in DOMAIN store.items : store.items[x].expires <= (now + TTL) + MaxStall
  <2> SUFFICES ASSUME NEW x \in DOMAIN store.items
               PROVE  store.items[x].expires <= (now + TTL) + MaxStall
    OBVIOUS
  <2>1. store.items[x].expires \in Nat /\ store.items[x].expires <= clock + TTL /\ clock \in Nat
    BY StateFacts
  <2> HIDE DEF now
  <2> QED BY <2>1, <1>2, StoreBounds, ModelBounds
<1> HIDE DEF now, data
<1>4. /\ puts \in Nat /\ StoreType(store, 1..puts, Data, puts) /\ Coherent(store)
      /\ OrderedWithin(store, MaxStall)
  BY StateFacts
<1>5. /\ StoreType(d, 1..(puts + 1), Data, puts + 1)
      /\ Coherent(d)
      /\ OrderedWithin(d, MaxStall)
      /\ Cardinality(DOMAIN d.items) <= MaxItems
      /\ puts + 1 \in DOMAIN d.items
      /\ d.items[puts + 1] = [value |-> data, expires |-> now + TTL, elem |-> puts + 1]
      /\ \A x \in (DOMAIN d.items) \ {puts + 1} :
           /\ x \in DOMAIN store.items
           /\ d.items[x] = store.items[x]
           /\ d.items[x].expires + MaxStall >= now
  BY <1>2, <1>3, <1>4, AfterPutFacts
<1> HIDE DEF d
<1> QED BY <1>1, <1>5 DEF now, data

\* What a Take does to the store of a reachable state.
LEMMA TakeFacts ==
  ASSUME IInv, NEW id, Take(id)
  PROVE  /\ StoreType(store', 1..puts, Data, puts)
         /\ Coherent(store')
         /\ OrderedWithin(store', MaxStall)
         /\ id \in DOMAIN store.items
         /\ DOMAIN store'.items = (DOMAIN store.items) \ {id}
         /\ \A x \in DOMAIN store'.items : store'.items[x] = store.items[x]
         /\ Cardinality(DOMAIN store'.items) <= MaxItems
<1>1. /\ puts \in Nat /\ StoreType(store, 1..puts, Data, puts) /\ Coherent(store)
      /\ OrderedWithin(store, MaxStall) /\ MaxStall \in Nat
  BY StateFacts, ModelBounds
<1>2. id \in DOMAIN store.items /\ store' = Delete(store, id)
  BY DEF Take
<1>3. /\ StoreType(Delete(store, id), 1..puts, Data, puts)
      /\ DOMAIN Delete(store, id).items = (DOMAIN store.items) \ {id}
      /\ \A x \in DOMAIN Delete(store, id).items : Delete(store, id).items[x] = store.items[x]
      /\ Coherent(Delete(store, id))
      /\ OrderedWithin(store, MaxStall) => OrderedWithin(Delete(store, id), MaxStall)
  BY <1>1, <1>2, DeleteFacts
<1>4. Cardinality((DOMAIN store.items) \ {id}) <= MaxItems
  <2>1. IsFiniteSet(DOMAIN store.items)
    BY <1>1 DEF StoreType
  <2>2. Cardinality(DOMAIN store.items) \in Nat /\ Cardinality(DOMAIN store.items) <= MaxItems
    BY <2>1, FS_CardinalityType DEF IInv, HoldsAtMost
  <2>3. Cardinality((DOMAIN store.items) \ {id}) = Cardinality(DOMAIN store.items) - 1
    BY <2>1, <1>2, FS_RemoveElement
  <2> QED BY <2>2, <2>3, StoreBounds
<1> QED BY <1>1, <1>2, <1>3, <1>4

\* Every step preserves the invariant.
LEMMA NextIInv == IInv /\ [Next]_vars => IInv'
<1> SUFFICES ASSUME IInv, [Next]_vars PROVE IInv'
  OBVIOUS
<1>1. /\ clock \in Nat /\ clock <= MaxTime /\ puts \in Nat /\ puts <= MaxPuts
      /\ StoreType(store, 1..puts, Data, puts) /\ Coherent(store)
      /\ OrderedWithin(store, MaxStall)
      /\ taken \in [1..puts -> Nat]
      /\ Waiting \subseteq Goroutines
      /\ \A g \in Waiting : /\ pending[g].now \in Nat /\ pending[g].now <= clock
                            /\ pending[g].data \in Data
                            /\ clock <= pending[g].now + MaxStall
      /\ \A x \in DOMAIN store.items :
           /\ x \in 1..puts /\ store.items[x].elem = x /\ taken[x] = 0
           /\ store.items[x].expires \in Nat
           /\ store.items[x].expires <= clock + TTL
           /\ store.items[x].value \in Data
  BY StateFacts
<1>2. pending \in [Waiting -> [now : 0..clock, data : Data]]
  BY DEF IInv, StoreSound, TypeOK
<1>3. CASE Tick
  <2>1. clock' = clock + 1 /\ clock' \in 0..MaxTime /\ UNCHANGED <<store, puts, pending, taken>>
    BY <1>1, <1>3, ModelBounds DEF Tick
  <2>2. StoreSound'
    <3>1. 0..clock \subseteq 0..(clock + 1)
      BY <1>1
    <3>2. pending \in [Waiting -> [now : 0..(clock + 1), data : Data]]
      BY <3>1, <1>2
    <3> QED BY <2>1, <3>2 DEF IInv, StoreSound, TypeOK, Waiting
  <2>3. PutsPrompt'
    <3>1. \A g \in Waiting : clock < pending[g].now + MaxStall
      BY <1>3 DEF Tick
    <3>2. \A g \in Waiting : clock + 1 <= pending[g].now + MaxStall
      BY <3>1, <1>1, ModelBounds
    <3> QED BY <2>1, <3>2 DEF PutsPrompt, Waiting
  <2>4. ExpiresSoon'
    BY <2>1, <1>1, StoreBounds DEF ExpiresSoon
  <2> QED BY <2>1, <2>2, <2>3, <2>4
       DEF IInv, HoldsAtMost, ExpiryAlmostOrdered, TakenOnce, NamedByNode, HeldUntaken
<1>4. ASSUME NEW g \in Goroutines, NEW data \in Data, PutStamp(g, data) PROVE IInv'
  <2>1. /\ pending' = [h \in Waiting \cup {g} |->
                         IF h = g THEN [now |-> clock, data |-> data] ELSE pending[h]]
        /\ UNCHANGED <<clock, store, puts, taken>>
    BY <1>4 DEF PutStamp
  <2>2. Waiting' = Waiting \cup {g}
    BY <2>1 DEF Waiting
  <2>3. StoreSound'
    <3>1. pending' \in [Waiting' -> [now : 0..clock, data : Data]]
      BY <2>1, <2>2, <1>1, <1>2
    <3>2. Waiting' \subseteq Goroutines
      BY <2>2, <1>1
    <3> QED BY <3>1, <3>2, <2>1 DEF IInv, StoreSound, TypeOK
  <2>4. PutsPrompt'
    <3>1. ASSUME NEW h \in Waiting \cup {g} PROVE clock <= pending'[h].now + MaxStall
      <4>1. CASE h = g
        BY <4>1, <2>1, <1>1, ModelBounds
      <4>2. CASE h # g
        BY <4>2, <2>1, <1>1
      <4> QED BY <4>1, <4>2
    <3> QED BY <3>1, <2>1, <2>2 DEF PutsPrompt
  <2> QED BY <2>1, <2>3, <2>4
       DEF IInv, HoldsAtMost, ExpiryAlmostOrdered, TakenOnce, ExpiresSoon, NamedByNode, HeldUntaken
<1>5. ASSUME NEW g \in Goroutines, PutInsert(g) PROVE IInv'
  <2>1. /\ g \in Waiting /\ puts < MaxPuts /\ puts' = puts + 1 /\ UNCHANGED clock
        /\ taken' = [e \in 1..(puts + 1) |-> IF e <= puts THEN taken[e] ELSE 0]
        /\ pending' = [h \in Waiting \ {g} |-> pending[h]]
    BY <1>5 DEF PutInsert, Without, Waiting
  <2>2. /\ StoreType(store', 1..(puts + 1), Data, puts + 1)
        /\ Coherent(store')
        /\ OrderedWithin(store', MaxStall)
        /\ Cardinality(DOMAIN store'.items) <= MaxItems
        /\ puts + 1 \in DOMAIN store'.items
        /\ store'.items[puts + 1] = [value |-> pending[g].data, expires |-> pending[g].now + TTL,
                                     elem |-> puts + 1]
        /\ \A x \in (DOMAIN store'.items) \ {puts + 1} :
             /\ x \in DOMAIN store.items
             /\ store'.items[x] = store.items[x]
             /\ store'.items[x].expires + MaxStall >= pending[g].now
    BY <1>5, PutInsertFacts
  <2>3. \A e \in 1..(puts + 1) : taken'[e] = IF e \in 1..puts THEN taken[e] ELSE 0
    BY <2>1, <1>1
  <2>4. Waiting' = Waiting \ {g}
    BY <2>1 DEF Waiting
  <2>5. TypeOK'
    <3>1. taken' \in [1..(puts + 1) -> Nat]
      BY <2>1, <1>1
    <3>2. pending' \in [Waiting' -> [now : 0..clock, data : Data]] /\ Waiting' \subseteq Goroutines
      BY <2>1, <2>4, <1>1, <1>2
    <3>3. clock' \in 0..MaxTime /\ puts' \in 0..MaxPuts
      BY <2>1, <1>1, ModelBounds
    <3> QED BY <3>1, <3>2, <3>3, <2>1, <2>2 DEF TypeOK
  <2>6. StoreSound' /\ HoldsAtMost' /\ ExpiryAlmostOrdered'
    BY <2>2, <2>5 DEF StoreSound, HoldsAtMost, ExpiryAlmostOrdered
  <2>7. HeldUntaken' /\ NamedByNode'
    <3>1. ASSUME NEW x \in DOMAIN store'.items PROVE taken'[x] = 0 /\ store'.items[x].elem = x
      <4>1. CASE x = puts + 1
        <5>1. puts + 1 \in 1..(puts + 1) /\ puts + 1 \notin 1..puts
          BY <1>1
        <5> QED BY <4>1, <5>1, <2>2, <2>3
      <4>2. CASE x # puts + 1
        <5>1. x \in DOMAIN store.items /\ store'.items[x] = store.items[x]
          BY <4>2, <2>2
        <5>2. x \in 1..puts /\ x \in 1..(puts + 1) /\ taken[x] = 0 /\ store.items[x].elem = x
          BY <5>1, <1>1
        <5> QED BY <5>1, <5>2, <2>3
      <4> QED BY <4>1, <4>2
    <3> QED BY <3>1 DEF HeldUntaken, NamedByNode
  <2>8. TakenOnce'
    <3>1. ASSUME NEW x \in 1..(puts + 1)
          PROVE  taken'[x] <= 1 /\ (taken'[x] = 1 => x \notin DOMAIN store'.items)
      <4>1. x \in DOMAIN store'.items => taken'[x] = 0
        BY <2>7 DEF HeldUntaken
      <4>2. taken'[x] <= 1
        BY <2>3 DEF IInv, TakenOnce
      <4> QED BY <4>1, <4>2
    <3> QED BY <3>1, <2>1 DEF TakenOnce
  <2>9. PutsPrompt'
    BY <2>1, <2>4, <1>1 DEF PutsPrompt
  <2>10. ExpiresSoon'
    <3>1. ASSUME NEW x \in DOMAIN store'.items PROVE store'.items[x].expires <= clock + TTL
      <4>1. CASE x = puts + 1
        <5>1. pending[g].now \in Nat /\ pending[g].now <= clock
          BY <2>1, <1>1
        <5>2. pending[g].now + TTL <= clock + TTL
          BY <5>1, <1>1, StoreBounds
        <5> QED BY <4>1, <5>2, <2>2
      <4>2. CASE x # puts + 1
        BY <4>2, <2>2, <1>1
      <4> QED BY <4>1, <4>2
    <3> QED BY <3>1, <2>1 DEF ExpiresSoon
  <2> QED BY <2>6, <2>7, <2>8, <2>9, <2>10 DEF IInv
<1>6. ASSUME NEW id \in 1..puts, Take(id) PROVE IInv'
  <2>1. /\ StoreType(store', 1..puts, Data, puts)
        /\ Coherent(store')
        /\ OrderedWithin(store', MaxStall)
        /\ id \in DOMAIN store.items
        /\ DOMAIN store'.items = (DOMAIN store.items) \ {id}
        /\ \A x \in DOMAIN store'.items : store'.items[x] = store.items[x]
        /\ Cardinality(DOMAIN store'.items) <= MaxItems
    BY <1>6, TakeFacts
  <2>2. /\ taken' = IF clock <= store.items[id].expires THEN [taken EXCEPT ![id] = @ + 1] ELSE taken
        /\ UNCHANGED <<clock, puts, pending>>
    BY <1>6 DEF Take
  <2>3. taken[id] = 0
    BY <2>1, <1>1
  <2>4. /\ taken' \in [1..puts -> Nat]
        /\ \A x \in 1..puts : taken'[x] = taken[x] \/ (x = id /\ taken'[x] = 1)
    <3>1. taken[id] + 1 = 1 /\ 1 \in Nat
      BY <2>3
    <3> QED BY <3>1, <2>2, <2>3, <1>1
  <2>5. StoreSound' /\ HoldsAtMost' /\ ExpiryAlmostOrdered'
    BY <2>1, <2>2, <2>4
       DEF IInv, StoreSound, TypeOK, HoldsAtMost, ExpiryAlmostOrdered, Waiting
  <2>6. TakenOnce'
    BY <2>1, <2>2, <2>4 DEF IInv, TakenOnce
  <2>7. HeldUntaken' /\ NamedByNode' /\ ExpiresSoon'
    BY <2>1, <2>2, <2>4, <1>1 DEF HeldUntaken, NamedByNode, ExpiresSoon
  <2>8. PutsPrompt'
    BY <2>2 DEF IInv, PutsPrompt, Waiting
  <2> QED BY <2>5, <2>6, <2>7, <2>8 DEF IInv
<1>7. CASE UNCHANGED vars
  BY <1>7 DEF vars, IInv, StoreSound, TypeOK, HoldsAtMost, ExpiryAlmostOrdered, TakenOnce,
              PutsPrompt, ExpiresSoon, NamedByNode, HeldUntaken, Waiting
<1> QED BY <1>3, <1>4, <1>5, <1>6, <1>7 DEF Next

-----------------------------------------------------------------------------
\* The inductive invariant holds in every reachable state.
THEOREM SessionInvariant == Spec => []IInv
BY InitIInv, NextIInv, PTL DEF Spec

\* Map and list stay together and well typed however the halves of concurrent
\* Puts and the Takes interleave (session_store.go:69-159).
THEOREM SessionStoreSound == Spec => []StoreSound
<1>1. IInv => StoreSound
  BY DEF IInv
<1> QED BY <1>1, SessionInvariant, PTL

\* An entry outlives one behind it in the list by at most the time a Put can be
\* late at the mutex, for every such bound: what the code keeps of "the list
\* stays expiry-ordered" (session_store.go:161-164).
THEOREM SessionExpiryAlmostOrdered == Spec => []ExpiryAlmostOrdered
<1>1. IInv => ExpiryAlmostOrdered
  BY DEF IInv
<1> QED BY <1>1, SessionInvariant, PTL

\* No session is handed out twice (session_store.go:14-35).
THEOREM SessionTakenOnce == Spec => []TakenOnce
<1>1. IInv => TakenOnce
  BY DEF IInv
<1> QED BY <1>1, SessionInvariant, PTL

\* A Put's purge, which stops at the first entry that has not expired, leaves
\* nothing that expired more than MaxStall before the Put's clock reading
\* (session_store.go:161-184).
THEOREM SessionPurgeMissesLittle == Spec => PurgeMissesLittle
<1> DEFINE Purged == \A g \in Waiting \ (DOMAIN pending') : \A id \in DOMAIN store.items' :
                       store.items'[id].expires + MaxStall >= pending[g].now
<1>1. ASSUME IInv, [Next]_vars PROVE [Purged]_vars
  <2>1. CASE UNCHANGED vars
    BY <2>1
  <2>2. CASE Tick
    BY <2>2 DEF Tick, Waiting
  <2>3. ASSUME NEW g \in Goroutines, NEW data \in Data, PutStamp(g, data) PROVE Purged
    <3>1. Waiting \subseteq DOMAIN pending'
      BY <2>3 DEF PutStamp
    <3> QED BY <3>1
  <2>4. ASSUME NEW g \in Goroutines, PutInsert(g) PROVE Purged
    <3>1. g \in Waiting /\ Waiting \ (DOMAIN pending') = {g}
      BY <2>4 DEF PutInsert, Without, Waiting
    <3>2. /\ store'.items[puts + 1].expires = pending[g].now + TTL
          /\ \A x \in (DOMAIN store'.items) \ {puts + 1} :
               store'.items[x].expires + MaxStall >= pending[g].now
      <4>1. /\ store'.items[puts + 1] = [value |-> pending[g].data,
                                        expires |-> pending[g].now + TTL, elem |-> puts + 1]
            /\ \A x \in (DOMAIN store'.items) \ {puts + 1} :
                 /\ x \in DOMAIN store.items
                 /\ store'.items[x] = store.items[x]
                 /\ store'.items[x].expires + MaxStall >= pending[g].now
        BY <1>1, <2>4, PutInsertFacts
      <4> QED BY <4>1
    <3>3. pending[g].now \in Nat
      BY <1>1, <3>1, StateFacts
    <3>4. (pending[g].now + TTL) + MaxStall >= pending[g].now
      BY <3>3, StoreBounds, ModelBounds
    <3> QED BY <3>1, <3>2, <3>4
  <2>5. ASSUME NEW id \in 1..puts, Take(id) PROVE Purged
    BY <2>5 DEF Take, Waiting
  <2> QED BY <1>1, <2>1, <2>2, <2>3, <2>4, <2>5 DEF Next
<1>2. IInv /\ [Next]_vars => [Purged]_vars
  BY <1>1
<1> QED BY <1>2, SessionInvariant, PTL DEF Spec, PurgeMissesLittle

-----------------------------------------------------------------------------
\* A step of the store is a step of the single-use store, or changes nothing
\* the latter speaks of.
LEMMA StepRefines ==
  ASSUME IInv, [Next]_vars
  PROVE  [OneTime!Next]_(OneTime!oneTimeVars)
<1> DEFINE held == Contents(store)
           redeemed == {id \in 1..puts : taken[id] > 0}
<1>1. /\ clock \in Nat /\ puts \in Nat /\ puts <= MaxPuts
      /\ taken \in [1..puts -> Nat]
      /\ \A g \in Waiting : /\ pending[g].now \in Nat /\ pending[g].now <= clock
                            /\ pending[g].data \in Data
      /\ \A x \in DOMAIN store.items : x \in 1..puts /\ store.items[x].elem = x
  BY StateFacts
<1>2. CASE UNCHANGED vars
  BY <1>2 DEF vars, OneTime!oneTimeVars
<1>3. CASE Tick
  <2>1. clock' = clock + 1 /\ UNCHANGED <<store, puts, taken>>
    BY <1>3 DEF Tick
  <2>2. OneTime!Tick
    BY <2>1 DEF OneTime!Tick
  <2> QED BY <2>2 DEF OneTime!Next
<1>4. ASSUME NEW g \in Goroutines, NEW data \in Data, PutStamp(g, data)
      PROVE  UNCHANGED OneTime!oneTimeVars
  BY <1>4 DEF PutStamp, OneTime!oneTimeVars
<1>5. ASSUME NEW g \in Goroutines, PutInsert(g) PROVE OneTime!Next
  <2> DEFINE data == pending[g].data
             until == pending[g].now + TTL
             new == [id |-> puts + 1, value |-> data, expires |-> until, ticket |-> puts + 1]
  <2>1. /\ g \in Waiting /\ puts < MaxPuts /\ puts' = puts + 1 /\ UNCHANGED clock
        /\ taken' = [e \in 1..(puts + 1) |-> IF e <= puts THEN taken[e] ELSE 0]
    BY <1>5 DEF PutInsert
  <2>2. /\ StoreType(store', 1..(puts + 1), Data, puts + 1)
        /\ Cardinality(DOMAIN store'.items) <= MaxItems
        /\ puts + 1 \in DOMAIN store'.items
        /\ store'.items[puts + 1] = [value |-> data, expires |-> until, elem |-> puts + 1]
        /\ \A x \in (DOMAIN store'.items) \ {puts + 1} :
             x \in DOMAIN store.items /\ store'.items[x] = store.items[x]
    BY <1>5, PutInsertFacts
  <2>3. IsFiniteSet(DOMAIN store'.items)
    BY <2>2 DEF StoreType
  <2>4. until \in 0..(clock + TTL) /\ data \in Data /\ puts + 1 \in 1..MaxPuts
    <3>1. pending[g].now \in Nat /\ pending[g].now <= clock
      BY <2>1, <1>1
    <3>2. until \in 0..(clock + TTL)
      BY <3>1, <1>1, StoreBounds
    <3> QED BY <3>2, <2>1, <1>1, ModelBounds
  <2> HIDE DEF data, until
  <2>5. PICK kept \in SUBSET Contents(store) :
          /\ \A e \in kept : e.id # puts + 1
          /\ Cardinality(kept) < MaxItems
          /\ Contents(store') = kept \cup {new}
    BY <2>2, <2>3, StoreBounds, ContentsGrow
  <2>6. redeemed' = redeemed
    <3>1. \A e \in 1..(puts + 1) : taken'[e] = IF e \in 1..puts THEN taken[e] ELSE 0
      BY <2>1, <1>1
    <3>2. 1..puts \subseteq 1..(puts + 1)
      BY <1>1
    <3>3. {id \in 1..(puts + 1) : taken'[id] > 0} = {id \in 1..puts : taken[id] > 0}
      BY <3>1, <3>2
    <3> QED BY <3>3, <2>1
  <2>7. OneTime!Issue(puts + 1, data)
    <3>1. \E k \in SUBSET Contents(store), x \in 0..(clock + TTL) :
            /\ \A e \in k : e.id # puts + 1
            /\ Cardinality(k) < MaxItems
            /\ Contents(store') = k \cup {[id |-> puts + 1, value |-> data, expires |-> x,
                                         ticket |-> puts']}
      BY <2>1, <2>4, <2>5
    <3> QED BY <3>1, <2>1, <2>6 DEF OneTime!Issue, OneTime!Cardinality, Cardinality
  <2> QED BY <2>4, <2>7 DEF OneTime!Next
<1>6. ASSUME NEW id \in 1..puts, Take(id) PROVE OneTime!Next
  <2> DEFINE gone == [id |-> id, value |-> store.items[id].value,
                      expires |-> store.items[id].expires, ticket |-> store.items[id].elem]
  <2>1. /\ id \in DOMAIN store.items
        /\ DOMAIN store'.items = (DOMAIN store.items) \ {id}
        /\ \A x \in DOMAIN store'.items : store'.items[x] = store.items[x]
    BY <1>6, TakeFacts
  <2>2. Contents(store') = Contents(store) \ {gone}
    <3>1. gone = [id |-> id, value |-> store.items[id].value,
                  expires |-> store.items[id].expires, ticket |-> store.items[id].elem]
      OBVIOUS
    <3> HIDE DEF gone
    <3>2. store' = Delete(store, id)
      BY <1>6 DEF Take
    <3> HIDE DEF gone
    <3> QED BY <3>1, <3>2, <2>1, ContentsDelete
  <2>3. gone \in Contents(store) /\ gone.ticket = id /\ gone.expires = store.items[id].expires
    BY <2>1, <1>1 DEF Contents
  <2>4. UNCHANGED <<clock, puts>>
    BY <1>6 DEF Take
  <2> HIDE DEF gone
  <2>5. CASE clock <= store.items[id].expires
    <3>1. taken' = [taken EXCEPT ![id] = @ + 1]
      BY <1>6, <2>5 DEF Take
    <3>2. redeemed' = redeemed \cup {id}
      <4>1. \A x \in 1..puts : taken'[x] = IF x = id THEN taken[id] + 1 ELSE taken[x]
        BY <3>1, <1>1
      <4>2. taken[id] + 1 > 0
        BY <1>1
      <4>3. {x \in 1..puts : taken'[x] > 0} = {x \in 1..puts : taken[x] > 0} \cup {id}
        BY <4>1, <4>2
      <4> QED BY <4>3, <2>4
    <3>3. OneTime!Redeem(gone)
      BY <3>2, <2>2, <2>3, <2>4, <2>5 DEF OneTime!Redeem
    <3>4. \E x \in Contents(store) : OneTime!Redeem(x)
      BY <3>3, <2>3 DEF OneTime!Redeem
    <3> QED BY <3>4 DEF OneTime!Next
  <2>6. CASE ~(clock <= store.items[id].expires)
    <3>1. taken' = taken
      BY <1>6, <2>6 DEF Take
    <3>2. OneTime!Forget
      BY <3>1, <2>2, <2>4 DEF OneTime!Forget
    <3> QED BY <3>2 DEF OneTime!Next
  <2> QED BY <2>5, <2>6
<1> QED BY <1>2, <1>3, <1>4, <1>5, <1>6 DEF Next

\* The session store is a single-use store that "never holds more than maxItems
\* entries at once" (session_store.go:50-57): every behaviour of it, seen
\* through Contents, is one that OneTimeStore allows.
THEOREM SessionImplementsOneTimeStore == Spec => ImplementsOneTimeStore
<1>1. Init => OneTime!Init
  <2> SUFFICES ASSUME Init PROVE OneTime!Init
    OBVIOUS
  <2>1. Contents(store) = {}
    BY DEF Init, EmptyStore, Contents
  <2>2. 1..0 = {}
    OBVIOUS
  <2> QED BY <2>1, <2>2 DEF Init, OneTime!Init
<1>2. IInv /\ [Next]_vars => [OneTime!Next]_(OneTime!oneTimeVars)
  BY StepRefines
<1> QED BY <1>1, <1>2, SessionInvariant, PTL DEF Spec, ImplementsOneTimeStore, OneTime!Spec
=============================================================================
