---------------------------- MODULE TTLListProofs ----------------------------
(***************************************************************************)
(* What the operations of TTLList preserve and establish, for every store: *)
(* the facts that the proofs about the captcha store and the passkey       *)
(* session store rest on.                                                  *)
(***************************************************************************)
EXTENDS TTLList, FiniteSetTheorems, SequenceTheorems, WellFoundedInduction, TLAPS

\* A set of natural numbers that is not empty has a least element.
LEMMA LeastNat ==
  ASSUME NEW T \in SUBSET Nat, T # {}
  PROVE  \E m \in T : \A y \in T : m <= y
<1>1. PICK m \in T : \A y \in T : ~(<<y, m>> \in OpToRel(<, Nat))
  BY WFMin, NatLessThanWellFounded
<1>2. ASSUME NEW y \in T, y < m PROVE FALSE
  <2>1. <<y, m>> \in Nat \X Nat /\ <<y, m>>[1] < <<y, m>>[2]
    BY <1>2
  <2>2. <<y, m>> \in OpToRel(<, Nat)
    BY <2>1 DEF OpToRel
  <2> QED BY <2>2, <1>1
<1> QED BY <1>2

\* What a list node and an entry are, for the type facts below.
LEMMA NodeFacts ==
  ASSUME NEW I, NEW V, NEW n \in Nat, NEW st, StoreType(st, I, V, n)
  PROVE  /\ Len(st.order) \in Nat
         /\ \A i \in 1..Len(st.order) :
              /\ st.order[i] \in [id : I, elem : 1..n]
              /\ st.order[i].id \in I
              /\ st.order[i].elem \in 1..n
         /\ \A x \in DOMAIN st.items :
              /\ st.items[x].value \in V
              /\ st.items[x].expires \in Nat
              /\ st.items[x].elem \in 1..n
<1>1. Len(st.order) \in Nat /\ \A i \in 1..Len(st.order) : st.order[i] \in [id : I, elem : 1..n]
  BY ElementOfSeq, LenProperties DEF StoreType
<1>2. \A x \in DOMAIN st.items : st.items[x] \in [value : V, expires : Nat, elem : 1..n]
  BY DEF StoreType
<1> QED BY <1>1, <1>2

\* The store after k nodes were popped: the list loses its first k nodes and
\* the map exactly their ids.
LEMMA DropFrontFacts ==
  ASSUME NEW I, NEW V, NEW n \in Nat, NEW st, StoreType(st, I, V, n), Coherent(st),
         NEW k \in 0..Len(st.order)
  PROVE  LET d == DropFront(st, k)
         IN  /\ StoreType(d, I, V, n)
             /\ Len(d.order) = Len(st.order) - k
             /\ \A i \in 1..Len(d.order) : d.order[i] = st.order[i + k]
             /\ DOMAIN d.items \subseteq DOMAIN st.items
             /\ \A x \in DOMAIN d.items : d.items[x] = st.items[x]
             /\ \A x \in DOMAIN st.items :
                  x \notin DOMAIN d.items <=> \E i \in 1..k : st.order[i].id = x
<1> DEFINE d == DropFront(st, k)
           S == {st.order[i].id : i \in 1..k}
<1>1. Len(st.order) \in Nat /\ k \in Nat /\ k <= Len(st.order)
  BY NodeFacts
<1>2. d.items = [x \in (DOMAIN st.items) \ S |-> st.items[x]]
  BY DEF DropFront, Without
<1>3. d.order = SubSeq(st.order, k + 1, Len(st.order))
  BY DEF DropFront
<1>4. \A i \in (k + 1)..Len(st.order) : st.order[i] \in [id : I, elem : 1..n]
  <2>1. \A i \in 1..Len(st.order) : st.order[i] \in [id : I, elem : 1..n]
    BY NodeFacts
  <2>2. \A i \in (k + 1)..Len(st.order) : i \in 1..Len(st.order)
    BY <1>1
  <2> QED BY <2>1, <2>2
<1>5. /\ d.order \in Seq([id : I, elem : 1..n])
      /\ Len(d.order) = Len(st.order) - k
      /\ \A i \in 1..(Len(st.order) - k) : d.order[i] = st.order[i + k]
  <2> HIDE DEF d
  <2>1. k + 1 \in Int /\ Len(st.order) \in Int
    BY <1>1
  <2>2. /\ SubSeq(st.order, k + 1, Len(st.order)) \in Seq([id : I, elem : 1..n])
        /\ Len(SubSeq(st.order, k + 1, Len(st.order))) =
             (IF k + 1 <= Len(st.order) THEN Len(st.order) - (k + 1) + 1 ELSE 0)
        /\ \A i \in 1..(Len(st.order) - (k + 1) + 1) :
             SubSeq(st.order, k + 1, Len(st.order))[i] = st.order[(k + 1) + i - 1]
    BY <2>1, <1>4, SubSeqProperties
  <2>3. Len(d.order) = Len(st.order) - k
    BY <2>2, <1>1, <1>3
  <2>4. ASSUME NEW i \in 1..(Len(st.order) - k) PROVE d.order[i] = st.order[i + k]
    <3>1. i \in 1..(Len(st.order) - (k + 1) + 1) /\ (k + 1) + i - 1 = i + k
      BY <1>1
    <3> QED BY <3>1, <2>2, <1>3
  <2> QED BY <2>2, <2>3, <2>4, <1>3
<1>6. IsFiniteSet(DOMAIN d.items)
  <2>1. DOMAIN d.items \in SUBSET DOMAIN st.items
    BY <1>2
  <2>2. IsFiniteSet(DOMAIN st.items)
    BY DEF StoreType
  <2> QED BY <2>1, <2>2, FS_Subset
<1>7. \A x \in DOMAIN d.items : d.items[x] = st.items[x]
  BY <1>2
<1>8. /\ DOMAIN d.items \subseteq I
      /\ d.items \in [DOMAIN d.items -> [value : V, expires : Nat, elem : 1..n]]
  BY <1>2 DEF StoreType
<1>9. \A x \in DOMAIN st.items : x \notin DOMAIN d.items <=> \E i \in 1..k : st.order[i].id = x
  BY <1>2
<1> QED BY <1>2, <1>5, <1>6, <1>7, <1>8, <1>9 DEF StoreType

\* Two nodes of a coherent store have different ids.
LEMMA DistinctIds ==
  ASSUME NEW I, NEW V, NEW n \in Nat, NEW st, StoreType(st, I, V, n), Coherent(st),
         NEW i \in 1..Len(st.order), NEW j \in 1..Len(st.order),
         st.order[i].id = st.order[j].id
  PROVE  i = j
<1>1. st.order[i].elem = st.order[j].elem
  BY DEF Coherent
<1>2. st.order[i].elem \in Int /\ i \in Int /\ j \in Int
  <2>1. st.order[i].elem \in 1..n
    BY NodeFacts
  <2> QED BY <2>1
<1>3. i < j => st.order[i].elem < st.order[j].elem
  BY DEF Coherent
<1>4. j < i => st.order[j].elem < st.order[i].elem
  BY DEF Coherent
<1> QED BY <1>1, <1>2, <1>3, <1>4

\* Popping nodes keeps the map and the list together, and the expiries as
\* ordered as they were.
LEMMA DropFrontKeeps ==
  ASSUME NEW I, NEW V, NEW n \in Nat, NEW st, StoreType(st, I, V, n), Coherent(st),
         NEW k \in 0..Len(st.order), NEW slack \in Nat
  PROVE  /\ Coherent(DropFront(st, k))
         /\ OrderedWithin(st, slack) => OrderedWithin(DropFront(st, k), slack)
<1> DEFINE d == DropFront(st, k)
<1>1. /\ StoreType(d, I, V, n)
      /\ Len(d.order) = Len(st.order) - k
      /\ \A i \in 1..Len(d.order) : d.order[i] = st.order[i + k]
      /\ DOMAIN d.items \subseteq DOMAIN st.items
      /\ \A x \in DOMAIN d.items : d.items[x] = st.items[x]
      /\ \A x \in DOMAIN st.items :
           x \notin DOMAIN d.items <=> \E i \in 1..k : st.order[i].id = x
  BY DropFrontFacts
<1>2. Len(st.order) \in Nat /\ k \in Nat /\ k <= Len(st.order)
  BY NodeFacts
<1> HIDE DEF d
<1>3. ASSUME NEW i \in 1..Len(d.order)
      PROVE  /\ i + k \in 1..Len(st.order)
             /\ d.order[i].id \in DOMAIN d.items
             /\ d.items[d.order[i].id] = st.items[st.order[i + k].id]
             /\ st.items[st.order[i + k].id].elem = st.order[i + k].elem
  <2>1. i + k \in 1..Len(st.order) /\ \A j \in 1..k : j # i + k /\ j \in 1..Len(st.order)
    BY <1>1, <1>2
  <2>2. \A j \in 1..k : st.order[j].id # st.order[i + k].id
    BY <2>1, DistinctIds
  <2>3. st.order[i + k].id \in DOMAIN st.items
    BY <2>1 DEF Coherent
  <2>4. st.order[i + k].id \in DOMAIN d.items
    BY <2>2, <2>3, <1>1
  <2>5. st.items[st.order[i + k].id].elem = st.order[i + k].elem
    BY <2>1 DEF Coherent
  <2> QED BY <2>1, <2>4, <2>5, <1>1
<1>4. ASSUME NEW x \in DOMAIN d.items
      PROVE  \E i \in 1..Len(d.order) : d.order[i].id = x
  <2>1. PICK j \in 1..Len(st.order) : st.order[j].id = x
    BY <1>1 DEF Coherent
  <2>2. j \notin 1..k
    BY <2>1, <1>1
  <2>3. j - k \in 1..Len(d.order) /\ (j - k) + k = j
    BY <2>2, <1>1, <1>2
  <2> QED BY <2>1, <2>3, <1>1
<1>5. ASSUME NEW i \in 1..Len(d.order), NEW j \in 1..Len(d.order), i < j
      PROVE  d.order[i].elem < d.order[j].elem
  <2>1. i \in Int /\ j \in Int /\ k \in Int
    BY <1>2
  <2>2. i + k < j + k
    BY <2>1, <1>5
  <2>3. i + k \in 1..Len(st.order) /\ j + k \in 1..Len(st.order)
    BY <1>3
  <2>4. st.order[i + k].elem < st.order[j + k].elem
    BY <2>2, <2>3 DEF Coherent
  <2> QED BY <2>4, <1>1
<1>6. Coherent(d)
  <2>1. ASSUME NEW i \in 1..Len(d.order) PROVE d.items[d.order[i].id].elem = d.order[i].elem
    <3>1. d.items[d.order[i].id].elem = st.order[i + k].elem
      BY <1>3
    <3>2. d.order[i] = st.order[i + k]
      BY <1>1
    <3> QED BY <3>1, <3>2
  <2> QED BY <2>1, <1>3, <1>4, <1>5 DEF Coherent
<1>7. ASSUME OrderedWithin(st, slack) PROVE OrderedWithin(d, slack)
  <2>1. SUFFICES ASSUME NEW i \in 1..Len(d.order), NEW j \in 1..Len(d.order), i < j
        PROVE  d.items[d.order[i].id].expires <= d.items[d.order[j].id].expires + slack
    BY DEF OrderedWithin
  <2>2. i \in Int /\ j \in Int /\ k \in Int
    BY <1>2
  <2>3. i + k < j + k
    BY <2>1, <2>2
  <2>4. i + k \in 1..Len(st.order) /\ j + k \in 1..Len(st.order)
    BY <1>3
  <2> QED BY <2>3, <2>4, <1>3, <1>7 DEF OrderedWithin
<1> QED BY <1>6, <1>7 DEF d

-----------------------------------------------------------------------------
\* Deleting one id takes its node, and no other, out of the list.
LEMMA DeleteFacts ==
  ASSUME NEW I, NEW V, NEW n \in Nat, NEW st, StoreType(st, I, V, n), Coherent(st),
         NEW id \in DOMAIN st.items, NEW slack \in Nat
  PROVE  LET d == Delete(st, id)
         IN  /\ StoreType(d, I, V, n)
             /\ DOMAIN d.items = (DOMAIN st.items) \ {id}
             /\ \A x \in DOMAIN d.items : d.items[x] = st.items[x]
             /\ Coherent(d)
             /\ OrderedWithin(st, slack) => OrderedWithin(d, slack)
<1> DEFINE d == Delete(st, id)
           L == Len(st.order)
           elem == st.items[id].elem
           IsAt(q) == st.order[q].elem = elem
           p == CHOOSE q \in 1..L : st.order[q].elem = elem
           src(i) == IF i < p THEN i ELSE i + 1
<1>1. /\ L \in Nat
      /\ \A i \in 1..L : st.order[i] \in [id : I, elem : 1..n] /\ st.order[i].elem \in 1..n
  BY NodeFacts
<1>2. PICK w \in 1..L : st.order[w].id = id
  BY DEF Coherent
<1>3. st.order[w].elem = elem
  BY <1>2 DEF Coherent
<1>4. p \in 1..L /\ st.order[p].elem = elem
  BY <1>3
<1> HIDE DEF p
<1>5. \A i, j \in 1..L : st.order[i].elem = st.order[j].elem => i = j
  <2>1. \A i, j \in 1..L : i < j => st.order[i].elem < st.order[j].elem
    BY DEF Coherent
  <2>2. \A i \in 1..L : i \in Int /\ st.order[i].elem \in Int
    BY <1>1
  <2> QED BY <2>1, <2>2
<1>6. st.order[p].id = id
  BY <1>2, <1>3, <1>4, <1>5
<1>7. d.items = [x \in (DOMAIN st.items) \ {id} |-> st.items[x]]
  BY DEF Delete, Without
<1>8. d.order = [i \in 1..(L - 1) |-> IF i < p THEN st.order[i] ELSE st.order[i + 1]]
  BY <1>4 DEF Delete, RemoveNode, p
<1>9. L - 1 \in Nat
  BY <1>1, <1>4
<1>10. \A i \in 1..(L - 1) : src(i) \in 1..L /\ src(i) # p
  BY <1>1, <1>4
<1>11. \A i, j \in 1..(L - 1) : i < j => src(i) < src(j)
  BY <1>1, <1>4
<1>12. \A i \in 1..(L - 1) : d.order[i] = st.order[src(i)]
  BY <1>8
<1>13. \A j \in 1..L : j # p => \E i \in 1..(L - 1) : src(i) = j
  <2> SUFFICES ASSUME NEW j \in 1..L, j # p PROVE \E i \in 1..(L - 1) : src(i) = j
    OBVIOUS
  <2>1. CASE j < p
    <3>1. j \in 1..(L - 1) /\ src(j) = j
      BY <2>1, <1>1, <1>4
    <3> QED BY <3>1
  <2>2. CASE j > p
    <3>1. j - 1 \in 1..(L - 1) /\ src(j - 1) = j
      BY <2>2, <1>1, <1>4
    <3> QED BY <3>1
  <2> QED BY <2>1, <2>2, <1>1, <1>4
<1>14. d.order \in Seq([id : I, elem : 1..n]) /\ Len(d.order) = L - 1
  <2>1. d.order \in [1..(L - 1) -> [id : I, elem : 1..n]]
    <3>1. \A i \in 1..(L - 1) : d.order[i] \in [id : I, elem : 1..n]
      BY <1>10, <1>12, <1>1
    <3> QED BY <3>1, <1>8
  <2>2. d.order \in Seq([id : I, elem : 1..n])
    <3> DEFINE R == [id : I, elem : 1..n]
               o == d.order
    <3>1. o \in [1..(L - 1) -> R] /\ L - 1 \in Nat
      BY <2>1, <1>9
    <3> HIDE DEF R, o, d, L
    <3>2. o \in Seq(R)
      BY <3>1, SeqDef
    <3> QED BY <3>2 DEF R, o
  <2>3. DOMAIN d.order = 1..(L - 1)
    BY <2>1
  <2>4. DOMAIN d.order = 1..Len(d.order) /\ Len(d.order) \in Nat
    BY <2>2, LenProperties
  <2> QED BY <2>2, <2>3, <2>4, <1>9
<1>15. StoreType(d, I, V, n) /\ DOMAIN d.items = (DOMAIN st.items) \ {id}
  <2>1. IsFiniteSet(DOMAIN d.items)
    BY <1>7, FS_RemoveElement DEF StoreType
  <2>2. /\ DOMAIN d.items \subseteq I
        /\ d.items \in [DOMAIN d.items -> [value : V, expires : Nat, elem : 1..n]]
    BY <1>7 DEF StoreType
  <2> QED BY <2>1, <2>2, <1>14, <1>7 DEF StoreType
<1>16. \A x \in DOMAIN d.items : d.items[x] = st.items[x]
  BY <1>7
<1> HIDE DEF d, src
<1>17. ASSUME NEW i \in 1..(L - 1)
       PROVE  /\ d.order[i].id \in DOMAIN d.items
              /\ d.items[d.order[i].id] = st.items[st.order[src(i)].id]
              /\ d.items[d.order[i].id].elem = d.order[i].elem
  <2>1. src(i) \in 1..L /\ st.order[src(i)].elem # elem
    BY <1>10, <1>4, <1>5
  <2>2. /\ st.order[src(i)].id \in DOMAIN st.items
        /\ st.items[st.order[src(i)].id].elem = st.order[src(i)].elem
    BY <2>1 DEF Coherent
  <2>3. st.order[src(i)].id # id
    BY <2>1, <2>2
  <2> QED BY <2>2, <2>3, <1>12, <1>15, <1>16
<1>18. Coherent(d)
  <2>1. ASSUME NEW x \in DOMAIN d.items
        PROVE  \E i \in 1..Len(d.order) : d.order[i].id = x
    <3>1. x \in DOMAIN st.items /\ x # id
      BY <1>15
    <3>2. PICK j \in 1..L : st.order[j].id = x
      BY <3>1 DEF Coherent
    <3>3. j # p
      BY <3>1, <3>2, <1>6
    <3>4. PICK i \in 1..(L - 1) : src(i) = j
      BY <3>3, <1>13
    <3> QED BY <3>2, <3>4, <1>12, <1>14
  <2>2. ASSUME NEW i \in 1..(L - 1), NEW j \in 1..(L - 1), i < j
        PROVE  d.order[i].elem < d.order[j].elem
    BY <2>2, <1>10, <1>11, <1>12 DEF Coherent
  <2>3. \A i \in 1..Len(d.order) :
          d.order[i].id \in DOMAIN d.items /\ d.items[d.order[i].id].elem = d.order[i].elem
    BY <1>14, <1>17
  <2>4. \A i, j \in 1..Len(d.order) : i < j => d.order[i].elem < d.order[j].elem
    BY <2>2, <1>14
  <2> QED BY <2>1, <2>3, <2>4 DEF Coherent
<1>19. ASSUME OrderedWithin(st, slack) PROVE OrderedWithin(d, slack)
  <2>1. SUFFICES ASSUME NEW i \in 1..(L - 1), NEW j \in 1..(L - 1), i < j
        PROVE  d.items[d.order[i].id].expires <= d.items[d.order[j].id].expires + slack
    BY <1>14 DEF OrderedWithin
  <2>2. src(i) \in 1..L /\ src(j) \in 1..L /\ src(i) < src(j)
    BY <2>1, <1>10, <1>11
  <2>3. st.items[st.order[src(i)].id].expires <= st.items[st.order[src(j)].id].expires + slack
    BY <2>2, <1>19 DEF OrderedWithin
  <2> QED BY <2>3, <1>17
<1> QED BY <1>15, <1>16, <1>18, <1>19 DEF d

\* Appending an id that is not held, under a new node.
LEMMA PushBackFacts ==
  ASSUME NEW I, NEW V, NEW n \in Nat, NEW st, StoreType(st, I, V, n), Coherent(st),
         NEW id \in I, id \notin DOMAIN st.items, NEW value \in V, NEW expires \in Nat,
         NEW slack \in Nat
  PROVE  LET d == PushBack(st, id, value, expires, n + 1)
         IN  /\ StoreType(d, I, V, n + 1)
             /\ DOMAIN d.items = (DOMAIN st.items) \cup {id}
             /\ \A x \in DOMAIN st.items : d.items[x] = st.items[x]
             /\ d.items[id] = [value |-> value, expires |-> expires, elem |-> n + 1]
             /\ Coherent(d)
             /\ OrderedWithin(st, slack)
                  /\ (\A x \in DOMAIN st.items : st.items[x].expires <= expires + slack)
                => OrderedWithin(d, slack)
<1> DEFINE d == PushBack(st, id, value, expires, n + 1)
           L == Len(st.order)
           node == [id |-> id, elem |-> n + 1]
           Node == [id : I, elem : 1..(n + 1)]
<1>1. /\ L \in Nat
      /\ \A i \in 1..L : /\ st.order[i].id \in I /\ st.order[i].elem \in 1..n
                         /\ st.order[i] \in [id : I, elem : 1..n]
  BY NodeFacts
<1>2. 1..n \subseteq 1..(n + 1) /\ n + 1 \in 1..(n + 1)
  OBVIOUS
<1>3. st.order \in Seq(Node) /\ node \in Node
  <2>1. [id : I, elem : 1..n] \subseteq Node
    BY <1>2
  <2>2. st.order \in Seq([id : I, elem : 1..n])
    BY DEF StoreType
  <2> QED BY <2>1, <2>2, <1>2, SeqMonotonic
<1>4. d.order = Append(st.order, node)
  BY DEF PushBack
<1>5. /\ d.order \in Seq(Node) /\ Len(d.order) = L + 1
      /\ \A i \in 1..L : d.order[i] = st.order[i]
      /\ d.order[L + 1] = node
  <2> HIDE DEF Node, node, d
  <2>1. /\ Append(st.order, node) \in Seq(Node)
        /\ Len(Append(st.order, node)) = Len(st.order) + 1
        /\ \A i \in 1..Len(st.order) : Append(st.order, node)[i] = st.order[i]
        /\ Append(st.order, node)[Len(st.order) + 1] = node
    BY <1>3, AppendProperties
  <2> QED BY <2>1, <1>4
<1>6. d.items = [x \in (DOMAIN st.items) \cup {id} |->
                   IF x = id THEN [value |-> value, expires |-> expires, elem |-> n + 1]
                             ELSE st.items[x]]
  BY DEF PushBack
<1> HIDE DEF d
<1>7. /\ DOMAIN d.items = (DOMAIN st.items) \cup {id}
      /\ \A x \in DOMAIN st.items : d.items[x] = st.items[x]
      /\ d.items[id] = [value |-> value, expires |-> expires, elem |-> n + 1]
  BY <1>6
<1>8. StoreType(d, I, V, n + 1)
  <2>1. IsFiniteSet(DOMAIN d.items)
    BY <1>7, FS_AddElement DEF StoreType
  <2>2. DOMAIN d.items \subseteq I
    BY <1>7 DEF StoreType
  <2>3. \A x \in DOMAIN d.items : d.items[x] \in [value : V, expires : Nat, elem : 1..(n + 1)]
    <3>1. \A x \in DOMAIN st.items : st.items[x] \in [value : V, expires : Nat, elem : 1..n]
      BY DEF StoreType
    <3>2. [value : V, expires : Nat, elem : 1..n] \subseteq [value : V, expires : Nat, elem : 1..(n + 1)]
      BY <1>2
    <3> QED BY <3>1, <3>2, <1>2, <1>7
  <2>4. d.items \in [DOMAIN d.items -> [value : V, expires : Nat, elem : 1..(n + 1)]]
    BY <2>3, <1>6
  <2> QED BY <2>1, <2>2, <2>4, <1>5 DEF StoreType
<1>9. \A i \in 1..(L + 1) : i \in 1..L \/ i = L + 1
  BY <1>1
<1>10. Coherent(d)
  <2>1. ASSUME NEW i \in 1..(L + 1)
        PROVE  d.order[i].id \in DOMAIN d.items /\ d.items[d.order[i].id].elem = d.order[i].elem
    <3>1. CASE i \in 1..L
      <4>1. st.order[i].id \in DOMAIN st.items /\ st.items[st.order[i].id].elem = st.order[i].elem
        BY <3>1 DEF Coherent
      <4> QED BY <4>1, <3>1, <1>5, <1>7
    <3>2. CASE i = L + 1
      BY <3>2, <1>5, <1>7
    <3> QED BY <3>1, <3>2, <1>9
  <2>2. ASSUME NEW x \in DOMAIN d.items
        PROVE  \E i \in 1..(L + 1) : d.order[i].id = x
    <3>1. CASE x = id
      BY <3>1, <1>1, <1>5
    <3>2. CASE x \in DOMAIN st.items
      <4>1. PICK i \in 1..L : st.order[i].id = x
        BY <3>2 DEF Coherent
      <4>2. i \in 1..(L + 1)
        BY <1>1
      <4> QED BY <4>1, <4>2, <1>5
    <3> QED BY <3>1, <3>2, <1>7
  <2>3. ASSUME NEW i \in 1..(L + 1), NEW j \in 1..(L + 1), i < j
        PROVE  d.order[i].elem < d.order[j].elem
    <3>1. i \in 1..L
      BY <2>3, <1>1
    <3>2. CASE j \in 1..L
      BY <2>3, <3>1, <3>2, <1>5 DEF Coherent
    <3>3. CASE j = L + 1
      <4>1. d.order[i].elem \in 1..n
        BY <3>1, <1>1, <1>5
      <4>2. d.order[j].elem = n + 1
        BY <3>3, <1>5
      <4> QED BY <4>1, <4>2
    <3> QED BY <3>2, <3>3, <1>9
  <2> QED BY <2>1, <2>2, <2>3, <1>5 DEF Coherent
<1>11. ASSUME OrderedWithin(st, slack),
              \A x \in DOMAIN st.items : st.items[x].expires <= expires + slack
       PROVE  OrderedWithin(d, slack)
  <2>1. SUFFICES ASSUME NEW i \in 1..(L + 1), NEW j \in 1..(L + 1), i < j
        PROVE  d.items[d.order[i].id].expires <= d.items[d.order[j].id].expires + slack
    BY <1>5 DEF OrderedWithin
  <2>2. i \in 1..L
    BY <2>1, <1>1
  <2>3. st.order[i].id \in DOMAIN st.items
    BY <2>2 DEF Coherent
  <2>4. CASE j \in 1..L
    <3>1. st.order[j].id \in DOMAIN st.items
      BY <2>4 DEF Coherent
    <3>2. st.items[st.order[i].id].expires <= st.items[st.order[j].id].expires + slack
      BY <2>1, <2>2, <2>4, <1>11 DEF OrderedWithin
    <3> QED BY <3>1, <3>2, <2>2, <2>3, <2>4, <1>5, <1>7
  <2>5. CASE j = L + 1
    <3>1. d.items[d.order[j].id].expires = expires
      BY <2>5, <1>5, <1>7
    <3>2. d.items[d.order[i].id].expires = st.items[st.order[i].id].expires
      BY <2>2, <2>3, <1>5, <1>7
    <3> QED BY <3>1, <3>2, <2>3, <1>11
  <2> QED BY <2>4, <2>5, <1>9
<1> QED BY <1>7, <1>8, <1>10, <1>11 DEF d

-----------------------------------------------------------------------------
\* The purge pops a prefix of the list; what it pops has expired, and what
\* it leaves expires no earlier than now, up to the slack in the ordering.
LEMMA PurgeFacts ==
  ASSUME NEW I, NEW V, NEW n \in Nat, NEW st, StoreType(st, I, V, n), Coherent(st),
         NEW now \in Nat, NEW slack \in Nat, OrderedWithin(st, slack)
  PROVE  /\ PurgeRounds(st, now) \in 0..Len(st.order)
         /\ \A x \in (DOMAIN st.items) \ (DOMAIN Purge(st, now).items) :
              st.items[x].expires < now
         /\ \A x \in DOMAIN Purge(st, now).items :
              Purge(st, now).items[x].expires + slack >= now
<1> DEFINE L == Len(st.order)
           Stops(k) == PurgeStops(st, now, k)
           T == {k \in 0..L : Stops(k)}
           k == PurgeRounds(st, now)
           d == DropFront(st, k)
<1>1. /\ L \in Nat
      /\ \A x \in DOMAIN st.items : st.items[x].expires \in Nat
  BY NodeFacts
<1>2. k \in 0..L /\ Stops(k) /\ \A j \in 0..(k - 1) : ~Stops(j)
  <2>1. L \in T /\ T \in SUBSET Nat
    BY <1>1 DEF PurgeStops
  <2> HIDE DEF T
  <2>2. PICK m \in T : \A y \in T : m <= y
    BY <2>1, LeastNat
  <2> USE DEF T
  <2>3. m \in 0..L /\ Stops(m) /\ \A j \in 0..(m - 1) : ~Stops(j)
    <3> SUFFICES ASSUME NEW j \in 0..(m - 1), Stops(j) PROVE FALSE
      OBVIOUS
    <3>1. j \in T /\ j < m
      BY <1>1
    <3> QED BY <3>1, <2>2
  <2> HIDE DEF T
  <2> QED BY <2>3 DEF PurgeRounds
<1> HIDE DEF k, Stops
<1>3. ASSUME NEW j \in 0..(L - 1)
      PROVE  /\ j + 1 \in 1..L
             /\ st.order[j + 1].id \in DOMAIN st.items
             /\ FrontStale(DropFront(st, j), now) <=>
                  st.items[st.order[j + 1].id].expires < now
  <2> DEFINE f == DropFront(st, j)
  <2> HIDE DEF d, T
  <2>1. j \in 0..Len(st.order) /\ j + 1 \in 1..L
    BY <1>1
  <2>2. /\ StoreType(f, I, V, n)
        /\ Len(f.order) = Len(st.order) - j
        /\ \A i \in 1..Len(f.order) : f.order[i] = st.order[i + j]
        /\ DOMAIN f.items \subseteq DOMAIN st.items
        /\ \A x \in DOMAIN f.items : f.items[x] = st.items[x]
        /\ \A x \in DOMAIN st.items :
             x \notin DOMAIN f.items <=> \E i \in 1..j : st.order[i].id = x
    BY <2>1, DropFrontFacts
  <2>3. Coherent(f)
    BY <2>1, DropFrontKeeps
  <2> HIDE DEF f
  <2>4. 1 \in 1..Len(f.order) /\ 1 + j = j + 1
    BY <2>1, <2>2, <1>1
  <2>5. f.order[1] = st.order[j + 1] /\ f.order[1].id \in DOMAIN f.items
    BY <2>2, <2>3, <2>4 DEF Coherent
  <2>6. st.order[j + 1].id \in DOMAIN st.items
    BY <2>1 DEF Coherent
  <2>7. FrontStale(f, now) <=> now > st.items[st.order[j + 1].id].expires
    BY <2>2, <2>5 DEF FrontStale
  <2> QED BY <2>1, <2>6, <2>7, <1>1 DEF f
<1>4. /\ DOMAIN d.items \subseteq DOMAIN st.items
      /\ \A x \in DOMAIN d.items : d.items[x] = st.items[x]
      /\ \A x \in DOMAIN st.items :
           x \notin DOMAIN d.items <=> \E i \in 1..k : st.order[i].id = x
  BY <1>2, DropFrontFacts
<1> HIDE DEF d
<1>5. ASSUME NEW x \in (DOMAIN st.items) \ (DOMAIN d.items)
      PROVE  st.items[x].expires < now
  <2>1. PICK i \in 1..k : st.order[i].id = x
    BY <1>4
  <2>2. i - 1 \in 0..(k - 1) /\ i - 1 \in 0..(L - 1) /\ (i - 1) + 1 = i /\ i - 1 # L
    BY <1>1, <1>2
  <2>3. FrontStale(DropFront(st, i - 1), now)
    BY <2>2, <1>2 DEF Stops, PurgeStops
  <2> QED BY <2>1, <2>2, <2>3, <1>3
<1>6. ASSUME NEW x \in DOMAIN d.items
      PROVE  d.items[x].expires + slack >= now
  <2>1. PICK j \in 1..L : st.order[j].id = x
    BY <1>4 DEF Coherent
  <2>2. j \notin 1..k
    BY <2>1, <1>4
  <2>3. k \in 0..(L - 1) /\ k + 1 \in 1..L /\ k + 1 <= j /\ k # L
    BY <2>2, <1>1, <1>2
  <2>4. ~FrontStale(DropFront(st, k), now)
    BY <2>3, <1>2 DEF Stops, PurgeStops
  <2>5. /\ st.order[k + 1].id \in DOMAIN st.items
        /\ ~(st.items[st.order[k + 1].id].expires < now)
    BY <2>3, <2>4, <1>3
  <2>6. st.items[st.order[k + 1].id].expires \in Nat /\ st.items[x].expires \in Nat
    BY <2>5, <1>1, <1>4
  <2>7. st.items[st.order[k + 1].id].expires <= st.items[x].expires + slack
    <3>1. CASE k + 1 = j
      BY <3>1, <2>1, <2>6
    <3>2. CASE k + 1 < j
      BY <3>2, <2>1, <2>3 DEF OrderedWithin
    <3> QED BY <3>1, <3>2, <2>3
  <2>8. d.items[x] = st.items[x]
    BY <1>4
  <2>9. st.items[x].expires + slack >= now
    <3> DEFINE front == st.items[st.order[k + 1].id].expires
               mine == st.items[x].expires
    <3>1. front \in Nat /\ mine \in Nat /\ ~(front < now) /\ front <= mine + slack
      BY <2>5, <2>6, <2>7
    <3> HIDE DEF front, mine
    <3>2. mine + slack >= now
      BY <3>1
    <3> QED BY <3>2 DEF mine
  <2> QED BY <2>8, <2>9
<1> QED BY <1>2, <1>5, <1>6 DEF Purge, d, k

\* The capacity loop leaves room for one more entry.
LEMMA MakeRoomFacts ==
  ASSUME NEW I, NEW V, NEW n \in Nat, NEW st, StoreType(st, I, V, n), Coherent(st),
         NEW maxItems \in Nat \ {0}
  PROVE  /\ EvictRounds(st, maxItems) \in 0..Len(st.order)
         /\ \A j \in 0..(EvictRounds(st, maxItems) - 1) : ~EvictStops(st, maxItems, j)
         /\ Cardinality(DOMAIN MakeRoom(st, maxItems).items) < maxItems
<1> DEFINE L == Len(st.order)
           Stops(k) == EvictStops(st, maxItems, k)
           T == {k \in 0..L : Stops(k)}
           k == EvictRounds(st, maxItems)
           d == DropFront(st, k)
<1>1. L \in Nat
  BY NodeFacts
<1>2. k \in 0..L /\ Stops(k) /\ \A j \in 0..(k - 1) : ~Stops(j)
  <2>1. L \in T /\ T \in SUBSET Nat
    BY <1>1 DEF EvictStops
  <2> HIDE DEF T
  <2>2. PICK m \in T : \A y \in T : m <= y
    BY <2>1, LeastNat
  <2> USE DEF T
  <2>3. m \in 0..L /\ Stops(m) /\ \A j \in 0..(m - 1) : ~Stops(j)
    <3> SUFFICES ASSUME NEW j \in 0..(m - 1), Stops(j) PROVE FALSE
      OBVIOUS
    <3>1. j \in T /\ j < m
      BY <1>1
    <3> QED BY <3>1, <2>2
  <2> HIDE DEF T
  <2> QED BY <2>3 DEF EvictRounds
<1>3. CASE k = L
  <2>1. Coherent(d)
    <3>1. k \in 0..Len(st.order) /\ 0 \in Nat
      BY <1>2
    <3> QED BY <3>1, DropFrontKeeps
  <2>2. Len(d.order) = 0
    <3>1. k \in 0..Len(st.order)
      BY <1>2
    <3> HIDE DEF k
    <3>2. /\ StoreType(d, I, V, n)
          /\ Len(d.order) = Len(st.order) - k
          /\ \A i \in 1..Len(d.order) : d.order[i] = st.order[i + k]
          /\ DOMAIN d.items \subseteq DOMAIN st.items
          /\ \A x \in DOMAIN d.items : d.items[x] = st.items[x]
          /\ \A x \in DOMAIN st.items :
               x \notin DOMAIN d.items <=> \E i \in 1..k : st.order[i].id = x
      BY <3>1, DropFrontFacts
    <3> QED BY <3>2, <1>1, <1>3
  <2>3. DOMAIN d.items = {}
    BY <2>1, <2>2 DEF Coherent
  <2> QED BY <1>2, <2>3, FS_EmptySet DEF MakeRoom
<1>4. CASE k # L
  BY <1>2, <1>4 DEF EvictStops, MakeRoom
<1> QED BY <1>2, <1>3, <1>4

\* The capacity loop pops no more than it must, and the oldest first: when an
\* entry goes, the room it makes is for one entry only, and what stays is younger.
LEMMA MakeRoomEvicts ==
  ASSUME NEW I, NEW V, NEW n \in Nat, NEW st, StoreType(st, I, V, n), Coherent(st),
         NEW maxItems \in Nat \ {0},
         NEW x \in (DOMAIN st.items) \ (DOMAIN MakeRoom(st, maxItems).items)
  PROVE  /\ Cardinality(DOMAIN MakeRoom(st, maxItems).items) = maxItems - 1
         /\ \A y \in DOMAIN MakeRoom(st, maxItems).items : st.items[x].elem < st.items[y].elem
<1> DEFINE L == Len(st.order)
           k == EvictRounds(st, maxItems)
           d == DropFront(st, k)
           b == DropFront(st, k - 1)
<1>1. /\ L \in Nat
      /\ k \in 0..L
      /\ \A j \in 0..(k - 1) : ~EvictStops(st, maxItems, j)
      /\ Cardinality(DOMAIN d.items) < maxItems
  BY NodeFacts, MakeRoomFacts DEF MakeRoom
<1>2. x \in (DOMAIN st.items) \ (DOMAIN d.items) /\ d = MakeRoom(st, maxItems)
  BY DEF MakeRoom
<1> HIDE DEF k
<1>3. \A y \in DOMAIN st.items : y \notin DOMAIN d.items <=> \E i \in 1..k : st.order[i].id = y
  BY <1>1, DropFrontFacts
<1>4. PICK i \in 1..k : st.order[i].id = x
  BY <1>2, <1>3
<1>5. k - 1 \in 0..(k - 1) /\ k - 1 \in 0..L /\ k \in 1..L /\ i \in 1..L
  BY <1>1, <1>4
<1>6. ~(Cardinality(DOMAIN b.items) < maxItems)
  <2>1. ~EvictStops(st, maxItems, k - 1)
    BY <1>1, <1>5
  <2> QED BY <2>1 DEF EvictStops
<1>7. DOMAIN d.items = (DOMAIN b.items) \ {st.order[k].id}
  <2>1. \A j \in 1..k : j \in 1..(k - 1) \/ j = k
    BY <1>1
  <2>2. \A j \in 1..(k - 1) : j \in 1..k
    BY <1>1
  <2>3. k \in 1..k
    BY <1>5
  <2>4. {st.order[j].id : j \in 1..k} = {st.order[j].id : j \in 1..(k - 1)} \cup {st.order[k].id}
    BY <2>1, <2>2, <2>3
  <2>5. DOMAIN d.items = (DOMAIN st.items) \ {st.order[j].id : j \in 1..k}
    BY DEF DropFront, Without
  <2>6. DOMAIN b.items = (DOMAIN st.items) \ {st.order[j].id : j \in 1..(k - 1)}
    BY DEF DropFront, Without
  <2> HIDE DEF d, b
  <2> QED BY <2>4, <2>5, <2>6
<1>8. Cardinality(DOMAIN d.items) = maxItems - 1
  <2>1. StoreType(b, I, V, n)
    BY <1>5, DropFrontFacts
  <2>2. IsFiniteSet(DOMAIN b.items)
    BY <2>1 DEF StoreType
  <2> HIDE DEF d, b
  <2>3. /\ Cardinality(DOMAIN b.items) \in Nat
        /\ \/ Cardinality(DOMAIN d.items) = Cardinality(DOMAIN b.items)
           \/ Cardinality(DOMAIN d.items) = Cardinality(DOMAIN b.items) - 1
    <3> DEFINE S == DOMAIN b.items
    <3>1. /\ Cardinality(S) \in Nat
          /\ Cardinality(S \ {st.order[k].id}) =
               IF st.order[k].id \in S THEN Cardinality(S) - 1 ELSE Cardinality(S)
      <4> HIDE DEF S
      <4>1. IsFiniteSet(S)
        BY <2>2 DEF S
      <4> QED BY <4>1, FS_CardinalityType, FS_RemoveElement
    <3> QED BY <3>1, <1>7
  <2> QED BY <2>3, <1>1, <1>6
<1>9. ASSUME NEW y \in DOMAIN d.items PROVE st.items[x].elem < st.items[y].elem
  <2>1. y \in DOMAIN st.items
    BY <1>1, DropFrontFacts
  <2>2. PICK j \in 1..L : st.order[j].id = y
    BY <2>1 DEF Coherent
  <2> HIDE DEF d
  <2>3. j \notin 1..k
    BY <2>1, <2>2, <1>3, <1>9
  <2>4. i < j
    BY <2>3, <1>1, <1>4
  <2>5. st.order[i].elem < st.order[j].elem
    BY <2>4, <1>5 DEF Coherent
  <2>6. st.items[x].elem = st.order[i].elem /\ st.items[y].elem = st.order[j].elem
    BY <2>2, <1>4, <1>5 DEF Coherent
  <2> QED BY <2>5, <2>6
<1> HIDE DEF d
<1> QED BY <1>2, <1>8, <1>9

-----------------------------------------------------------------------------
\* A store stays one when more ids become possible.
LEMMA WidenIds ==
  ASSUME NEW I, NEW J, I \subseteq J, NEW V, NEW n \in Nat, NEW st, StoreType(st, I, V, n)
  PROVE  StoreType(st, J, V, n)
<1> DEFINE Narrow == [id : I, elem : 1..n]
           Wide == [id : J, elem : 1..n]
<1>1. Narrow \subseteq Wide
  OBVIOUS
<1>2. st.order \in Seq(Narrow)
  BY DEF StoreType
<1>3. st.order \in Seq(Wide)
  <2> HIDE DEF Narrow, Wide
  <2> QED BY <1>1, <1>2, SeqMonotonic
<1> QED BY <1>3 DEF StoreType

\* Two ids of a coherent store have different nodes.
LEMMA DistinctElems ==
  ASSUME NEW I, NEW V, NEW n \in Nat, NEW st, StoreType(st, I, V, n), Coherent(st),
         NEW x \in DOMAIN st.items, NEW y \in DOMAIN st.items, x # y
  PROVE  st.items[x].elem # st.items[y].elem
<1>1. PICK i \in 1..Len(st.order) : st.order[i].id = x
  BY DEF Coherent
<1>2. PICK j \in 1..Len(st.order) : st.order[j].id = y
  BY DEF Coherent
<1>3. st.items[x].elem = st.order[i].elem /\ st.items[y].elem = st.order[j].elem
  BY <1>1, <1>2 DEF Coherent
<1>4. i # j /\ i \in Int /\ j \in Int
  BY <1>1, <1>2
<1>5. i < j => st.order[i].elem < st.order[j].elem
  BY DEF Coherent
<1>6. j < i => st.order[j].elem < st.order[i].elem
  BY DEF Coherent
<1>7. st.items[x].elem \in Int /\ st.items[y].elem \in Int
  <2>1. st.items[x].elem \in 1..n /\ st.items[y].elem \in 1..n
    BY NodeFacts
  <2> QED BY <2>1
<1> QED BY <1>3, <1>4, <1>5, <1>6, <1>7

\* The contents of a store, for the refinement: one entry was added, and
\* what was kept of the others leaves room for it.
LEMMA ContentsGrow ==
  ASSUME NEW st, NEW d, NEW id \in DOMAIN d.items, NEW value, NEW expires, NEW elem,
         NEW max \in Nat, IsFiniteSet(DOMAIN d.items), Cardinality(DOMAIN d.items) <= max,
         d.items[id] = [value |-> value, expires |-> expires, elem |-> elem],
         \A x \in (DOMAIN d.items) \ {id} : x \in DOMAIN st.items /\ d.items[x] = st.items[x]
  PROVE  \E kept \in SUBSET Contents(st) :
           /\ \A e \in kept : e.id # id
           /\ Cardinality(kept) < max
           /\ Contents(d) = kept \cup {[id |-> id, value |-> value, expires |-> expires,
                                        ticket |-> elem]}
<1> DEFINE Rest == (DOMAIN d.items) \ {id}
           Of(x) == [id |-> x, value |-> d.items[x].value, expires |-> d.items[x].expires,
                     ticket |-> d.items[x].elem]
           kept == {Of(x) : x \in Rest}
           f == [e \in kept |-> e.id]
<1>1. IsFiniteSet(Rest) /\ Cardinality(Rest) = Cardinality(DOMAIN d.items) - 1
  BY FS_RemoveElement
<1>2. f \in Injection(kept, Rest)
  <2>1. \A e \in kept : e.id \in Rest /\ e = Of(e.id)
    OBVIOUS
  <2>2. f \in [kept -> Rest]
    BY <2>1
  <2>3. ASSUME NEW a \in kept, NEW b \in kept, f[a] = f[b] PROVE a = b
    <3>1. f[a] = a.id /\ f[b] = b.id
      OBVIOUS
    <3>2. a.id = b.id
      BY <3>1, <2>3
    <3> HIDE DEF kept, f, Of
    <3> QED BY <3>2, <2>1
  <2> HIDE DEF f, kept, Rest
  <2> QED BY <2>2, <2>3 DEF Injection, IsInjective
<1>3. Cardinality(kept) < max
  <2> HIDE DEF f, kept, Rest
  <2>1. IsFiniteSet(kept) /\ Cardinality(kept) <= Cardinality(Rest)
    BY <1>1, <1>2, FS_Injection
  <2>2. Cardinality(kept) \in Nat /\ Cardinality(Rest) \in Nat /\ Cardinality(DOMAIN d.items) \in Nat
    BY <2>1, <1>1, FS_CardinalityType
  <2> QED BY <2>1, <2>2, <1>1
<1>4. kept \in SUBSET Contents(st)
  BY DEF Contents
<1>5. \A e \in kept : e.id # id
  OBVIOUS
<1>6. Contents(d) = kept \cup {Of(id)}
  BY DEF Contents
<1>7. Of(id) = [id |-> id, value |-> value, expires |-> expires, ticket |-> elem]
  OBVIOUS
<1> HIDE DEF kept, Of
<1> QED BY <1>3, <1>4, <1>5, <1>6, <1>7

\* The contents of a store lose what Delete takes out of it, and no more.
LEMMA ContentsDelete ==
  ASSUME NEW st, NEW id \in DOMAIN st.items,
         NEW gone, gone = [id |-> id, value |-> st.items[id].value,
                           expires |-> st.items[id].expires, ticket |-> st.items[id].elem]
  PROVE  Contents(Delete(st, id)) = Contents(st) \ {gone}
<1> DEFINE Of(x) == [id |-> x, value |-> st.items[x].value, expires |-> st.items[x].expires,
                     ticket |-> st.items[x].elem]
           d == Delete(st, id)
<1>1. Contents(d) = {Of(x) : x \in (DOMAIN st.items) \ {id}}
  <2>1. d.items = [x \in (DOMAIN st.items) \ {id} |-> st.items[x]]
    BY DEF Delete, Without
  <2> HIDE DEF d
  <2> QED BY <2>1 DEF Contents
<1>2. Contents(st) = {Of(x) : x \in DOMAIN st.items}
  BY DEF Contents
<1>3. \A x, y : Of(x) = Of(y) => x = y
  <2>1. \A x : Of(x).id = x
    OBVIOUS
  <2> HIDE DEF Of
  <2> QED BY <2>1
<1> HIDE DEF Of, d
<1>4. Contents(d) = Contents(st) \ {Of(id)}
  BY <1>1, <1>2, <1>3
<1> QED BY <1>4 DEF Of, d
=============================================================================
