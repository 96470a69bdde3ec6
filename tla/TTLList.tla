------------------------------- MODULE TTLList -------------------------------
(***************************************************************************)
(* The data structure that captcha.MemoryStore (captcha/store.go) and      *)
(* passkey.MemoryStore (passkey/session_store.go) share: a map from ids to *)
(* entries, beside a doubly linked list of the ids in insertion order.     *)
(*                                                                         *)
(* A store is a record [items, order].  items maps an id to its entry,     *)
(* order is the list, front first.  A list node is [id, elem]: elem is the *)
(* node's identity (the *list.Element pointer), the entry keeps the elem   *)
(* of its own node, and list.Remove(elem) takes out that node and no other.*)
(***************************************************************************)
EXTENDS Integers, Sequences, FiniteSets

EmptyStore == [items |-> [id \in {} |-> {}], order |-> << >>]

\* delete(items, id) for every id of S.
Without(items, S) == [id \in (DOMAIN items) \ S |-> items[id]]

\* k rounds of order.Remove(order.Front()); delete(items, front's id).
DropFront(st, k) ==
  [items |-> Without(st.items, {st.order[i].id : i \in 1..k}),
   order |-> SubSeq(st.order, k + 1, Len(st.order))]

\* order.Remove(elem); delete(items, id).  A node that is not in the list
\* leaves the list alone.
RemoveNode(order, elem) ==
  IF \E p \in 1..Len(order) : order[p].elem = elem
    THEN LET p == CHOOSE q \in 1..Len(order) : order[q].elem = elem
         IN  [i \in 1..(Len(order) - 1) |-> IF i < p THEN order[i] ELSE order[i + 1]]
    ELSE order

Delete(st, id) ==
  [items |-> Without(st.items, {id}), order |-> RemoveNode(st.order, st.items[id].elem)]

\* The entry at the front of the list is gone from the map, or has expired.
FrontStale(st, now) ==
  LET id == st.order[1].id
  IN  id \notin DOMAIN st.items \/ now > st.items[id].expires

\* purgeExpiredLocked: pops the front while it is stale, and stops at the
\* first entry that is not.  The number of rounds is the k below.
PurgeStops(st, now, k) == k = Len(st.order) \/ ~FrontStale(DropFront(st, k), now)

PurgeRounds(st, now) ==
  CHOOSE k \in 0..Len(st.order) :
    PurgeStops(st, now, k) /\ \A j \in 0..(k - 1) : ~PurgeStops(st, now, j)

Purge(st, now) == DropFront(st, PurgeRounds(st, now))

\* The capacity loop: pops the front while the map holds maxItems entries or
\* more, and gives up when the list is empty.
EvictStops(st, maxItems, k) ==
  k = Len(st.order) \/ Cardinality(DOMAIN DropFront(st, k).items) < maxItems

EvictRounds(st, maxItems) ==
  CHOOSE k \in 0..Len(st.order) :
    EvictStops(st, maxItems, k) /\ \A j \in 0..(k - 1) : ~EvictStops(st, maxItems, j)

MakeRoom(st, maxItems) == DropFront(st, EvictRounds(st, maxItems))

\* elem := order.PushBack(id); items[id] = &entry{...}.
PushBack(st, id, value, expires, elem) ==
  [items |-> [x \in (DOMAIN st.items) \cup {id} |->
                IF x = id THEN [value |-> value, expires |-> expires, elem |-> elem]
                          ELSE st.items[x]],
   order |-> Append(st.order, [id |-> id, elem |-> elem])]

-----------------------------------------------------------------------------
\* A store of values in V under ids in I, with nodes numbered up to n.
StoreType(st, I, V, n) ==
  /\ DOMAIN st.items \subseteq I
  /\ IsFiniteSet(DOMAIN st.items)
  /\ st.items \in [DOMAIN st.items -> [value : V, expires : Nat, elem : 1..n]]
  /\ st.order \in Seq([id : I, elem : 1..n])

\* What the two fields must be to each other: the list enumerates the map's
\* keys, each once and through the node its entry points at, oldest first.
Coherent(st) ==
  /\ \A i \in 1..Len(st.order) :
        /\ st.order[i].id \in DOMAIN st.items
        /\ st.items[st.order[i].id].elem = st.order[i].elem
  /\ \A id \in DOMAIN st.items : \E i \in 1..Len(st.order) : st.order[i].id = id
  /\ \A i, j \in 1..Len(st.order) : i < j => st.order[i].elem < st.order[j].elem

\* An entry never outlives one behind it by more than slack.
OrderedWithin(st, slack) ==
  \A i, j \in 1..Len(st.order) :
    i < j => st.items[st.order[i].id].expires <= st.items[st.order[j].id].expires + slack

\* The store as the set of what it holds, for the refinement mappings.
Contents(st) ==
  {[id |-> id, value |-> st.items[id].value, expires |-> st.items[id].expires,
    ticket |-> st.items[id].elem] : id \in DOMAIN st.items}
=============================================================================
