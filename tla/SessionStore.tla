---------------------------- MODULE SessionStore ----------------------------
(***************************************************************************)
(* passkey.MemoryStore (passkey/session_store.go), the default session     *)
(* store of a passkey ceremony.  Put draws a random id and reads the clock *)
(* BEFORE it takes the mutex, so a Put is two steps and the steps of two   *)
(* Puts interleave; Take runs under the mutex and is one step.             *)
(*                                                                         *)
(* A session id is 32 random bytes: ids are taken to be new, and the n-th  *)
(* id drawn is n.  0 stands for the empty string and for a made-up id.     *)
(***************************************************************************)
EXTENDS TTLList

CONSTANTS
  Goroutines, \* concurrent callers of Put
  Data,       \* session data
  TTL,        \* MemoryStore.ttl
  MaxItems,   \* MemoryStore.maxItems
  MaxStall,   \* the longest a Put waits between its clock read and the mutex
  MaxTime,    \* bound on the clock
  MaxPuts     \* bound on the number of Puts that get the mutex

\* newMemoryStore replaces ttl <= 0 and maxItems <= 0 by defaults.
ASSUME StoreBounds == TTL \in Nat \ {0} /\ MaxItems \in Nat \ {0}
ASSUME ModelBounds == MaxTime \in Nat /\ MaxPuts \in Nat /\ MaxStall \in Nat

VARIABLES
  clock,      \* what s.now() returns
  store,      \* MemoryStore.items and MemoryStore.order
  puts,       \* ids handed to the store so far
  pending,    \* per goroutine inside Put: its clock reading and its data
  taken       \* history: per id, how often a Take returned its data

vars == <<clock, store, puts, pending, taken>>

\* Goroutines inside Put are those with a pending entry.
Waiting == DOMAIN pending

Init ==
  /\ clock = 0
  /\ store = EmptyStore
  /\ puts = 0
  /\ pending = [g \in {} |-> {}]
  /\ taken = [e \in {} |-> 0]

\* Time passes.  MaxStall bounds how late a Put reaches the mutex.
Tick ==
  /\ clock < MaxTime
  /\ \A g \in Waiting : clock < pending[g].now + MaxStall
  /\ clock' = clock + 1
  /\ UNCHANGED <<store, puts, pending, taken>>

\* The first half of Put: rand.Read succeeds, now := s.now().  When
\* rand.Read fails Put returns its error and nothing changes.
PutStamp(g, data) ==
  /\ g \notin Waiting
  /\ pending' = [h \in Waiting \cup {g} |->
                   IF h = g THEN [now |-> clock, data |-> data] ELSE pending[h]]
  /\ UNCHANGED <<clock, store, puts, taken>>

\* The second half, under the mutex: purge, make room, append.  As in
\* CaptchaStore, a name with a suffix is the same code with a seeded fault.
AfterPut_PurgesOne(st, data, now, id) ==
  PushBack(MakeRoom(IF st.order # << >> /\ FrontStale(st, now) THEN DropFront(st, 1) ELSE st,
                    MaxItems),
           id, data, now + TTL, id)
AfterPut_Front(st, data, now, id) ==
  LET room == MakeRoom(Purge(st, now), MaxItems)
      pushed == PushBack(room, id, data, now + TTL, id)
  IN  [pushed EXCEPT !.order = <<[id |-> id, elem |-> id]>> \o room.order]
AfterPut(st, data, now, id) ==
  PushBack(MakeRoom(Purge(st, now), MaxItems), id, data, now + TTL, id)

PutInsert(g) ==
  /\ g \in Waiting
  /\ puts < MaxPuts
  /\ puts' = puts + 1
  /\ store' = AfterPut(store, pending[g].data, pending[g].now, puts + 1)
  /\ taken' = [e \in 1..(puts + 1) |-> IF e <= puts THEN taken[e] ELSE 0]
  /\ pending' = Without(pending, {g})
  /\ UNCHANGED clock

\* Take: the entry goes in any case; its data is returned if it has not
\* expired.  The empty and the unknown id return at once.
Take_KeepsExpiredOnly(id) ==
  /\ id \in DOMAIN store.items
  /\ store' = IF clock <= store.items[id].expires THEN store ELSE Delete(store, id)
  /\ taken' = IF clock <= store.items[id].expires THEN [taken EXCEPT ![id] = @ + 1] ELSE taken
  /\ UNCHANGED <<clock, puts, pending>>
Take_Expired(id) ==
  /\ id \in DOMAIN store.items
  /\ store' = Delete(store, id)
  /\ taken' = [taken EXCEPT ![id] = @ + 1]
  /\ UNCHANGED <<clock, puts, pending>>
Take_MapOnly(id) ==
  /\ id \in DOMAIN store.items
  /\ store' = [store EXCEPT !.items = Without(@, {id})]
  /\ taken' = IF clock <= store.items[id].expires THEN [taken EXCEPT ![id] = @ + 1] ELSE taken
  /\ UNCHANGED <<clock, puts, pending>>
Take(id) ==
  /\ id \in DOMAIN store.items
  /\ store' = Delete(store, id)
  /\ taken' = IF clock <= store.items[id].expires THEN [taken EXCEPT ![id] = @ + 1] ELSE taken
  /\ UNCHANGED <<clock, puts, pending>>

Next ==
  \/ Tick
  \/ \E g \in Goroutines, data \in Data : PutStamp(g, data)
  \/ \E g \in Goroutines : PutInsert(g)
  \/ \E id \in 1..puts : Take(id)

Spec == Init /\ [][Next]_vars

-----------------------------------------------------------------------------
\* The store's shape, and that of the Puts under way.
TypeOK ==
  /\ clock \in 0..MaxTime
  /\ puts \in 0..MaxPuts
  /\ StoreType(store, 1..puts, Data, puts)
  /\ Waiting \subseteq Goroutines
  /\ pending \in [Waiting -> [now : 0..clock, data : Data]]
  /\ taken \in [1..puts -> Nat]

\* The map and the list never part, whichever order the two halves of
\* concurrent Puts, their purges and evictions, and Takes ran in, and both keep
\* their shape.
StoreSound == TypeOK /\ Coherent(store)

\* The list is not in expiry order, as session_store.go:161-164 has it: a Put
\* reads the clock before it has the mutex.  What the code keeps is that an
\* entry outlives one behind it by no more than a Put can be late at the mutex.
ExpiryAlmostOrdered == OrderedWithin(store, MaxStall)

\* So the purge, which stops at the first entry that has not expired, leaves
\* no entry behind that expired more than MaxStall before the Put's clock
\* reading.  (The entry just put is stamped with that reading itself.)
PurgeMissesLittle ==
  [][\A g \in Waiting \ (DOMAIN pending') : \A id \in DOMAIN store.items' :
       store.items'[id].expires + MaxStall >= pending[g].now]_vars

\* A session is handed out at most once, whoever calls Take in whatever
\* order ("single use", session_store.go:14-35), and never after it expired.
TakenOnce ==
  \A id \in 1..puts : taken[id] <= 1 /\ (taken[id] = 1 => id \notin DOMAIN store.items)

\* The store is a single-use store, and "never holds more than maxItems
\* entries at once" (session_store.go:50-57).
OneTime == INSTANCE OneTimeStore
  WITH Ids <- 1..MaxPuts, Values <- Data, held <- Contents(store), issued <- puts,
       redeemed <- {id \in 1..puts : taken[id] > 0}

ImplementsOneTimeStore == OneTime!Spec
=============================================================================
