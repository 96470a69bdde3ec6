---------------------------- MODULE CaptchaStore ----------------------------
(***************************************************************************)
(* captcha.MemoryStore (captcha/store.go) as captcha.ImageGenerator        *)
(* (captcha/captcha.go) uses it.  Every method reads the clock and works   *)
(* on the store under one mutex, so each call is one step; calls of        *)
(* different goroutines interleave freely between steps.                   *)
(***************************************************************************)
EXTENDS TTLList

CONSTANTS
  Ids,        \* captcha ids; the empty string may be one of them
  Texts,      \* answers, right and wrong; the empty string may be one of them
  Fold,       \* what strings.EqualFold over TrimSpace tells apart of a text
  TTL,        \* MemoryStore.ttl
  MaxItems,   \* MemoryStore.maxItems
  MaxTime,    \* bound on the clock
  MaxSets     \* bound on the number of calls of Set

\* newMemoryStore replaces ttl <= 0 and maxItems <= 0 by defaults.
ASSUME StoreBounds == TTL \in Nat \ {0} /\ MaxItems \in Nat \ {0}
ASSUME ModelBounds == MaxTime \in Nat /\ MaxSets \in Nat
ASSUME FoldType == Fold \in [Texts -> Texts]

VARIABLES
  clock,      \* what s.now() returns
  store,      \* MemoryStore.items and MemoryStore.order
  sets,       \* completed calls of Set; the n-th one allocates list node n
  guesses,    \* history: per Set, how often a clearing read got its answer
  solved      \* history: the Sets whose answer a clearing Verify accepted

vars == <<clock, store, sets, guesses, solved>>

Init ==
  /\ clock = 0
  /\ store = EmptyStore
  /\ sets = 0
  /\ guesses = [e \in {} |-> 0]
  /\ solved = {}

Tick ==
  /\ clock < MaxTime
  /\ clock' = clock + 1
  /\ UNCHANGED <<store, sets, guesses, solved>>

-----------------------------------------------------------------------------
\* Drop the node of an entry that is about to be replaced.
DropOld(st, id) == IF id \in DOMAIN st.items THEN Delete(st, id) ELSE st

\* MemoryStore.Set: purge, replace, make room, append.  Here and below a
\* definition whose name has a suffix is the same code with a seeded fault:
\* it shows that the property it is paired with would notice the fault.
AfterSet_Unpurged(st, id, value, now, elem) ==
  PushBack(MakeRoom(DropOld(st, id), MaxItems), id, value, now + TTL, elem)
AfterSet_EvictFirst(st, id, value, now, elem) ==
  PushBack(DropOld(MakeRoom(Purge(st, now), MaxItems), id), id, value, now + TTL, elem)
AfterSet_KeepsNode(st, id, value, now, elem) ==
  PushBack(MakeRoom(Purge(st, now), MaxItems), id, value, now + TTL, elem)
AfterSet_InPlace(st, id, value, now, elem) ==
  IF id \in DOMAIN st.items
    THEN [st EXCEPT !.items[id].value = value, !.items[id].expires = now + TTL]
    ELSE PushBack(MakeRoom(Purge(st, now), MaxItems), id, value, now + TTL, elem)
AfterSet(st, id, value, now, elem) ==
  PushBack(MakeRoom(DropOld(Purge(st, now), id), MaxItems), id, value, now + TTL, elem)

Set(id, value) ==
  /\ sets < MaxSets
  /\ sets' = sets + 1
  /\ store' = AfterSet(store, id, value, clock, sets + 1)
  /\ guesses' = [e \in 1..(sets + 1) |-> IF e <= sets THEN guesses[e] ELSE 0]
  /\ UNCHANGED <<clock, solved>>

\* MemoryStore.Get's view of an id: present and not expired.
Live(id) == id \in DOMAIN store.items /\ clock <= store.items[id].expires

\* MemoryStore.Get: an expired entry goes in any case, a live one when the
\* caller asks for it to be cleared.
GetStep_NeverClears(id, clear) ==
  /\ store' = IF id \in DOMAIN store.items /\ ~Live(id) THEN Delete(store, id) ELSE store
  /\ guesses' = IF Live(id) /\ clear
                  THEN [guesses EXCEPT ![store.items[id].elem] = @ + 1] ELSE guesses
GetStep_ExpiryUnchecked(id, clear) ==
  /\ store' = IF id \in DOMAIN store.items /\ clear THEN Delete(store, id) ELSE store
  /\ guesses' = IF id \in DOMAIN store.items /\ clear
                  THEN [guesses EXCEPT ![store.items[id].elem] = @ + 1] ELSE guesses
GetStep(id, clear) ==
  /\ store' = IF id \in DOMAIN store.items /\ (clear \/ ~Live(id))
                THEN Delete(store, id) ELSE store
  /\ guesses' = IF Live(id) /\ clear
                  THEN [guesses EXCEPT ![store.items[id].elem] = @ + 1] ELSE guesses

Get(id, clear) ==
  /\ GetStep(id, clear)
  /\ UNCHANGED <<clock, sets, solved>>

\* The comparison in MemoryStore.Verify; a stored "" is taken for "missing".
Matches(id, answer) ==
  /\ Live(id)
  /\ store.items[id].value # ""
  /\ Fold[store.items[id].value] = Fold[answer]

\* MemoryStore.Verify, and ImageGenerator.Verify with clear = TRUE: an empty
\* id or answer returns before the store is touched.
Verify(id, answer, clear) ==
  /\ id # "" /\ answer # ""
  /\ GetStep(id, clear)
  /\ solved' = IF clear /\ Matches(id, answer)
                 THEN solved \cup {store.items[id].elem} ELSE solved
  /\ UNCHANGED <<clock, sets>>

Next ==
  \/ Tick
  \/ \E id \in Ids, value \in Texts : Set(id, value)
  \/ \E id \in Ids, clear \in BOOLEAN : Get(id, clear)
  \/ \E id \in Ids, answer \in Texts, clear \in BOOLEAN : Verify(id, answer, clear)

Spec == Init /\ [][Next]_vars

-----------------------------------------------------------------------------
\* The store's shape: what items and order hold.
TypeOK ==
  /\ clock \in 0..MaxTime
  /\ sets \in 0..MaxSets
  /\ StoreType(store, Ids, Texts, sets)
  /\ guesses \in [1..sets -> Nat]
  /\ solved \in SUBSET (1..sets)

\* The map and the list never part: whatever sequence of replacing Sets,
\* reads of expired entries, purges and evictions ran, every key has one
\* node, its own, and the nodes are in the order of the Sets (store.go:44-61).
MapMatchesList == Coherent(store)

\* The cap holds after every call (store.go:43-53, "never holds more than
\* maxItems entries at once").
Bounded == Cardinality(DOMAIN store.items) <= MaxItems

\* "the list stays expiry-ordered" (store.go:180-183): the reason why the
\* purge may stop at the first entry that has not expired.
ExpiryOrdered == OrderedWithin(store, 0)

\* No Set leaves an expired entry behind, wherever in the list it was:
\* stopping early never misses one.
SetPurgesAll ==
  [][sets' # sets =>
       \A id \in DOMAIN store.items' : store.items'[id].expires >= clock]_vars

\* Set takes a live entry of another id away only when the store is full,
\* and then every entry that was kept is younger (store.go:119-126).
EvictsOldestOnly ==
  [][sets' # sets =>
       \A id \in (DOMAIN store.items) \ (DOMAIN store.items') :
         Live(id) =>
           /\ Cardinality(DOMAIN store.items') = MaxItems
           /\ \A other \in DOMAIN store.items' :
                store.items[id].elem < store.items'[other].elem]_vars

\* "single-use" (captcha.go:46-49): an answer is compared with at most one
\* guess, right or wrong, and a captcha that was solved was solved by it.
OneGuess ==
  \A e \in 1..sets : guesses[e] <= 1 /\ (e \in solved => guesses[e] = 1)

\* The store is a single-use store: a clearing read that finds a live entry
\* redeems it, everything else is an issue, a loss or nothing, and the cap
\* (store.go:43-53) always holds.
OneTime == INSTANCE OneTimeStore
  WITH Values <- Texts, held <- Contents(store), issued <- sets,
       redeemed <- {e \in 1..sets : guesses[e] > 0}

ImplementsOneTimeStore == OneTime!Spec
=============================================================================
