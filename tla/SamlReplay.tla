----------------------------- MODULE SamlReplay -----------------------------
(***************************************************************************)
(* saml.Provider.validate (saml/validate.go) run by concurrent request     *)
(* handlers over one saml.MemoryReplayCache (saml/replay.go).              *)
(*                                                                         *)
(* A handler's path reads the clock three times: inside crewjam's          *)
(* ParseXMLResponse (external), in expiryFor, and just before SeenOrAdd.   *)
(* Each read is a step of its own; SeenOrAdd runs under the cache's mutex  *)
(* and is one step.  Other handlers, and time, move in between.            *)
(*                                                                         *)
(* A response document is a record of what the checks of validate read off *)
(* it.  The same assertion may arrive in any number of documents.          *)
(***************************************************************************)
EXTENDS SamlChecks, Integers, FiniteSets

CONSTANTS
  Handlers,           \* request handlers (goroutines)
  Ids,                \* assertion ids; the empty string may be one of them
  Responses,          \* response documents
  NotOnOrAfter,       \* per id: the assertion's Conditions and confirmation deadlines
  RequireDestination, \* Config.RequireDestination
  RejectWeak,         \* Config.RejectWeakSignatures
  AllowEncrypted,     \* Config.AllowEncryptedAssertions
  StrictAttributes,   \* Config.StrictAttributes
  Skew,               \* crewjam's MaxClockSkew
  Floor,              \* the five minutes expiryFor grants in any case
  Margin,             \* Config.ReplayExpiryMargin
  Capacity,           \* MemoryReplayCache.capacity
  MaxStall,           \* longest time from crewjam's clock read to SeenOrAdd
  MaxTime,            \* bound on the clock
  MaxWindow,          \* bound on the deadlines
  MaxAccepted         \* bound on how often one assertion is counted as accepted

ASSUME Durations == Skew \in Nat /\ Floor \in Nat /\ Margin \in Nat /\ MaxStall \in Nat
\* replayExpiryMargin() is never zero; a handler is quicker than the margin.
ASSUME StallWithinMargin == MaxStall < Margin
\* NewMemoryReplayCache replaces a capacity <= 0 by the default.
ASSUME CapacityPositive == Capacity \in Nat \ {0}
ASSUME ModelBounds == MaxTime \in Nat /\ MaxWindow \in Nat /\ MaxAccepted \in Nat \ {0}
ASSUME DeadlinesType == NotOnOrAfter \in [Ids -> SUBSET (0..MaxWindow)]
ASSUME ResponsesType == \A r \in Responses : r.id \in Ids

VARIABLES
  clock,      \* Config.now, and crewjam's clock
  items,      \* MemoryReplayCache.items: id -> expiry
  pc,         \* per handler: where in validate it is
  doc,        \* per handler: the response it validates
  parsedAt,   \* per handler: the clock when crewjam judged the response
  expiresAt,  \* per handler: what expiryFor returned
  now,        \* per handler: the clock read passed to SeenOrAdd
  accepted    \* history: how often validate returned each assertion

vars == <<clock, items, pc, doc, parsedAt, expiresAt, now, accepted>>

Init ==
  /\ clock = 0
  /\ items = [id \in {} |-> 0]
  /\ pc = [h \in Handlers |-> "idle"]
  /\ doc \in [Handlers -> Responses]
  /\ parsedAt = [h \in Handlers |-> 0]
  /\ expiresAt = [h \in Handlers |-> 0]
  /\ now = [h \in Handlers |-> 0]
  /\ accepted = [id \in Ids |-> 0]

Tick ==
  /\ clock < MaxTime
  /\ \A h \in Handlers : pc[h] # "idle" => clock < parsedAt[h] + MaxStall
  /\ clock' = clock + 1
  /\ UNCHANGED <<items, pc, doc, parsedAt, expiresAt, now, accepted>>

-----------------------------------------------------------------------------
\* The Provider's configuration, as the structural checks read it.
Config ==
  [RequireDestination |-> {RequireDestination}, RejectWeakSignatures |-> {RejectWeak},
   AllowEncryptedAssertions |-> AllowEncrypted]

\* External: crewjam's ParseXMLResponse.  It accepts no response whose
\* signature, issuer or audience is wrong, and none after the last deadline
\* plus the clock skew it tolerates.
ParseXMLResponse(r, t) ==
  /\ r.trusted
  /\ \E deadline \in NotOnOrAfter[r.id] : t <= deadline + Skew

\* What is left of validate before the replay cache is asked.
ConvertOK(r) ==
  /\ r.id # ""
  /\ StrictAttributes => ~r.duplicateAttribute

\* validate up to and including assertionFromCrewjam.  A response that fails
\* any of the checks is answered with an error and leaves nothing behind.
\* Names with a suffix, here and below, are the code with a seeded fault.
Parse_ReplayFirst(h, r) ==
  /\ pc[h] = "idle"
  /\ StructureOK(Config, r)
  /\ ParseXMLResponse(r, clock)
  /\ items' = IF ConvertOK(r) \/ r.id \in DOMAIN items THEN items
              ELSE [id \in (DOMAIN items) \cup {r.id} |->
                      IF id = r.id THEN clock + Floor ELSE items[id]]
  /\ doc' = [doc EXCEPT ![h] = r]
  /\ parsedAt' = [parsedAt EXCEPT ![h] = clock]
  /\ pc' = [pc EXCEPT ![h] = IF ConvertOK(r) THEN "parsed" ELSE "idle"]
  /\ UNCHANGED <<clock, expiresAt, now, accepted>>
Parse(h, r) ==
  /\ pc[h] = "idle"
  /\ StructureOK(Config, r)
  /\ ParseXMLResponse(r, clock)
  /\ ConvertOK(r)
  /\ doc' = [doc EXCEPT ![h] = r]
  /\ parsedAt' = [parsedAt EXCEPT ![h] = clock]
  /\ pc' = [pc EXCEPT ![h] = "parsed"]
  /\ UNCHANGED <<clock, items, expiresAt, now, accepted>>

\* expiryFor: the latest of now + Floor and every deadline, plus what crewjam
\* tolerates, plus the margin.
Latest(t, S) ==
  CHOOSE m \in S \cup {t + Floor} : \A n \in S \cup {t + Floor} : n <= m

expiryFor_NoSkew(id, t) == Latest(t, NotOnOrAfter[id]) + Margin
expiryFor(id, t) == Latest(t, NotOnOrAfter[id]) + Skew + Margin

ComputeExpiry(h) ==
  /\ pc[h] = "parsed"
  /\ expiresAt' = [expiresAt EXCEPT ![h] = expiryFor(doc[h].id, clock)]
  /\ pc' = [pc EXCEPT ![h] = "stamped"]
  /\ UNCHANGED <<clock, items, doc, parsedAt, now, accepted>>

\* now := cfg.now().
ReadNow(h) ==
  /\ pc[h] = "stamped"
  /\ now' = [now EXCEPT ![h] = clock]
  /\ pc' = [pc EXCEPT ![h] = "ready"]
  /\ UNCHANGED <<clock, items, doc, parsedAt, expiresAt, accepted>>

-----------------------------------------------------------------------------
\* SeenOrAdd: the id is in the cache and its record has not expired.
Seen(id, t) == id \in DOMAIN items /\ t < items[id]

\* sweepExpired: only a full cache is swept, of what has expired by t.
Swept_AnyOne(t) ==
  IF Cardinality(DOMAIN items) < Capacity THEN items
  ELSE LET victim == CHOOSE id \in DOMAIN items : \A other \in DOMAIN items : items[id] <= items[other]
       IN  [id \in (DOMAIN items) \ {victim} |-> items[id]]
Swept(t) ==
  IF Cardinality(DOMAIN items) < Capacity THEN items
  ELSE [id \in {i \in DOMAIN items : t < items[i]} |-> items[id]]

\* Seen: validate returns ErrReplayed.
SeenOrAddSeen(h) ==
  /\ pc[h] = "ready"
  /\ Seen(doc[h].id, now[h])
  /\ pc' = [pc EXCEPT ![h] = "idle"]
  /\ UNCHANGED <<clock, items, doc, parsedAt, expiresAt, now, accepted>>

\* Full even after the sweep: validate returns ErrReplayCacheFull.
SeenOrAddFull(h) ==
  /\ pc[h] = "ready"
  /\ ~Seen(doc[h].id, now[h])
  /\ Cardinality(DOMAIN Swept(now[h])) >= Capacity
  /\ items' = Swept(now[h])
  /\ pc' = [pc EXCEPT ![h] = "idle"]
  /\ UNCHANGED <<clock, doc, parsedAt, expiresAt, now, accepted>>

\* Added: validate returns the assertion.
SeenOrAddNew_Unbounded(h) ==
  /\ pc[h] = "ready"
  /\ ~Seen(doc[h].id, now[h])
  /\ accepted[doc[h].id] < MaxAccepted
  /\ items' = [id \in (DOMAIN items) \cup {doc[h].id} |->
                 IF id = doc[h].id THEN expiresAt[h] ELSE items[id]]
  /\ accepted' = [accepted EXCEPT ![doc[h].id] = @ + 1]
  /\ pc' = [pc EXCEPT ![h] = "idle"]
  /\ UNCHANGED <<clock, doc, parsedAt, expiresAt, now>>
SeenOrAddNew(h) ==
  /\ pc[h] = "ready"
  /\ ~Seen(doc[h].id, now[h])
  /\ Cardinality(DOMAIN Swept(now[h])) < Capacity
  /\ accepted[doc[h].id] < MaxAccepted
  /\ items' = [id \in (DOMAIN Swept(now[h])) \cup {doc[h].id} |->
                 IF id = doc[h].id THEN expiresAt[h] ELSE items[id]]
  /\ accepted' = [accepted EXCEPT ![doc[h].id] = @ + 1]
  /\ pc' = [pc EXCEPT ![h] = "idle"]
  /\ UNCHANGED <<clock, doc, parsedAt, expiresAt, now>>

Next ==
  \/ Tick
  \/ \E h \in Handlers, r \in Responses : Parse(h, r)
  \/ \E h \in Handlers :
       \/ ComputeExpiry(h)
       \/ ReadNow(h)
       \/ SeenOrAddSeen(h)
       \/ SeenOrAddFull(h)
       \/ SeenOrAddNew(h)

Spec == Init /\ [][Next]_vars

-----------------------------------------------------------------------------
\* The cache and the handlers' locals.
TypeOK ==
  /\ clock \in 0..MaxTime
  /\ DOMAIN items \subseteq Ids
  /\ items \in [DOMAIN items -> Nat]
  /\ pc \in [Handlers -> {"idle", "parsed", "stamped", "ready"}]
  /\ doc \in [Handlers -> Responses]
  /\ parsedAt \in [Handlers -> 0..MaxTime]
  /\ expiresAt \in [Handlers -> Nat]
  /\ now \in [Handlers -> 0..MaxTime]
  /\ accepted \in [Ids -> 0..MaxAccepted]

\* An assertion is accepted at most once, however many documents carry it,
\* however its validations interleave, and however the cache is swept for
\* other assertions in between (replay.go:9-38 and the argument in the comment
\* at replay.go:85-94).
AtMostOnce == \A id \in Ids : accepted[id] <= 1

\* An id is remembered only if its assertion was accepted: a rejected
\* response never uses an id up (validate.go:93-99).
OnlyAcceptedRemembered == \A id \in DOMAIN items : accepted[id] > 0

\* "hard capacity bound" (replay.go:40).
Bounded == Cardinality(DOMAIN items) <= Capacity

\* "Accepted assertion IDs remain protected until expiry, including under
\* capacity pressure" (replay.go:42-43): no step, a sweep by a handler with an
\* old clock reading included, drops or shortens a record that is live.
ProtectedUntilExpiry ==
  [][\A id \in DOMAIN items :
       clock < items[id] => id \in DOMAIN items' /\ items'[id] >= items[id]]_vars
=============================================================================
