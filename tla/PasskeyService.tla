--------------------------- MODULE PasskeyService ---------------------------
(***************************************************************************)
(* passkey.Service (passkey/registration.go, authentication.go,            *)
(* discoverable.go): the Begin and Finish calls of the three ceremonies,   *)
(* over a single-use session store and passkey.MemoryCredentialStore.      *)
(*                                                                         *)
(* The session store is taken by its promise, OneTimeStore, which both of  *)
(* its implementations are checked against: a session may vanish at any    *)
(* time (expiry, eviction), so time is left out and TTL is 0.              *)
(*                                                                         *)
(* A Finish call is three steps: Take; load the stored credential and      *)
(* verify the response against that copy; write the result back.  Each     *)
(* store call locks for itself, so other calls run between the steps.      *)
(***************************************************************************)
EXTENDS Integers, FiniteSets, Sequences, SequencesExt

CONSTANTS
  Users,        \* user handles
  NoUser,       \* the user of a discoverable session
  Credentials,  \* credential ids
  Configs,      \* the user verification that a Config asks for, as New gets it
  Options,      \* what a Begin call's options may ask for, in order
  Finishers,    \* goroutines running Finish calls
  MaxBegins,    \* bound on the number of Begin calls
  MaxCounter    \* bound on the signature counter

\* protocol.UserVerificationRequirement.
Requirements == {"required", "preferred", "discouraged"}

ASSUME NoUserOutside == NoUser \notin Users
ASSUME ConfigsType ==
  Configs \subseteq [UserVerification : Requirements \cup {""},
                     AuthenticatorSelection : Requirements \cup {""}]
ASSUME OptionsType == Options \subseteq Seq(Requirements)
ASSUME ModelBounds == MaxBegins \in Nat \ {0} /\ MaxCounter \in Nat

VARIABLES
  config,     \* the Config that the Service was built from
  clock, held, issued, redeemed,  \* the session store (see OneTimeStore)
  byID,       \* MemoryCredentialStore.byID: id -> [owner, count, warning]
  revoked,    \* ids that were deleted and have not been registered anew since
  pc,         \* per finisher: where in a Finish call it is
  call,       \* per finisher: which Finish call, for which user
  session,    \* per finisher: the session that Take returned
  result,     \* per finisher: the verified credential, not yet written back,
              \* and as history what it was verified against, and whether the
              \* application has deleted that since
  successes   \* history: per session, how many Finish calls succeeded on it

\* A session: the user it is bound to, the credentials it allows (none: any)
\* and its user-verification requirement; as history, whether the application
\* asked for that to be enforced.
SessionData == [user : Users \cup {NoUser}, allowed : SUBSET Credentials,
                uv : Requirements, asked : BOOLEAN]

Sessions == INSTANCE OneTimeStore
  WITH Ids <- 1..MaxBegins, Values <- SessionData, TTL <- 0, MaxItems <- MaxBegins

sessionVars == <<clock, held, issued, redeemed>>
finisherVars == <<pc, call, session, result>>
vars == <<config, sessionVars, byID, revoked, finisherVars, successes>>

Kinds == {"registration", "login", "discoverable"}
Record == [owner : Users, count : 0..MaxCounter, warning : BOOLEAN]
NoRecord == [owner |-> NoUser, count |-> 0, warning |-> FALSE]
NoResult == [id |-> "none", loaded |-> NoRecord, record |-> NoRecord,
             verified |-> FALSE, deleted |-> FALSE]

Init ==
  /\ config \in Configs
  /\ Sessions!Init
  /\ byID = [c \in {} |-> NoRecord]
  /\ revoked = {}
  /\ pc = [f \in Finishers |-> "idle"]
  /\ call = [f \in Finishers |-> [kind |-> "login", user |-> NoUser]]
  /\ session = [f \in Finishers |-> 0]
  /\ result = [f \in Finishers |-> NoResult]
  /\ successes = [s \in 1..MaxBegins |-> 0]

\* New: the default for logins, and the one for registrations that goes to
\* go-webauthn with the rest of AuthenticatorSelection.  (A Config that New
\* refuses makes no Service.)
New(cfg) ==
  LET uv == IF cfg.UserVerification = "" THEN "preferred" ELSE cfg.UserVerification
  IN  [defaultLoginUV |-> uv,
       authSel |-> IF cfg.AuthenticatorSelection = "" THEN uv ELSE cfg.AuthenticatorSelection]

\* The options of a login; the last one that go-webauthn applies holds.
withDefaultUV_Appended(opts) == Append(opts, New(config).defaultLoginUV)
withDefaultUV(opts) == <<New(config).defaultLoginUV>> \o opts

\* CredentialStore.FindByUserHandle.
FindByUserHandle(user) == {c \in DOMAIN byID : byID[c].owner = user}

-----------------------------------------------------------------------------
\* The Begin calls: park a session and hand out its id.  BeginRegistration
\* binds it to the user, BeginLogin to the user and the user's credentials
\* (ErrNoCredentials if there are none), BeginDiscoverableLogin to nobody.
\* The list that BeginLogin reads and the Put that parks it are one step here:
\* the list is out of date by the time Finish reads it in any case.
Begin(user, allowed, requirements, asked) ==
  /\ issued < MaxBegins
  /\ Sessions!Issue(issued + 1, [user |-> user, allowed |-> allowed,
                                 uv |-> Last(requirements), asked |-> asked])
  /\ UNCHANGED <<config, byID, revoked, finisherVars, successes>>

\* History: what the options of the call ask for, or else the Config.
Asked(opts, default) == (IF opts = <<>> THEN default ELSE Last(opts)) = "required"

BeginRegistration(user, opts) ==
  Begin(user, {}, <<New(config).authSel>> \o opts,
        Asked(opts, IF config.AuthenticatorSelection = "" THEN config.UserVerification
                    ELSE config.AuthenticatorSelection))

BeginLogin(user, opts) ==
  /\ FindByUserHandle(user) # {}
  /\ Begin(user, FindByUserHandle(user), withDefaultUV(opts), Asked(opts, config.UserVerification))

BeginDiscoverableLogin(opts) ==
  Begin(NoUser, {}, withDefaultUV(opts), Asked(opts, config.UserVerification))

\* A session expires or is evicted.
SessionLost ==
  /\ Sessions!Forget
  /\ held' # held
  /\ UNCHANGED <<config, byID, revoked, finisherVars, successes>>

\* External: the application deletes a credential from its store (deletion is
\* the application's, credential_store.go:38-44), at any moment: a login may
\* have loaded it, a registration of the same id may be under way.
Revoke(c) ==
  /\ c \in DOMAIN byID
  /\ byID' = [d \in (DOMAIN byID) \ {c} |-> byID[d]]
  /\ revoked' = revoked \cup {c}
  /\ result' = [f \in Finishers |->
                  [result[f] EXCEPT !.deleted = @ \/ result[f].id = c]]
  /\ UNCHANGED <<config, sessionVars, pc, call, session, successes>>

-----------------------------------------------------------------------------
\* A Finish call begins: Take succeeds.  (When it fails the call returns
\* ErrSessionNotFound and nothing has happened.)
Take_Peeks(f, kind, user, e) ==
  /\ pc[f] = "idle"
  /\ pc' = [pc EXCEPT ![f] = "taken"]
  /\ call' = [call EXCEPT ![f] = [kind |-> kind, user |-> user]]
  /\ session' = [session EXCEPT ![f] = e]
  /\ UNCHANGED <<config, sessionVars, byID, revoked, result, successes>>
Take(f, kind, user, e) ==
  /\ pc[f] = "idle"
  /\ Sessions!Redeem(e)
  /\ pc' = [pc EXCEPT ![f] = "taken"]
  /\ call' = [call EXCEPT ![f] = [kind |-> kind, user |-> user]]
  /\ session' = [session EXCEPT ![f] = e]
  /\ UNCHANGED <<config, byID, revoked, result, successes>>

\* The call is over: its outcome no longer matters.
Return(f) ==
  /\ pc' = [pc EXCEPT ![f] = "idle"]
  /\ call' = [call EXCEPT ![f] = [kind |-> "login", user |-> NoUser]]
  /\ session' = [session EXCEPT ![f] = 0]
  /\ result' = [result EXCEPT ![f] = NoResult]

\* Verification fails, for whatever reason; the session stays used up.
VerifyFails_Restores(f) ==
  /\ pc[f] = "taken"
  /\ Return(f)
  /\ held' = held \cup {session[f]}
  /\ UNCHANGED <<config, clock, issued, redeemed, byID, revoked, successes>>
VerifyFails(f) ==
  /\ pc[f] = "taken"
  /\ Return(f)
  /\ UNCHANGED <<config, sessionVars, byID, revoked, successes>>

\* External: go-webauthn looks at the response's user-verified flag only if the
\* session says "required" (passkey.go:81-87).
UserVerified(f, uv) == session[f].value.uv = "required" => uv

Verified(f, c, loaded, record, uv) ==
  /\ UserVerified(f, uv)
  /\ pc' = [pc EXCEPT ![f] = "verified"]
  /\ result' = [result EXCEPT ![f] = [id |-> c, loaded |-> loaded, record |-> record,
                                      verified |-> uv, deleted |-> FALSE]]
  /\ UNCHANGED <<config, sessionVars, byID, revoked, call, session, successes>>

\* External: go-webauthn refuses a session that is bound to another user.
BoundTo(f, user) == session[f].value.user = user

\* FinishRegistration.  External: the new credential's id is the
\* authenticator's, perhaps one that is registered already, or was until it
\* was deleted (credential_store.go:60-65); its counter starts anywhere.
VerifyRegistration(f, c, counter, uv) ==
  /\ pc[f] = "taken" /\ call[f].kind = "registration"
  /\ BoundTo(f, call[f].user)
  /\ Verified(f, c, NoRecord, [owner |-> call[f].user, count |-> counter, warning |-> FALSE], uv)

\* External: what go-webauthn makes of the counter that a response reports
\* (authentication_test.go:131-176): no advance past the count on file raises
\* the warning and keeps the count.  No property depends on whether a warning
\* already on file survives an advance.
UpdateCounter(record, counter) ==
  IF counter <= record.count /\ ~(counter = 0 /\ record.count = 0)
    THEN [record EXCEPT !.warning = TRUE]
    ELSE [record EXCEPT !.count = counter]

\* FinishLogin: the credential is one of the user's, and one the session allows.
VerifyLogin(f, c, counter, uv) ==
  /\ pc[f] = "taken" /\ call[f].kind = "login"
  /\ BoundTo(f, call[f].user)
  /\ c \in FindByUserHandle(call[f].user)
  /\ session[f].value.allowed = {} \/ c \in session[f].value.allowed
  /\ Verified(f, c, byID[c], UpdateCounter(byID[c], counter), uv)

\* FinishDiscoverableLogin: the account is the owner of the credential that
\* FindByID returns; the user of the call is resolved from it.
VerifyDiscoverable_Trusting(f, c, counter, uv) ==
  /\ pc[f] = "taken" /\ call[f].kind = "discoverable"
  /\ BoundTo(f, NoUser) /\ UserVerified(f, uv)
  /\ c \in DOMAIN byID
  /\ \E claimed \in Users :
       /\ pc' = [pc EXCEPT ![f] = "verified"]
       /\ result' = [result EXCEPT ![f] = [id |-> c, loaded |-> byID[c],
                                      record |-> UpdateCounter(byID[c], counter),
                                      verified |-> uv, deleted |-> FALSE]]
       /\ call' = [call EXCEPT ![f].user = claimed]
  /\ UNCHANGED <<config, sessionVars, byID, revoked, session, successes>>
VerifyDiscoverable(f, c, counter, uv) ==
  /\ pc[f] = "taken" /\ call[f].kind = "discoverable"
  /\ BoundTo(f, NoUser) /\ UserVerified(f, uv)
  /\ c \in DOMAIN byID
  /\ pc' = [pc EXCEPT ![f] = "verified"]
  /\ result' = [result EXCEPT ![f] = [id |-> c, loaded |-> byID[c],
                                      record |-> UpdateCounter(byID[c], counter),
                                      verified |-> uv, deleted |-> FALSE]]
  /\ call' = [call EXCEPT ![f].user = byID[c].owner]
  /\ UNCHANGED <<config, sessionVars, byID, revoked, session, successes>>

-----------------------------------------------------------------------------
\* byID[id] = record.
Stored(id, record) ==
  [c \in (DOMAIN byID) \cup {id} |-> IF c = id THEN record ELSE byID[c]]

Succeeded(f) == successes' = [successes EXCEPT ![session[f].id] = @ + 1]

\* MemoryCredentialStore.Save: refuses an id that is stored already.
SaveRefuses_Never(f) == FALSE
SaveRefuses(f) == result[f].id \in DOMAIN byID

Save(f) ==
  /\ pc[f] = "verified" /\ call[f].kind = "registration"
  /\ \/ /\ SaveRefuses(f)
        /\ UNCHANGED <<byID, revoked, successes>>
     \/ /\ ~SaveRefuses(f)
        /\ byID' = Stored(result[f].id, result[f].record)
        /\ revoked' = revoked \ {result[f].id}
        /\ Succeeded(f)
  /\ Return(f)
  /\ UNCHANGED <<config, sessionVars>>

\* MemoryCredentialStore.UpdateSignCount: refuses an id that is not stored,
\* else replaces the stored credential by the caller's whole copy and leaves
\* the owner on file alone.
WriteBack_Zero(f) ==
  [result[f].record EXCEPT !.owner = byID[result[f].id].owner, !.count = 0]
WriteBack(f) == [result[f].record EXCEPT !.owner = byID[result[f].id].owner]

UpdateSignCount_Upserts(f) ==
  /\ pc[f] = "verified" /\ call[f].kind # "registration"
  /\ byID' = Stored(result[f].id, result[f].record)
  /\ Succeeded(f)
  /\ Return(f)
  /\ UNCHANGED <<config, sessionVars, revoked>>
UpdateSignCount(f) ==
  /\ pc[f] = "verified" /\ call[f].kind # "registration"
  /\ \/ /\ result[f].id \notin DOMAIN byID
        /\ UNCHANGED <<byID, successes>>
     \/ /\ result[f].id \in DOMAIN byID
        /\ byID' = Stored(result[f].id, WriteBack(f))
        /\ Succeeded(f)
  /\ Return(f)
  /\ UNCHANGED <<config, sessionVars, revoked>>

Finish(f) ==
  \/ \E kind \in Kinds, user \in Users, e \in held : Take(f, kind, user, e)
  \/ VerifyFails(f)
  \/ \E c \in Credentials, counter \in 0..MaxCounter, uv \in BOOLEAN :
       \/ VerifyRegistration(f, c, counter, uv)
       \/ VerifyLogin(f, c, counter, uv)
       \/ VerifyDiscoverable(f, c, counter, uv)
  \/ Save(f)
  \/ UpdateSignCount(f)

Next ==
  \/ \E opts \in Options :
       \/ \E user \in Users : BeginRegistration(user, opts) \/ BeginLogin(user, opts)
       \/ BeginDiscoverableLogin(opts)
  \/ SessionLost
  \/ \E c \in Credentials : Revoke(c)
  \/ \E f \in Finishers : Finish(f)

Spec == Init /\ [][Next]_vars

-----------------------------------------------------------------------------
\* "sessionID is single-use regardless of outcome" (registration.go:65-67):
\* a session, whichever Finish calls race for it, ends in one success at most.
OneSuccessPerSession == \A s \in 1..MaxBegins : successes[s] <= 1

\* "a rejected attempt cannot be retried against the same challenge"
\* (registration.go:65-67): however a Finish call ends, failed write-backs
\* included, the session it took is not to be had again.
NoSecondAttempt == Sessions!Tickets(held) \cap redeemed = {}

\* "applied to every login ceremony ... unless a call overrides it" (passkey.go:
\* 169-177): whichever Finish call ends up with a session, it does not succeed
\* without user verification if the Begin call that parked the session, or else
\* the Config, required it.
VerificationHonoured ==
  [][\A f \in Finishers :
       successes' # successes /\ pc'[f] # pc[f] /\ session[f].value.asked => result[f].verified]_vars

\* A login succeeds only for the account that owns the credential at the
\* moment the result is written back, although the owner was looked up before
\* (discoverable.go:38-46, "rather than resolving to the wrong account"),
\* whatever registrations of the same id and whatever other logins come in
\* between.  A credential that was deleted in between is left out: when its id
\* is registered anew at once, UpdateSignCount, which is keyed by the id alone,
\* reports success to the login of the old one.
LoginForOwner ==
  [][\A f \in Finishers :
       UpdateSignCount(f) /\ successes' # successes /\ ~result[f].deleted =>
         result[f].id \in DOMAIN byID /\ byID[result[f].id].owner = call[f].user]_vars

\* A credential never moves to another account (credential_store.go:65-71):
\* neither a second registration of its id nor a write-back does that.
OwnerNeverChanges ==
  [][\A c \in (DOMAIN byID) \cap (DOMAIN byID') : byID'[c].owner = byID[c].owner]_vars

\* A login that was under way when its credential was deleted does not bring
\* the credential back (credential_store.go:157-170): a deleted id is on file
\* again only once it has been registered anew.
RevokedStaysRevoked == (DOMAIN byID) \cap revoked = {}

\* A login that succeeds without a warning leaves a counter above the one it
\* finds on file, or both are zero.
CounterAdvances(f) ==
  UpdateSignCount(f) /\ successes' # successes /\ ~byID'[result[f].id].warning =>
    LET before == byID[result[f].id].count
        after == byID'[result[f].id].count
    IN  after > before \/ (after = 0 /\ before = 0)

\* "CloneWarning ... is set when the authenticator's reported counter did not
\* advance past the value already on file" (authentication.go:28-32), whatever
\* else happens to the credential while the login is under way.
ClonesFlagged == [][\A f \in Finishers : CounterAdvances(f)]_vars

\* What the code keeps of it: clones are flagged by a login that finds on file
\* what it was verified against, whichever logins were before.
ClonesFlaggedUnlessRaced ==
  [][\A f \in Finishers :
       result[f].id \in DOMAIN byID /\ byID[result[f].id] = result[f].loaded
         => CounterAdvances(f)]_vars
=============================================================================
