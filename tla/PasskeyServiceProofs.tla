------------------------ MODULE PasskeyServiceProofs ------------------------
(***************************************************************************)
(* The invariants and the action properties of the passkey ceremonies, for *)
(* any number of users, credentials, concurrent Finish calls and Begin     *)
(* calls, any Config, any options and any counters.                        *)
(***************************************************************************)
EXTENDS PasskeyService, SequenceTheorems, TLAPS

AnyRecord == Record \cup {NoRecord}
Entries == [id : 1..MaxBegins, value : SessionData, expires : {0}, ticket : Nat]
CallRecords == [kind : Kinds, user : Users \cup {NoUser}]
Results == [id : Credentials \cup {"none"}, loaded : AnyRecord, record : AnyRecord,
            verified : BOOLEAN, deleted : BOOLEAN]

\* The shape of the state.
Shape ==
  /\ config \in Configs
  /\ clock = 0 /\ issued \in 0..MaxBegins
  /\ held \in SUBSET Entries
  /\ DOMAIN byID \subseteq Credentials /\ byID \in [DOMAIN byID -> Record]
  /\ pc \in [Finishers -> {"idle", "taken", "verified"}]
  /\ call \in [Finishers -> CallRecords]
  /\ session = [f \in Finishers |-> session[f]]
  /\ result \in [Finishers -> Results]
  /\ successes \in [1..MaxBegins -> Nat]

Busy == {f \in Finishers : pc[f] # "idle"}
LoggingIn == {f \in Finishers : pc[f] = "verified" /\ call[f].kind # "registration"}
Registering == {f \in Finishers : pc[f] = "verified" /\ call[f].kind = "registration"}

\* A session that the application wants verification for requires it.
AskedIsRequired(s) == s.value.asked => s.value.uv = "required"

\* Every session that is held has an id of its own, that was issued and has
\* ended in no success yet.
HeldUnused ==
  \A e \in held :
    /\ e.id \in 1..issued /\ successes[e.id] = 0
    /\ AskedIsRequired(e)
    /\ \A d \in held : d.id = e.id => d = e

\* So has every session that a Finish call has taken, and it is neither held
\* any more nor any other call's.
TakenUnused ==
  \A f \in Busy :
    /\ session[f] \in Entries
    /\ session[f].id \in 1..issued /\ successes[session[f].id] = 0
    /\ AskedIsRequired(session[f])
    /\ \A e \in held : e.id # session[f].id
    /\ \A g \in Busy : session[g].id = session[f].id => g = f

\* Every session that is held, and every one that was handed out, was issued,
\* and no two of those held are one and the same issue.
TicketsIssued ==
  /\ redeemed \subseteq 1..issued
  /\ \A e \in held : e.ticket \in 1..issued /\ \A d \in held : d.ticket = e.ticket => d = e

\* A Finish call is for somebody.
CallsForUsers == \A f \in Busy : call[f].user \in Users

NotIssuedUnused == \A s \in 1..MaxBegins : s > issued => successes[s] = 0

\* A Finish call that has verified a response has seen the user verified, if
\* it was to do so.
AnsweredAsAsked(s, r) == s.value.asked => r.verified
VerifiedAsAsked == \A f \in Finishers : pc[f] = "verified" => AnsweredAsAsked(session[f], result[f])

\* The credential of a login under way belongs to the login's user, or has
\* been deleted since.
DeletedSince(r) == r.deleted
LoginOwner ==
  \A f \in LoggingIn :
    \/ DeletedSince(result[f])
    \/ result[f].id \in DOMAIN byID /\ byID[result[f].id].owner = call[f].user

\* What a login is about to write back came from what it loaded.
LoginResult ==
  \A f \in LoggingIn :
    /\ result[f].loaded \in Record
    /\ \E counter \in 0..MaxCounter : result[f].record = UpdateCounter(result[f].loaded, counter)

\* What a registration is about to store has an id and an owner.
RegistrationNew ==
  \A f \in Registering :
    /\ result[f].id \in Credentials
    /\ result[f].record \in Record

\* The inductive invariant.
IInv ==
  /\ Shape
  /\ HeldUnused
  /\ TakenUnused
  /\ TicketsIssued
  /\ NoSecondAttempt
  /\ CallsForUsers
  /\ NotIssuedUnused
  /\ OneSuccessPerSession
  /\ VerifiedAsAsked
  /\ LoginOwner
  /\ LoginResult
  /\ RegistrationNew
  /\ RevokedStaysRevoked

-----------------------------------------------------------------------------
\* The last of the requirements that go-webauthn applies.
LEMMA LastRequirement ==
  ASSUME NEW x \in Requirements, NEW opts \in Seq(Requirements)
  PROVE  /\ Last(<<x>> \o opts) \in Requirements
         /\ Last(<<x>> \o opts) = IF opts = <<>> THEN x ELSE Last(opts)
<1>1. <<x>> \in Seq(Requirements) /\ Len(<<x>>) = 1
  OBVIOUS
<1>2. /\ <<x>> \o opts \in Seq(Requirements)
      /\ Len(<<x>> \o opts) = 1 + Len(opts)
      /\ Len(opts) \in Nat
  BY <1>1, ConcatProperties, LenProperties
<1>3. CASE opts = <<>>
  <2>1. Len(opts) = 0
    BY <1>3
  <2>2. (<<x>> \o opts)[1] = x
    BY <1>1, <2>1, ConcatProperties
  <2> QED BY <1>2, <1>3, <2>1, <2>2 DEF Last
<1>4. CASE opts # <<>>
  <2>1. Len(opts) \in 1..Len(opts)
    BY <1>2, <1>4, EmptySeq
  <2>2. (<<x>> \o opts)[1 + Len(opts)] = opts[Len(opts)]
    BY <1>1, <1>2, <2>1, ConcatProperties
  <2>3. opts[Len(opts)] \in Requirements
    BY <2>1, ElementOfSeq
  <2> QED BY <1>2, <1>4, <2>2, <2>3 DEF Last
<1> QED BY <1>3, <1>4

\* New fills in every requirement that a Config leaves out.
LEMMA NewFacts ==
  ASSUME NEW cfg \in Configs
  PROVE  New(cfg).defaultLoginUV \in Requirements /\ New(cfg).authSel \in Requirements
<1>1. /\ cfg.UserVerification \in Requirements \cup {""}
      /\ cfg.AuthenticatorSelection \in Requirements \cup {""}
  BY ConfigsType
<1> QED BY <1>1 DEF New, Requirements

\* go-webauthn's update of a stored credential keeps its owner.
LEMMA UpdateCounterFacts ==
  ASSUME NEW record \in Record, NEW counter \in 0..MaxCounter
  PROVE  UpdateCounter(record, counter) \in Record
BY DEF UpdateCounter, Record

LEMMA NothingType == NoRecord \in AnyRecord /\ NoResult \in Results
<1>1. NoRecord \in AnyRecord
  BY DEF AnyRecord
<1> QED BY <1>1 DEF NoResult, Results

\* The initial state satisfies the invariant.
LEMMA InitIInv == Init => IInv
<1> SUFFICES ASSUME Init PROVE IInv
  OBVIOUS
<1>1. held = {} /\ issued = 0 /\ clock = 0 /\ redeemed = {}
  BY DEF Init, Sessions!Init
<1>2. DOMAIN byID = {} /\ byID \in [DOMAIN byID -> Record]
  BY DEF Init
<1>3. call \in [Finishers -> CallRecords]
  BY DEF Init, CallRecords, Kinds
<1>4. result \in [Finishers -> Results]
  BY NothingType DEF Init
<1>5. /\ pc \in [Finishers -> {"idle", "taken", "verified"}]
      /\ \A f \in Finishers : pc[f] = "idle"
      /\ Busy = {} /\ LoggingIn = {} /\ Registering = {}
  BY DEF Init, Busy, LoggingIn, Registering
<1>6. /\ successes \in [1..MaxBegins -> Nat]
      /\ \A s \in 1..MaxBegins : successes[s] = 0
  BY DEF Init
<1>7. config \in Configs /\ session = [f \in Finishers |-> session[f]] /\ issued \in 0..MaxBegins
  BY <1>1, ModelBounds DEF Init
<1>8. Shape
  BY <1>1, <1>2, <1>3, <1>4, <1>5, <1>6, <1>7 DEF Shape
<1>9. HeldUnused /\ TakenUnused /\ NotIssuedUnused /\ OneSuccessPerSession
  BY <1>1, <1>5, <1>6 DEF HeldUnused, TakenUnused, NotIssuedUnused, OneSuccessPerSession
<1>10. CallsForUsers /\ VerifiedAsAsked /\ LoginOwner /\ LoginResult /\ RegistrationNew
  BY <1>5 DEF CallsForUsers, VerifiedAsAsked, LoginOwner, LoginResult, RegistrationNew
<1>11. RevokedStaysRevoked
  BY <1>2 DEF RevokedStaysRevoked
<1>12. TicketsIssued /\ NoSecondAttempt
  BY <1>1 DEF TicketsIssued, NoSecondAttempt, Sessions!Tickets
<1> QED BY <1>8, <1>9, <1>10, <1>11, <1>12 DEF IInv

-----------------------------------------------------------------------------
\* A Begin call parks one session more, under an id that is nobody's.
LEMMA BeginStep ==
  ASSUME IInv, NEW user \in Users \cup {NoUser}, NEW allowed \in SUBSET Credentials,
         NEW requirements, NEW asked \in BOOLEAN,
         Last(requirements) \in Requirements,
         asked => Last(requirements) = "required",
         Begin(user, allowed, requirements, asked)
  PROVE  IInv'
<1> DEFINE data == [user |-> user, allowed |-> allowed, uv |-> Last(requirements), asked |-> asked]
           n == issued + 1
<1>1. /\ issued < MaxBegins
      /\ Sessions!Issue(n, data)
      /\ UNCHANGED <<config, byID, revoked, pc, call, session, result, successes>>
  BY DEF Begin, finisherVars
<1>2. data \in SessionData
  BY DEF SessionData
<1>3. data.asked => data.uv = "required"
  BY Zenon
<1> HIDE DEF data
<1>4. PICK kept \in SUBSET held, expires \in 0..(clock + 0) :
        held' = kept \cup {[id |-> n, value |-> data, expires |-> expires, ticket |-> issued']}
  BY <1>1 DEF Sessions!Issue
<1>5. issued' = n /\ clock' = clock /\ redeemed' = redeemed
  BY <1>1 DEF Sessions!Issue
<1>6. issued \in Nat /\ clock = 0 /\ n \in 1..MaxBegins /\ MaxBegins \in Nat
  BY <1>1, ModelBounds DEF IInv, Shape
<1> DEFINE new == [id |-> n, value |-> data, expires |-> expires, ticket |-> issued']
<1>7. /\ new \in Entries /\ new.id = n /\ new.ticket = n /\ new.value = data
      /\ held' = kept \cup {new} /\ kept \subseteq held
  BY <1>2, <1>4, <1>5, <1>6 DEF Entries
<1>8. AskedIsRequired(new)
  BY <1>3, <1>7, Zenon DEF AskedIsRequired
<1> HIDE DEF new, n
<1>9. n > issued /\ 1..issued \subseteq 1..n /\ n \in 1..n
  BY <1>6 DEF n
<1>10. Busy' = Busy /\ LoggingIn' = LoggingIn /\ Registering' = Registering
  BY <1>1 DEF Busy, LoggingIn, Registering
<1>11. Shape'
  <2>1. held' \in SUBSET Entries
    BY <1>7 DEF IInv, Shape
  <2>2. issued' \in 0..MaxBegins
    BY <1>5, <1>6
  <2> QED BY <2>1, <2>2, <1>1, <1>5 DEF IInv, Shape
<1>12. HeldUnused'
  <2>1. successes[n] = 0
    BY <1>6, <1>9 DEF IInv, NotIssuedUnused
  <2>2. \A e \in kept : e.id \in 1..issued /\ e.id # n
    BY <1>6, <1>7, <1>9 DEF IInv, HeldUnused
  <2>3. \A e, d \in kept : d.id = e.id => d = e
    BY <1>7 DEF IInv, HeldUnused
  <2>4. \A e, d \in held' : d.id = e.id => d = e
    BY <2>2, <2>3, <1>7
  <2>5. \A e \in held' : e.id \in 1..n /\ successes[e.id] = 0
    BY <2>1, <2>2, <1>7, <1>9 DEF IInv, HeldUnused
  <2>6. \A e \in held' : AskedIsRequired(e)
    BY <1>7, <1>8 DEF IInv, HeldUnused
  <2> QED BY <2>4, <2>5, <2>6, <1>1, <1>5 DEF HeldUnused, AskedIsRequired
<1>13. TakenUnused'
  <2>1. \A f \in Busy : session[f].id \in 1..n /\ session[f].id # n
    BY <1>6, <1>9 DEF IInv, TakenUnused
  <2>2. \A f \in Busy : \A e \in held' : e.id # session[f].id
    BY <2>1, <1>7 DEF IInv, TakenUnused
  <2> QED BY <2>1, <2>2, <1>1, <1>5, <1>10 DEF IInv, TakenUnused, AskedIsRequired
<1>14. NotIssuedUnused'
  BY <1>1, <1>5, <1>6, <1>9 DEF IInv, NotIssuedUnused
<1>15. OneSuccessPerSession' /\ VerifiedAsAsked' /\ RevokedStaysRevoked'
  BY <1>1 DEF IInv, OneSuccessPerSession, VerifiedAsAsked, AnsweredAsAsked, RevokedStaysRevoked
<1>16. CallsForUsers' /\ LoginOwner' /\ LoginResult' /\ RegistrationNew'
  BY <1>1, <1>10 DEF IInv, CallsForUsers, LoginOwner, DeletedSince, LoginResult, RegistrationNew
<1>17. TicketsIssued' /\ NoSecondAttempt'
  <2>1. /\ redeemed \subseteq 1..issued
        /\ \A e \in kept : e.ticket \in 1..issued
        /\ \A e, d \in kept : d.ticket = e.ticket => d = e
    BY <1>7 DEF IInv, TicketsIssued
  <2>2. n \notin 1..issued
    BY <1>6, <1>9
  <2>3. TicketsIssued'
    BY <2>1, <2>2, <1>5, <1>7, <1>9 DEF TicketsIssued
  <2>4. \A e \in kept : e.ticket \notin redeemed
    BY <1>7 DEF IInv, NoSecondAttempt, Sessions!Tickets
  <2>5. \A e \in held' : e.ticket \notin redeemed'
    BY <2>1, <2>2, <2>4, <1>5, <1>7
  <2> QED BY <2>3, <2>5 DEF NoSecondAttempt, Sessions!Tickets
<1> QED BY <1>11, <1>12, <1>13, <1>14, <1>15, <1>16, <1>17 DEF IInv

\* A session is lost.
LEMMA LostStep ==
  ASSUME IInv, SessionLost
  PROVE  IInv'
<1>1. /\ held' \in SUBSET held
      /\ UNCHANGED <<clock, issued, redeemed, config, byID, revoked, pc, call, session, result, successes>>
  BY DEF SessionLost, Sessions!Forget, finisherVars
<1>2. Busy' = Busy /\ LoggingIn' = LoggingIn /\ Registering' = Registering
  BY <1>1 DEF Busy, LoggingIn, Registering
<1>3. Shape'
  BY <1>1 DEF IInv, Shape
<1>4. HeldUnused' /\ TakenUnused' /\ NotIssuedUnused'
  BY <1>1, <1>2 DEF IInv, HeldUnused, TakenUnused, NotIssuedUnused, AskedIsRequired
<1>5. OneSuccessPerSession' /\ VerifiedAsAsked' /\ RevokedStaysRevoked'
  BY <1>1 DEF IInv, OneSuccessPerSession, VerifiedAsAsked, AnsweredAsAsked, RevokedStaysRevoked
<1>6. CallsForUsers' /\ LoginResult' /\ RegistrationNew'
  BY <1>1, <1>2 DEF IInv, CallsForUsers, LoginResult, RegistrationNew
<1>7. LoginOwner'
  BY <1>1, <1>2 DEF IInv, LoginOwner, DeletedSince
<1>8. TicketsIssued' /\ NoSecondAttempt'
  BY <1>1 DEF IInv, TicketsIssued, NoSecondAttempt, Sessions!Tickets
<1> QED BY <1>3, <1>4, <1>5, <1>6, <1>7, <1>8 DEF IInv

\* What the deletion of c leaves of the result that a Finish call has in hand.
Marked(r, c) == [r EXCEPT !.deleted = @ \/ r.id = c]

LEMMA MarkedFacts ==
  ASSUME NEW r \in Results, NEW c
  PROVE  /\ Marked(r, c) \in Results
         /\ Marked(r, c).id = r.id /\ Marked(r, c).loaded = r.loaded
         /\ Marked(r, c).record = r.record /\ Marked(r, c).verified = r.verified
         /\ DeletedSince(r) \/ r.id = c => DeletedSince(Marked(r, c))
<1> DEFINE b == r.deleted \/ r.id = c
<1>1. b \in BOOLEAN /\ Marked(r, c) = [r EXCEPT !.deleted = b]
  BY DEF Marked, Results
<1>2. (DeletedSince(r) \/ r.id = c) => b = TRUE
  BY Zenon DEF DeletedSince
<1> HIDE DEF b
<1>3. [r EXCEPT !.deleted = b] \in Results /\ [r EXCEPT !.deleted = b].deleted = b
  BY <1>1 DEF Results
<1>4. /\ [r EXCEPT !.deleted = b].id = r.id /\ [r EXCEPT !.deleted = b].loaded = r.loaded
      /\ [r EXCEPT !.deleted = b].record = r.record /\ [r EXCEPT !.deleted = b].verified = r.verified
  BY DEF Results
<1>5. Marked(r, c).deleted = b
  BY <1>1, <1>3
<1>6. (DeletedSince(r) \/ r.id = c) => DeletedSince(Marked(r, c))
  BY <1>2, <1>5, Zenon DEF DeletedSince
<1> QED BY <1>1, <1>3, <1>4, <1>6

\* A credential is deleted: the logins under way with it know.
LEMMA RevokeStep ==
  ASSUME IInv, NEW c \in Credentials, Revoke(c)
  PROVE  IInv'
<1>1. /\ byID' = [d \in (DOMAIN byID) \ {c} |-> byID[d]]
      /\ revoked' = revoked \cup {c}
      /\ result' = [f \in Finishers |-> Marked(result[f], c)]
      /\ UNCHANGED <<config, clock, held, issued, redeemed, pc, call, session, successes>>
  BY DEF Revoke, sessionVars, Marked
<1>2. Busy' = Busy /\ LoggingIn' = LoggingIn /\ Registering' = Registering
  BY <1>1 DEF Busy, LoggingIn, Registering
<1>3. /\ DOMAIN byID' = (DOMAIN byID) \ {c}
      /\ \A d \in DOMAIN byID' : byID'[d] = byID[d]
      /\ byID' \in [DOMAIN byID' -> Record]
  BY <1>1 DEF IInv, Shape
<1>4. \A f \in Finishers : result[f] \in Results /\ result'[f] = Marked(result[f], c)
  BY <1>1 DEF IInv, Shape
<1>5. \A f \in Finishers :
        /\ result'[f] \in Results
        /\ result'[f].id = result[f].id /\ result'[f].loaded = result[f].loaded
        /\ result'[f].record = result[f].record /\ result'[f].verified = result[f].verified
        /\ DeletedSince(result[f]) \/ result[f].id = c => DeletedSince(result'[f])
  BY <1>4, MarkedFacts
<1>6. result' \in [Finishers -> Results]
  BY <1>1, <1>4, <1>5
<1>7. Shape'
  BY <1>1, <1>3, <1>6 DEF IInv, Shape
<1>8. HeldUnused' /\ TakenUnused' /\ NotIssuedUnused'
  BY <1>1, <1>2 DEF IInv, HeldUnused, TakenUnused, NotIssuedUnused, AskedIsRequired
<1>9. OneSuccessPerSession' /\ TicketsIssued' /\ NoSecondAttempt'
  BY <1>1 DEF IInv, OneSuccessPerSession, TicketsIssued, NoSecondAttempt, Sessions!Tickets
<1>10. VerifiedAsAsked'
  <2> SUFFICES ASSUME NEW f \in Finishers, pc'[f] = "verified"
               PROVE  AnsweredAsAsked(session'[f], result'[f])
    BY DEF VerifiedAsAsked, AnsweredAsAsked
  <2>1. AnsweredAsAsked(session[f], result[f]) /\ session'[f] = session[f]
    BY <1>1 DEF IInv, VerifiedAsAsked
  <2>2. result'[f].verified = result[f].verified
    BY <1>5
  <2> QED BY <2>1, <2>2, Zenon DEF AnsweredAsAsked
<1>11. RevokedStaysRevoked'
  BY <1>1, <1>3 DEF IInv, RevokedStaysRevoked
<1>12. LoginOwner'
  <2> SUFFICES ASSUME NEW f \in LoggingIn'
               PROVE  \/ DeletedSince(result'[f])
                      \/ result'[f].id \in DOMAIN byID' /\ byID'[result'[f].id].owner = call'[f].user
    BY DEF LoginOwner, DeletedSince
  <2>1. f \in LoggingIn /\ f \in Finishers /\ call'[f] = call[f]
    BY <1>1, <1>2 DEF LoggingIn
  <2>2. \/ DeletedSince(result[f])
        \/ result[f].id \in DOMAIN byID /\ byID[result[f].id].owner = call[f].user
    BY <2>1 DEF IInv, LoginOwner
  <2> QED BY <2>1, <2>2, <1>3, <1>5
<1>13. CallsForUsers'
  BY <1>1, <1>2 DEF IInv, CallsForUsers
<1>14. LoginResult' /\ RegistrationNew'
  <2>1. LoggingIn \subseteq Finishers /\ Registering \subseteq Finishers
    BY DEF LoggingIn, Registering
  <2> QED BY <2>1, <1>2, <1>5 DEF IInv, LoginResult, RegistrationNew
<1> QED BY <1>7, <1>8, <1>9, <1>10, <1>11, <1>12, <1>13, <1>14 DEF IInv

-----------------------------------------------------------------------------
\* Take: the session moves from the store to the call.
LEMMA TakeStep ==
  ASSUME IInv, NEW f \in Finishers, NEW kind \in Kinds, NEW user \in Users, NEW e \in held,
         Take(f, kind, user, e)
  PROVE  IInv'
<1>1. /\ pc[f] = "idle"
      /\ held' = held \ {e} /\ redeemed' = redeemed \cup {e.ticket}
      /\ pc' = [pc EXCEPT ![f] = "taken"]
      /\ call' = [call EXCEPT ![f] = [kind |-> kind, user |-> user]]
      /\ session' = [session EXCEPT ![f] = e]
      /\ UNCHANGED <<clock, issued, config, byID, revoked, result, successes>>
  BY DEF Take, Sessions!Redeem
<1>2. e \in Entries
  BY DEF IInv, Shape
<1>3. /\ pc' \in [Finishers -> {"idle", "taken", "verified"}] /\ pc'[f] = "taken"
      /\ call' \in [Finishers -> CallRecords]
      /\ session' = [g \in Finishers |-> session'[g]] /\ session'[f] = e
      /\ \A g \in Finishers : g # f => pc'[g] = pc[g] /\ call'[g] = call[g] /\ session'[g] = session[g]
  BY <1>1 DEF IInv, Shape, CallRecords
<1>4. /\ Busy' = Busy \cup {f} /\ f \notin Busy
      /\ LoggingIn' \subseteq LoggingIn /\ Registering' \subseteq Registering
      /\ f \notin LoggingIn' /\ f \notin Registering'
  BY <1>1, <1>3 DEF Busy, LoggingIn, Registering
<1>5. Shape'
  BY <1>1, <1>3 DEF IInv, Shape
<1>6. HeldUnused' /\ NotIssuedUnused'
  BY <1>1 DEF IInv, HeldUnused, NotIssuedUnused, AskedIsRequired
<1>7. TakenUnused'
  <2>1. /\ e.id \in 1..issued /\ successes[e.id] = 0 /\ AskedIsRequired(e)
        /\ \A d \in held' : d.id # e.id
    BY <1>1 DEF IInv, HeldUnused
  <2>2. \A g \in Busy : session[g].id # e.id
    BY DEF IInv, TakenUnused
  <2>3. \A g \in Busy : session'[g] = session[g]
    BY <1>3, <1>4 DEF Busy
  <2>4. \A g, h \in Busy' : session'[g].id = session'[h].id => g = h
    BY <2>2, <2>3, <1>3, <1>4 DEF IInv, TakenUnused
  <2>5. \A g \in Busy' : /\ session'[g] \in Entries
                         /\ session'[g].id \in 1..issued /\ successes[session'[g].id] = 0
                         /\ AskedIsRequired(session'[g])
                         /\ \A d \in held' : d.id # session'[g].id
    BY <2>1, <2>3, <1>1, <1>2, <1>3, <1>4 DEF IInv, TakenUnused
  <2> QED BY <2>4, <2>5, <1>1 DEF TakenUnused, AskedIsRequired
<1>8. OneSuccessPerSession' /\ RevokedStaysRevoked'
  BY <1>1 DEF IInv, OneSuccessPerSession, RevokedStaysRevoked
<1>9. VerifiedAsAsked'
  BY <1>1, <1>3 DEF IInv, VerifiedAsAsked, AnsweredAsAsked
<1>10. LoginOwner' /\ LoginResult' /\ RegistrationNew'
  <2>1. \A g \in LoggingIn' : call'[g] = call[g]
    BY <1>3, <1>4 DEF LoggingIn
  <2> QED BY <2>1, <1>1, <1>4 DEF IInv, LoginOwner, DeletedSince, LoginResult, RegistrationNew
<1>11. CallsForUsers'
  <2>1. call'[f].user = user
    BY <1>1 DEF IInv, Shape
  <2>2. \A g \in Busy : call'[g] = call[g]
    BY <1>3, <1>4 DEF Busy
  <2> QED BY <2>1, <2>2, <1>4 DEF IInv, CallsForUsers
<1>12. TicketsIssued' /\ NoSecondAttempt'
  <2>1. TicketsIssued'
    BY <1>1 DEF IInv, TicketsIssued
  <2>2. \A d \in held' : d \in held /\ d.ticket # e.ticket /\ d.ticket \notin redeemed
    BY <1>1 DEF IInv, TicketsIssued, NoSecondAttempt, Sessions!Tickets
  <2>3. \A d \in held' : d.ticket \notin redeemed'
    BY <2>2, <1>1
  <2> QED BY <2>1, <2>3 DEF NoSecondAttempt, Sessions!Tickets
<1> QED BY <1>5, <1>6, <1>7, <1>8, <1>9, <1>10, <1>11, <1>12 DEF IInv

\* The response is verified, in any of the three Finish calls: the call takes c,
\* loaded and record along and, for a discoverable login, learns its user.
VerifiesAs(f, c, loaded, record, uv, user) ==
  /\ pc[f] = "taken" /\ UserVerified(f, uv)
  /\ pc' = [pc EXCEPT ![f] = "verified"]
  /\ result' = [result EXCEPT ![f] = [id |-> c, loaded |-> loaded, record |-> record,
                                      verified |-> uv, deleted |-> FALSE]]
  /\ call' = [call EXCEPT ![f].user = user]
  /\ UNCHANGED <<config, sessionVars, byID, revoked, session, successes>>
  /\ call[f].kind = "registration" => record \in Record
  /\ call[f].kind # "registration" =>
       /\ c \in DOMAIN byID /\ byID[c].owner = user
       /\ loaded \in Record
       /\ \E counter \in 0..MaxCounter : record = UpdateCounter(loaded, counter)

LEMMA VerifyStep ==
  ASSUME IInv, NEW f \in Finishers, NEW c \in Credentials,
         NEW loaded \in AnyRecord, NEW record \in AnyRecord, NEW uv \in BOOLEAN,
         NEW user \in Users,
         VerifiesAs(f, c, loaded, record, uv, user)
  PROVE  IInv'
<1> USE DEF VerifiesAs
<1> DEFINE r == [id |-> c, loaded |-> loaded, record |-> record, verified |-> uv,
                  deleted |-> FALSE]
<1>1. UNCHANGED <<config, clock, held, issued, redeemed, byID, revoked, session, successes>>
  BY DEF sessionVars
<1>2. r \in Results /\ r.id = c /\ r.loaded = loaded /\ r.record = record
  BY DEF Results
<1>3. r.verified = uv
  BY Zenon
<1>4. AnsweredAsAsked(session[f], r)
  <2>1. f \in Busy
    BY DEF Busy
  <2>2. AskedIsRequired(session[f])
    BY <2>1 DEF IInv, TakenUnused
  <2> HIDE DEF r
  <2> QED BY <2>2, <1>3, Zenon DEF AskedIsRequired, UserVerified, AnsweredAsAsked
<1>5. /\ result' \in [Finishers -> Results] /\ result'[f] = r
      /\ \A g \in Finishers : g # f => result'[g] = result[g]
  BY <1>2 DEF IInv, Shape
<1> HIDE DEF r
<1>6. call[f] \in CallRecords
  BY DEF IInv, Shape
<1>7. /\ call' \in [Finishers -> CallRecords]
      /\ call'[f].kind = call[f].kind /\ call'[f].user = user
      /\ \A g \in Finishers : g # f => call'[g] = call[g]
  BY <1>6 DEF IInv, Shape, CallRecords
<1>8. /\ pc' \in [Finishers -> {"idle", "taken", "verified"}] /\ pc'[f] = "verified"
      /\ \A g \in Finishers : g # f => pc'[g] = pc[g]
  BY DEF IInv, Shape
<1>9. Busy' = Busy
  BY <1>8 DEF Busy
<1>10. /\ \A g \in LoggingIn' : g # f => g \in LoggingIn
       /\ \A g \in Registering' : g # f => g \in Registering
       /\ f \in LoggingIn' => call[f].kind # "registration"
       /\ f \in Registering' => call[f].kind = "registration"
       /\ LoggingIn' \subseteq Finishers /\ Registering' \subseteq Finishers
  BY <1>7, <1>8 DEF LoggingIn, Registering
<1>11. Shape'
  BY <1>1, <1>5, <1>7, <1>8 DEF IInv, Shape
<1>12. HeldUnused' /\ TakenUnused' /\ NotIssuedUnused'
  BY <1>1, <1>9 DEF IInv, HeldUnused, TakenUnused, NotIssuedUnused, AskedIsRequired
<1>13. OneSuccessPerSession' /\ RevokedStaysRevoked' /\ TicketsIssued' /\ NoSecondAttempt'
  BY <1>1 DEF IInv, OneSuccessPerSession, RevokedStaysRevoked, TicketsIssued, NoSecondAttempt,
       Sessions!Tickets
<1>14. VerifiedAsAsked'
  <2> SUFFICES ASSUME NEW g \in Finishers, pc'[g] = "verified"
               PROVE  AnsweredAsAsked(session'[g], result'[g])
    BY DEF VerifiedAsAsked, AnsweredAsAsked
  <2> QED BY <1>1, <1>4, <1>5, <1>8 DEF IInv, VerifiedAsAsked
<1>15. LoginOwner'
  <2> SUFFICES ASSUME NEW g \in LoggingIn'
               PROVE  \/ DeletedSince(result'[g])
                      \/ result'[g].id \in DOMAIN byID' /\ byID'[result'[g].id].owner = call'[g].user
    BY DEF LoginOwner, DeletedSince
  <2>1. CASE g = f
    BY <2>1, <1>1, <1>2, <1>5, <1>7, <1>10
  <2>2. CASE g # f
    <3>1. g \in LoggingIn /\ result'[g] = result[g] /\ call'[g] = call[g]
      BY <2>2, <1>5, <1>7, <1>10
    <3> QED BY <3>1, <1>1 DEF IInv, LoginOwner
  <2> QED BY <2>1, <2>2
<1>16. LoginResult'
  BY <1>2, <1>5, <1>10 DEF IInv, LoginResult
<1>17. RegistrationNew'
  BY <1>1, <1>2, <1>5, <1>10 DEF IInv, RegistrationNew
<1>18. CallsForUsers'
  BY <1>7, <1>9 DEF IInv, CallsForUsers, Busy
<1> QED BY <1>11, <1>12, <1>13, <1>14, <1>15, <1>16, <1>17, <1>18 DEF IInv

\* The three Finish calls as instances of it.
LEMMA VerifySteps ==
  ASSUME IInv, NEW f \in Finishers, NEW c \in Credentials, NEW counter \in 0..MaxCounter,
         NEW uv \in BOOLEAN,
         \/ VerifyRegistration(f, c, counter, uv)
         \/ VerifyLogin(f, c, counter, uv)
         \/ VerifyDiscoverable(f, c, counter, uv)
  PROVE  IInv'
<1>1. call[f] \in CallRecords /\ call[f].user \in Users
  <2>1. f \in Busy
    BY DEF Busy, VerifyRegistration, VerifyLogin, VerifyDiscoverable
  <2> QED BY <2>1 DEF IInv, Shape, CallsForUsers
<1>2. call = [call EXCEPT ![f].user = call[f].user]
  BY <1>1 DEF IInv, Shape, CallRecords
<1>3. ASSUME c \in DOMAIN byID
      PROVE  /\ byID[c] \in Record /\ byID[c] \in AnyRecord /\ byID[c].owner \in Users
             /\ UpdateCounter(byID[c], counter) \in AnyRecord
  <2>1. byID[c] \in Record
    BY <1>3 DEF IInv, Shape
  <2> QED BY <2>1, UpdateCounterFacts DEF AnyRecord, Record
<1>4. CASE VerifyRegistration(f, c, counter, uv)
  <2> DEFINE record == [owner |-> call[f].user, count |-> counter, warning |-> FALSE]
  <2>1. /\ pc[f] = "taken" /\ call[f].kind = "registration"
        /\ Verified(f, c, NoRecord, record, uv)
    BY <1>4 DEF VerifyRegistration
  <2>2. record \in Record /\ record \in AnyRecord
    BY <1>1 DEF Record, AnyRecord
  <2> HIDE DEF record
  <2>3. VerifiesAs(f, c, NoRecord, record, uv, call[f].user)
    BY <2>1, <2>2, <1>2 DEF Verified, VerifiesAs
  <2> QED BY <2>2, <2>3, <1>1, NothingType, VerifyStep
<1>5. CASE VerifyLogin(f, c, counter, uv)
  <2> DEFINE record == UpdateCounter(byID[c], counter)
  <2>1. /\ pc[f] = "taken" /\ call[f].kind = "login"
        /\ c \in DOMAIN byID /\ byID[c].owner = call[f].user
        /\ Verified(f, c, byID[c], record, uv)
    BY <1>5 DEF VerifyLogin, FindByUserHandle
  <2>2. VerifiesAs(f, c, byID[c], record, uv, call[f].user)
    BY <2>1, <1>2, <1>3 DEF Verified, VerifiesAs
  <2> QED BY <2>1, <2>2, <1>1, <1>3, VerifyStep
<1>6. CASE VerifyDiscoverable(f, c, counter, uv)
  <2>1. c \in DOMAIN byID /\ call[f].kind = "discoverable"
    BY <1>6 DEF VerifyDiscoverable
  <2>2. VerifiesAs(f, c, byID[c], UpdateCounter(byID[c], counter), uv, byID[c].owner)
    BY <2>1, <1>3, <1>6 DEF VerifyDiscoverable, VerifiesAs
  <2> QED BY <2>1, <2>2, <1>3, VerifyStep
<1> QED BY <1>4, <1>5, <1>6

-----------------------------------------------------------------------------
\* A Finish call ends: it alone goes idle.
LEMMA ReturnFacts ==
  ASSUME IInv, NEW f \in Finishers, Return(f)
  PROVE  /\ pc' \in [Finishers -> {"idle", "taken", "verified"}] /\ pc'[f] = "idle"
         /\ call' \in [Finishers -> CallRecords]
         /\ session' = [g \in Finishers |-> session'[g]]
         /\ result' \in [Finishers -> Results]
         /\ \A g \in Finishers : g # f => /\ pc'[g] = pc[g] /\ call'[g] = call[g]
                                          /\ session'[g] = session[g] /\ result'[g] = result[g]
<1>1. [kind |-> "login", user |-> NoUser] \in CallRecords
  BY DEF CallRecords, Kinds
<1>2. call' \in [Finishers -> CallRecords] /\ result' \in [Finishers -> Results]
  BY <1>1, NothingType DEF Return, IInv, Shape
<1> QED BY <1>2 DEF Return, IInv, Shape

\* The end of a Finish call, whether it failed, stored a new credential or
\* wrote one back: the success, if it is one, is the first on its session.
LEMMA EndStep ==
  ASSUME IInv, NEW f \in Finishers, pc[f] # "idle", Return(f),
         UNCHANGED <<config, sessionVars>>,
         successes' = successes \/ Succeeded(f),
         DOMAIN byID' \subseteq Credentials, byID' \in [DOMAIN byID' -> Record],
         DOMAIN byID \subseteq DOMAIN byID', (DOMAIN byID') \cap revoked' = {},
         \A c \in DOMAIN byID : byID'[c].owner = byID[c].owner
  PROVE  IInv'
<1>1. UNCHANGED <<config, clock, held, issued, redeemed>>
  BY DEF sessionVars
<1>2. /\ f \in Busy /\ f \notin Busy'
      /\ \A g \in Busy' : /\ g \in Busy /\ g # f
                          /\ session'[g] = session[g] /\ call'[g] = call[g] /\ result'[g] = result[g]
      /\ \A g \in LoggingIn' : g \in LoggingIn /\ call'[g] = call[g] /\ result'[g] = result[g]
      /\ \A g \in Registering' : g \in Registering /\ result'[g] = result[g]
  BY ReturnFacts DEF Busy, LoggingIn, Registering
<1> DEFINE s == session[f].id
<1>3. s \in 1..issued /\ successes[s] = 0 /\ issued \in 0..MaxBegins
  BY <1>2 DEF IInv, TakenUnused, Shape
<1>4. s \in 1..MaxBegins
  BY <1>3, ModelBounds
<1>5. /\ successes' \in [1..MaxBegins -> Nat]
      /\ successes'[s] \in {0, 1}
      /\ \A i \in 1..MaxBegins : i # s => successes'[i] = successes[i]
  <2>1. successes \in [1..MaxBegins -> Nat]
    BY DEF IInv, Shape
  <2>2. CASE successes' = successes
    BY <2>1, <2>2, <1>3
  <2>3. CASE Succeeded(f)
    <3>1. successes' = [successes EXCEPT ![s] = successes[s] + 1]
      BY <2>3 DEF Succeeded
    <3> HIDE DEF s
    <3> QED BY <3>1, <2>1, <1>3, <1>4
  <2> QED BY <2>2, <2>3
<1> HIDE DEF s
<1>6. Shape'
  BY <1>1, <1>5, ReturnFacts DEF IInv, Shape
<1>7. 1..issued \subseteq 1..MaxBegins
  BY <1>3, ModelBounds
<1>8. HeldUnused'
  <2>1. \A e \in held : e.id \in 1..MaxBegins /\ e.id # s
    BY <1>2, <1>7 DEF IInv, HeldUnused, TakenUnused, s
  <2> QED BY <2>1, <1>1, <1>5 DEF IInv, HeldUnused, AskedIsRequired
<1>9. TakenUnused'
  <2>1. \A g \in Busy' : session[g].id \in 1..MaxBegins /\ session[g].id # s
    BY <1>2, <1>7 DEF IInv, TakenUnused, s
  <2>2. \A g \in Busy' : successes'[session'[g].id] = 0
    BY <2>1, <1>2, <1>5 DEF IInv, TakenUnused
  <2>3. \A g \in Busy' : AskedIsRequired(session'[g])
    BY <1>2 DEF IInv, TakenUnused
  <2>4. \A g \in Busy' : /\ session'[g] \in Entries
                         /\ session'[g].id \in 1..issued'
                         /\ \A e \in held' : e.id # session'[g].id
                         /\ \A h \in Busy' : session'[h].id = session'[g].id => h = g
    BY <1>1, <1>2 DEF IInv, TakenUnused
  <2> QED BY <2>2, <2>3, <2>4 DEF TakenUnused, AskedIsRequired
<1>10. NotIssuedUnused'
  BY <1>1, <1>3, <1>5 DEF IInv, NotIssuedUnused
<1>11. OneSuccessPerSession'
  BY <1>4, <1>5 DEF IInv, OneSuccessPerSession
<1>12. VerifiedAsAsked'
  <2> SUFFICES ASSUME NEW g \in Finishers, pc'[g] = "verified"
               PROVE  AnsweredAsAsked(session'[g], result'[g])
    BY DEF VerifiedAsAsked, AnsweredAsAsked
  <2> QED BY ReturnFacts DEF IInv, VerifiedAsAsked
<1>13. CallsForUsers' /\ LoginResult' /\ RegistrationNew'
  BY <1>1, <1>2 DEF IInv, CallsForUsers, LoginResult, RegistrationNew
<1>14. LoginOwner'
  <2> SUFFICES ASSUME NEW g \in LoggingIn'
               PROVE  \/ DeletedSince(result'[g])
                      \/ result'[g].id \in DOMAIN byID' /\ byID'[result'[g].id].owner = call'[g].user
    BY DEF LoginOwner, DeletedSince
  <2>1. g \in LoggingIn /\ result'[g] = result[g] /\ call'[g] = call[g]
    BY <1>2
  <2>2. \/ DeletedSince(result[g])
        \/ result[g].id \in DOMAIN byID /\ byID[result[g].id].owner = call[g].user
    BY <2>1 DEF IInv, LoginOwner
  <2> QED BY <2>1, <2>2
<1>15. RevokedStaysRevoked'
  BY DEF RevokedStaysRevoked
<1>16. TicketsIssued' /\ NoSecondAttempt'
  BY <1>1 DEF IInv, TicketsIssued, NoSecondAttempt, Sessions!Tickets
<1> QED BY <1>6, <1>8, <1>9, <1>10, <1>11, <1>12, <1>13, <1>14, <1>15, <1>16 DEF IInv

LEMMA FailStep ==
  ASSUME IInv, NEW f \in Finishers, VerifyFails(f)
  PROVE  IInv'
<1>1. /\ pc[f] = "taken" /\ Return(f)
      /\ UNCHANGED <<config, sessionVars, byID, revoked, successes>>
  BY DEF VerifyFails
<1>2. (DOMAIN byID) \cap revoked = {} /\ DOMAIN byID \subseteq Credentials /\ byID \in [DOMAIN byID -> Record]
  BY DEF IInv, Shape, RevokedStaysRevoked
<1> QED BY <1>1, <1>2, EndStep

\* What byID[id] = record makes of the map.
LEMMA StoredFacts ==
  ASSUME IInv, NEW id \in Credentials, NEW record \in Record
  PROVE  /\ DOMAIN Stored(id, record) = (DOMAIN byID) \cup {id}
         /\ Stored(id, record) \in [DOMAIN Stored(id, record) -> Record]
         /\ Stored(id, record)[id] = record
         /\ \A c \in DOMAIN byID : c # id => Stored(id, record)[c] = byID[c]
BY DEF Stored, IInv, Shape

\* Save: a new credential, unless its id is taken.
LEMMA SaveFacts ==
  ASSUME IInv, NEW f \in Finishers, Save(f)
  PROVE  /\ IInv'
         /\ \A c \in DOMAIN byID : c \in DOMAIN byID' /\ byID'[c].owner = byID[c].owner
<1>1. /\ pc[f] = "verified" /\ f \in Registering /\ Return(f)
      /\ UNCHANGED <<config, sessionVars>>
  BY DEF Save, Registering
<1>2. (DOMAIN byID) \cap revoked = {} /\ DOMAIN byID \subseteq Credentials /\ byID \in [DOMAIN byID -> Record]
  BY DEF IInv, Shape, RevokedStaysRevoked
<1>3. result[f].id \in Credentials /\ result[f].record \in Record
  BY <1>1 DEF IInv, RegistrationNew
<1>4. CASE UNCHANGED <<byID, revoked, successes>>
  BY <1>1, <1>2, <1>4, EndStep
<1>5. CASE /\ ~SaveRefuses(f)
           /\ byID' = Stored(result[f].id, result[f].record)
           /\ revoked' = revoked \ {result[f].id}
           /\ Succeeded(f)
  <2>1. /\ DOMAIN byID' = (DOMAIN byID) \cup {result[f].id}
        /\ byID' \in [DOMAIN byID' -> Record]
        /\ \A c \in DOMAIN byID : byID'[c] = byID[c]
    <3> DEFINE id == result[f].id
               record == result[f].record
               map == Stored(id, record)
    <3>1. byID' = map /\ id \in Credentials /\ id \notin DOMAIN byID /\ record \in Record
      BY <1>3, <1>5 DEF SaveRefuses
    <3> HIDE DEF id, record
    <3>2. /\ DOMAIN map = (DOMAIN byID) \cup {id}
          /\ map \in [DOMAIN map -> Record]
          /\ \A c \in DOMAIN byID : c # id => map[c] = byID[c]
      BY <3>1, StoredFacts
    <3> HIDE DEF map
    <3> QED BY <3>1, <3>2 DEF id
  <2>2. (DOMAIN byID') \cap revoked' = {}
    BY <2>1, <1>2, <1>5
  <2> QED BY <2>1, <2>2, <1>1, <1>2, <1>3, <1>5, EndStep
<1> QED BY <1>4, <1>5 DEF Save

\* UpdateSignCount: the stored credential is replaced but for its owner.
LEMMA UpdateFacts ==
  ASSUME IInv, NEW f \in Finishers, UpdateSignCount(f)
  PROVE  /\ IInv'
         /\ \A c \in DOMAIN byID : c \in DOMAIN byID' /\ byID'[c].owner = byID[c].owner
<1>1. /\ pc[f] = "verified" /\ f \in LoggingIn /\ Return(f)
      /\ UNCHANGED <<config, sessionVars, revoked>>
  BY DEF UpdateSignCount, LoggingIn
<1>2. (DOMAIN byID) \cap revoked = {} /\ DOMAIN byID \subseteq Credentials /\ byID \in [DOMAIN byID -> Record]
  BY DEF IInv, Shape, RevokedStaysRevoked
<1>3. CASE UNCHANGED <<byID, successes>>
  BY <1>1, <1>2, <1>3, EndStep
<1>4. CASE /\ result[f].id \in DOMAIN byID
           /\ byID' = Stored(result[f].id, WriteBack(f))
           /\ Succeeded(f)
  <2>1. result[f].record \in Record
    BY <1>1, UpdateCounterFacts DEF IInv, LoginResult
  <2>2. WriteBack(f) \in Record /\ WriteBack(f).owner = byID[result[f].id].owner
    BY <2>1, <1>2, <1>4 DEF WriteBack, Record
  <2>3. /\ DOMAIN byID' = DOMAIN byID
        /\ byID' \in [DOMAIN byID' -> Record]
        /\ \A c \in DOMAIN byID : byID'[c].owner = byID[c].owner
    <3> DEFINE id == result[f].id
               record == WriteBack(f)
               map == Stored(id, record)
    <3>1. /\ byID' = map /\ id \in Credentials /\ id \in DOMAIN byID
          /\ record \in Record /\ record.owner = byID[id].owner
      BY <2>2, <1>2, <1>4
    <3> HIDE DEF id, record
    <3>2. /\ DOMAIN map = (DOMAIN byID) \cup {id}
          /\ map \in [DOMAIN map -> Record]
          /\ map[id] = record
          /\ \A c \in DOMAIN byID : c # id => map[c] = byID[c]
      BY <3>1, StoredFacts
    <3> HIDE DEF map
    <3> QED BY <3>1, <3>2
  <2> QED BY <2>3, <1>1, <1>2, <1>4, EndStep
<1> QED BY <1>3, <1>4 DEF UpdateSignCount

-----------------------------------------------------------------------------
\* The Begin calls as instances of Begin: what the application asked for is
\* what the session requires, since the last requirement applied holds.
LEMMA BeginSteps ==
  ASSUME IInv, NEW opts \in Options,
         \/ \E user \in Users : BeginRegistration(user, opts) \/ BeginLogin(user, opts)
         \/ BeginDiscoverableLogin(opts)
  PROVE  IInv' /\ UNCHANGED <<byID, successes>>
<1>1. opts \in Seq(Requirements) /\ config \in Configs
  BY OptionsType DEF IInv, Shape
<1>2. /\ config.UserVerification \in Requirements \cup {""}
      /\ config.AuthenticatorSelection \in Requirements \cup {""}
  BY <1>1, ConfigsType
<1>3. ASSUME NEW user \in Users, BeginRegistration(user, opts) PROVE IInv' /\ UNCHANGED <<byID, successes>>
  <2> DEFINE default == IF config.AuthenticatorSelection = "" THEN config.UserVerification
                        ELSE config.AuthenticatorSelection
             x == New(config).authSel
             reqs == <<x>> \o opts
             asked == Asked(opts, default)
  <2>1. x \in Requirements
    BY <1>1, NewFacts
  <2>2. default = "required" => x = "required"
    BY <1>2 DEF New
  <2>3. Begin(user, {}, reqs, asked)
    BY <1>3 DEF BeginRegistration
  <2> HIDE DEF x, default
  <2>4. Last(reqs) \in Requirements /\ Last(reqs) = IF opts = <<>> THEN x ELSE Last(opts)
    BY <1>1, <2>1, LastRequirement
  <2>5. asked \in BOOLEAN /\ (asked => Last(reqs) = "required")
    BY <2>2, <2>4 DEF Asked
  <2> HIDE DEF reqs, asked
  <2>6. IInv'
    BY <2>3, <2>4, <2>5, BeginStep
  <2> QED BY <2>3, <2>6 DEF Begin
<1>4. \A user : FindByUserHandle(user) \in SUBSET Credentials
  BY DEF FindByUserHandle, IInv, Shape
<1>5. ASSUME NEW user \in Users \cup {NoUser}, NEW allowed \in SUBSET Credentials,
             Begin(user, allowed, withDefaultUV(opts), Asked(opts, config.UserVerification))
      PROVE  IInv' /\ UNCHANGED <<byID, successes>>
  <2> DEFINE x == New(config).defaultLoginUV
             reqs == <<x>> \o opts
             asked == Asked(opts, config.UserVerification)
  <2>1. x \in Requirements
    BY <1>1, NewFacts
  <2>2. config.UserVerification = "required" => x = "required"
    BY <1>2 DEF New
  <2>3. Begin(user, allowed, reqs, asked)
    BY <1>5 DEF withDefaultUV
  <2> HIDE DEF x
  <2>4. Last(reqs) \in Requirements /\ Last(reqs) = IF opts = <<>> THEN x ELSE Last(opts)
    BY <1>1, <2>1, LastRequirement
  <2>5. asked \in BOOLEAN /\ (asked => Last(reqs) = "required")
    BY <2>2, <2>4 DEF Asked
  <2> HIDE DEF reqs, asked
  <2>6. IInv'
    BY <2>3, <2>4, <2>5, BeginStep
  <2> QED BY <2>3, <2>6 DEF Begin
<1>6. CASE \E user \in Users : BeginLogin(user, opts)
  BY <1>4, <1>5, <1>6 DEF BeginLogin
<1>7. CASE BeginDiscoverableLogin(opts)
  BY <1>5, <1>7 DEF BeginDiscoverableLogin
<1> QED BY <1>3, <1>6, <1>7

\* Every step keeps the invariant.
LEMMA NextIInv == IInv /\ [Next]_vars => IInv'
<1> SUFFICES ASSUME IInv, [Next]_vars PROVE IInv'
  OBVIOUS
<1>1. CASE \E opts \in Options :
             \/ \E user \in Users : BeginRegistration(user, opts) \/ BeginLogin(user, opts)
             \/ BeginDiscoverableLogin(opts)
  BY <1>1, BeginSteps
<1>2. CASE SessionLost
  BY <1>2, LostStep
<1>3. ASSUME NEW c \in Credentials, Revoke(c) PROVE IInv'
  BY <1>3, RevokeStep
<1>4. ASSUME NEW f \in Finishers, Finish(f) PROVE IInv'
  BY <1>4, TakeStep, FailStep, VerifySteps, SaveFacts, UpdateFacts DEF Finish
<1>5. CASE UNCHANGED vars
  <2>1. UNCHANGED <<config, clock, held, issued, redeemed, byID, revoked, pc, call, session, result, successes>>
    BY <1>5 DEF vars, sessionVars, finisherVars
  <2> QED BY <2>1 DEF IInv, Shape, HeldUnused, TakenUnused, CallsForUsers, NotIssuedUnused,
         OneSuccessPerSession, VerifiedAsAsked, AnsweredAsAsked, AskedIsRequired, LoginOwner,
         DeletedSince, TicketsIssued, NoSecondAttempt, Sessions!Tickets,
         LoginResult, RegistrationNew, RevokedStaysRevoked, Busy, LoggingIn, Registering
<1> QED BY <1>1, <1>2, <1>3, <1>4, <1>5 DEF Next

\* The inductive invariant holds always.
THEOREM PasskeyInvariant == Spec => []IInv
<1>1. Init => IInv
  BY InitIInv
<1>2. IInv /\ [Next]_vars => IInv'
  BY NextIInv
<1> QED BY <1>1, <1>2, PTL DEF Spec

\* However Finish calls race for a session, it ends in one success at most
\* (registration.go:65-67).
THEOREM PasskeyOneSuccessPerSession == Spec => []OneSuccessPerSession
<1>1. IInv => OneSuccessPerSession
  BY DEF IInv
<1> QED BY <1>1, PasskeyInvariant, PTL

\* However a Finish call ends, the session it took is not to be had again
\* (registration.go:65-67).
THEOREM PasskeyNoSecondAttempt == Spec => []NoSecondAttempt
<1>1. IInv => NoSecondAttempt
  BY DEF IInv
<1> QED BY <1>1, PasskeyInvariant, PTL

\* No login under way brings a deleted credential back: it takes a registration
\* (credential_store.go:157-170).
THEOREM PasskeyRevokedStaysRevoked == Spec => []RevokedStaysRevoked
<1>1. IInv => RevokedStaysRevoked
  BY DEF IInv
<1> QED BY <1>1, PasskeyInvariant, PTL

-----------------------------------------------------------------------------
\* A Finish call that has not been verified yet does not succeed, and does not
\* touch the credential store.
LEMMA OnlyWritesSucceed ==
  ASSUME IInv, [Next]_vars
  PROVE  \/ \E f \in Finishers : Save(f) \/ UpdateSignCount(f)
         \/ successes' = successes /\ ((\E c \in Credentials : Revoke(c)) \/ byID' = byID)
<1>1. CASE \E opts \in Options :
             \/ \E user \in Users : BeginRegistration(user, opts) \/ BeginLogin(user, opts)
             \/ BeginDiscoverableLogin(opts)
  BY <1>1, BeginSteps
<1>2. CASE SessionLost
  BY <1>2 DEF SessionLost
<1>3. CASE \E c \in Credentials : Revoke(c)
  BY <1>3 DEF Revoke
<1>4. ASSUME NEW f \in Finishers, Finish(f), ~Save(f), ~UpdateSignCount(f)
      PROVE  successes' = successes /\ byID' = byID
  BY <1>4 DEF Finish, Take, VerifyFails, VerifyRegistration, VerifyLogin, VerifyDiscoverable, Verified
<1>5. CASE UNCHANGED vars
  BY <1>5 DEF vars
<1> QED BY <1>1, <1>2, <1>3, <1>4, <1>5 DEF Next

\* A Finish call does not succeed without user verification if the Begin call
\* that parked its session, or else the Config, required it (passkey.go:169-177).
THEOREM PasskeyVerificationHonoured == Spec => VerificationHonoured
<1>1. ASSUME IInv, [Next]_vars, NEW f \in Finishers, successes' # successes, pc'[f] # pc[f]
      PROVE  session[f].value.asked => result[f].verified
  <2>1. PICK g \in Finishers : Save(g) \/ UpdateSignCount(g)
    BY <1>1, OnlyWritesSucceed
  <2>2. pc[g] = "verified" /\ Return(g)
    BY <2>1 DEF Save, UpdateSignCount
  <2>3. f = g
    BY <1>1, <2>2, ReturnFacts
  <2>4. AnsweredAsAsked(session[f], result[f])
    BY <1>1, <2>2, <2>3 DEF IInv, VerifiedAsAsked
  <2> QED BY <2>4, Zenon DEF AnsweredAsAsked
<1>2. IInv /\ [Next]_vars =>
        [\A f \in Finishers :
           successes' # successes /\ pc'[f] # pc[f] /\ session[f].value.asked => result[f].verified]_vars
  BY <1>1
<1> QED BY <1>2, PasskeyInvariant, PTL DEF Spec, VerificationHonoured

\* A login succeeds only for the account that owns the credential when the
\* result is written back (discoverable.go:38-46), unless the credential was
\* deleted since it was loaded.
THEOREM PasskeyLoginForOwner == Spec => LoginForOwner
<1>1. ASSUME IInv, NEW f \in Finishers, UpdateSignCount(f), successes' # successes,
             ~result[f].deleted
      PROVE  result[f].id \in DOMAIN byID /\ byID[result[f].id].owner = call[f].user
  <2>1. f \in LoggingIn
    BY <1>1 DEF UpdateSignCount, LoggingIn
  <2>2. ~DeletedSince(result[f])
    BY <1>1, Zenon DEF DeletedSince
  <2> QED BY <1>1, <2>1, <2>2 DEF IInv, LoginOwner
<1>2. IInv /\ [Next]_vars =>
        [\A f \in Finishers :
           UpdateSignCount(f) /\ successes' # successes /\ ~result[f].deleted =>
             result[f].id \in DOMAIN byID /\ byID[result[f].id].owner = call[f].user]_vars
  BY <1>1
<1> QED BY <1>2, PasskeyInvariant, PTL DEF Spec, LoginForOwner

\* A credential never moves to another account (credential_store.go:65-71).
THEOREM PasskeyOwnerNeverChanges == Spec => OwnerNeverChanges
<1>1. ASSUME IInv, [Next]_vars, NEW c \in (DOMAIN byID) \cap (DOMAIN byID')
      PROVE  byID'[c].owner = byID[c].owner
  <2>1. CASE \E f \in Finishers : Save(f) \/ UpdateSignCount(f)
    BY <1>1, <2>1, SaveFacts, UpdateFacts
  <2>2. CASE \E d \in Credentials : Revoke(d)
    BY <1>1, <2>2 DEF Revoke
  <2> QED BY <1>1, <2>1, <2>2, OnlyWritesSucceed
<1>2. IInv /\ [Next]_vars =>
        [\A c \in (DOMAIN byID) \cap (DOMAIN byID') : byID'[c].owner = byID[c].owner]_vars
  BY <1>1
<1> QED BY <1>2, PasskeyInvariant, PTL DEF Spec, OwnerNeverChanges

\* Clones are flagged by a login that finds on file what it was verified
\* against, whichever logins were before (authentication.go:28-32).
THEOREM PasskeyClonesFlaggedUnlessRaced == Spec => ClonesFlaggedUnlessRaced
<1>1. ASSUME IInv, NEW f \in Finishers,
             result[f].id \in DOMAIN byID, byID[result[f].id] = result[f].loaded
      PROVE  CounterAdvances(f)
  <2> DEFINE id == result[f].id
             loaded == result[f].loaded
             back == WriteBack(f)
  <2> SUFFICES ASSUME UpdateSignCount(f), successes' # successes, ~byID'[id].warning
               PROVE  \/ byID'[id].count > byID[id].count
                      \/ byID'[id].count = 0 /\ byID[id].count = 0
    BY DEF CounterAdvances
  <2>1. byID' = Stored(id, back) /\ f \in LoggingIn
    BY DEF UpdateSignCount, LoggingIn
  <2>2. byID'[id] = back
    BY <2>1 DEF Stored
  <2>3. PICK counter \in 0..MaxCounter : result[f].record = UpdateCounter(loaded, counter)
    BY <1>1, <2>1 DEF IInv, LoginResult
  <2>4. loaded \in Record
    BY <1>1, <2>1 DEF IInv, LoginResult
  <2> DEFINE stays == counter <= loaded.count /\ ~(counter = 0 /\ loaded.count = 0)
             owner == byID[id].owner
  <2>5. CASE stays
    <3>1. back = [[loaded EXCEPT !.warning = TRUE] EXCEPT !.owner = owner]
      BY <2>3, <2>5 DEF WriteBack, UpdateCounter
    <3>2. back.warning = TRUE
      BY <3>1, <2>4 DEF Record
    <3>3. ~back.warning
      BY <2>2, Zenon
    <3> HIDE DEF back
    <3>4. FALSE
      BY <3>2, <3>3, Zenon
    <3> QED BY <3>4
  <2>6. CASE ~stays
    <3>1. back = [[loaded EXCEPT !.count = counter] EXCEPT !.owner = owner]
      BY <2>3, <2>6 DEF WriteBack, UpdateCounter
    <3>2. back.count = counter /\ loaded.count \in Nat /\ counter \in Nat
      BY <3>1, <2>4, ModelBounds DEF Record
    <3> QED BY <1>1, <3>2, <2>2, <2>6
  <2> QED BY <2>5, <2>6
<1>2. IInv /\ [Next]_vars =>
        [\A f \in Finishers :
           result[f].id \in DOMAIN byID /\ byID[result[f].id] = result[f].loaded
             => CounterAdvances(f)]_vars
  BY <1>1
<1> QED BY <1>2, PasskeyInvariant, PTL DEF Spec, ClonesFlaggedUnlessRaced
=============================================================================
