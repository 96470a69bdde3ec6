------------------------------ MODULE OidcFlow ------------------------------
(***************************************************************************)
(* oidc.Provider (oidc/provider.go, oidc/http.go): the authorization-code  *)
(* flow, with concurrent Complete calls, while the application rebuilds    *)
(* its Provider from whatever the issuer's discovery document says then.   *)
(*                                                                         *)
(* The package keeps no state between Begin and Complete: the application  *)
(* parks what Begin returned and passes it to Complete, which consumes     *)
(* nothing.  Replay protection is the application's (provider.go:259-261), *)
(* so here Complete may run again, or twice at once, on one State; a State *)
(* that the application has dropped is one it does not use again.  A       *)
(* Complete call is three steps: its checks up to the token request; the   *)
(* issuer's answer, which may never come; and the checks of the ID token.  *)
(*                                                                         *)
(* The n-th Begin draws the random value n.  State.Value, Nonce and        *)
(* Verifier are three independent draws of it, all written flow.           *)
(***************************************************************************)
EXTENDS Integers, FiniteSets, Sequences

CONSTANTS
  Calls,        \* goroutines running Complete
  Documents,    \* discovery documents the issuer may serve
  Tokens,       \* ID tokens the issuer may mint, as far as the checks see them
  Requested,    \* Config.AuthMethod, "" for none
  HasSecret,    \* Config.ClientSecret # ""
  HonoursPKCE,  \* the issuer checks the code verifier
  MaxNews,      \* bound on the number of New calls
  MaxBegins,    \* bound on the number of Begin calls
  MaxCodes      \* bound on the number of codes issued

ASSUME ModelBounds == MaxNews \in Nat /\ MaxBegins \in Nat /\ MaxCodes \in Nat
ASSUME ConfigType == HasSecret \in BOOLEAN /\ HonoursPKCE \in BOOLEAN

VARIABLES
  provider,   \* the application's Provider: what New keeps of a document
  news,       \* how often New succeeded
  terms,      \* history: per flow, the Provider it began with
  parked,     \* the States Begin returned: [flow, configuration]
  codes,      \* codes issued: [flow, endpoint, used]
  pc,         \* per call: where in Complete it is
  call,       \* per call: the Provider, the State, the code and the token
  sent,       \* history: <<flow, endpoint>>, a verifier sent in a token request
  asserted    \* history: the Assertions returned

vars == <<provider, news, terms, parked, codes, pc, call, sent, asserted>>

-----------------------------------------------------------------------------
\* acceptedAlgorithms: no symmetric one, and not "none".
acceptedAlgorithms(algs) ==
  algs \cap {"RS256", "RS384", "RS512", "ES256", "ES384", "ES512",
             "PS256", "PS384", "PS512", "EdDSA"}

\* A document that does not list its methods supports the default one.
AuthMethods(d) == IF d.listsMethods THEN d.methods ELSE {"client_secret_basic"}

\* chooseAuthMethod: the method asked for or, when none is, one for the
\* client's kind; it must be supported and agree with there being a secret.
DefaultMethod(supported) ==
  IF ~HasSecret THEN "none"
  ELSE IF "client_secret_basic" \in supported THEN "client_secret_basic"
  ELSE "client_secret_post"

chooseAuthMethod(supported) == IF Requested = "" THEN DefaultMethod(supported) ELSE Requested

MethodOK(supported) ==
  /\ chooseAuthMethod(supported) \in supported
  /\ chooseAuthMethod(supported) \in
       IF HasSecret THEN {"client_secret_basic", "client_secret_post"} ELSE {"none"}

\* What New demands of the document.
Usable(d) ==
  /\ d.issuerMatches /\ d.endpointsHTTPS /\ d.codeFlow
  /\ acceptedAlgorithms(d.algs) # {}
  /\ MethodOK(AuthMethods(d))

\* The Provider that New builds.  (A name with a suffix is, here and below,
\* the code with a seeded fault.)
Build(d) ==
  [configured |-> TRUE, endpoint |-> d.endpoint,
   method |-> chooseAuthMethod(AuthMethods(d)), algs |-> acceptedAlgorithms(d.algs)]

Unconfigured == [configured |-> FALSE, endpoint |-> "", method |-> "", algs |-> {}]

\* Provider.configuration: a digest over length-prefixed fields, so two
\* Providers share it only if they agree on all of them.
configuration_NoAlgs(p) == <<p.endpoint, p.method>>
configuration(p) == <<p.endpoint, p.method, p.algs>>

NoState == [flow |-> 0, configuration |-> configuration(Unconfigured)]
NoCall == [provider |-> Unconfigured, state |-> NoState, code |-> 0, token |-> "none", nonce |-> 0]

Init ==
  /\ provider = Unconfigured
  /\ news = 0
  /\ terms = << >>
  /\ parked = {}
  /\ codes = << >>
  /\ pc = [c \in Calls |-> "idle"]
  /\ call = [c \in Calls |-> NoCall]
  /\ sent = {}
  /\ asserted = {}

\* New succeeds on the document served now, and the application goes over to
\* the new Provider.  When New fails the application stays where it was.
New(d) ==
  /\ news < MaxNews
  /\ Usable(d)
  /\ Build(d) # provider
  /\ news' = news + 1
  /\ provider' = Build(d)
  /\ UNCHANGED <<terms, parked, codes, pc, call, sent, asserted>>

\* Begin, and the application parks the State.
Begin ==
  /\ Len(terms) < MaxBegins
  /\ provider.configured
  /\ terms' = Append(terms, provider)
  /\ parked' = parked \cup {[flow |-> Len(terms) + 1, configuration |-> configuration(provider)]}
  /\ UNCHANGED <<provider, news, codes, pc, call, sent, asserted>>

\* External: the browser follows the authorization URL of a flow, perhaps
\* once more after it has been back already, and the issuer issues a code.
Authorize(flow) ==
  /\ Len(codes) < MaxCodes
  /\ codes' = Append(codes, [flow |-> flow, endpoint |-> terms[flow].endpoint, used |-> FALSE])
  /\ UNCHANGED <<provider, news, terms, parked, pc, call, sent, asserted>>

-----------------------------------------------------------------------------
\* The checks before the exchange: the callback belongs to the State, and the
\* State to a Provider of this configuration.
StateOK_AnyProvider(s, callbackState) == callbackState = s.flow
StateOK(s, callbackState) ==
  /\ callbackState = s.flow
  /\ s.configuration = configuration(provider)

\* A callback arrives with some flow's state and some code, and the
\* application calls Complete with a State that it holds.  Complete returns
\* ErrInvalidState and changes nothing, or posts the code and the State's
\* verifier to the token endpoint.
Call(c, s, callbackState, code) ==
  /\ pc[c] = "idle"
  /\ StateOK(s, callbackState)
  /\ sent' = sent \cup {<<s.flow, provider.endpoint>>}
  /\ pc' = [pc EXCEPT ![c] = "sent"]
  /\ call' = [call EXCEPT ![c] = [NoCall EXCEPT !.provider = provider, !.state = s, !.code = code]]
  /\ UNCHANGED <<provider, news, terms, parked, codes, asserted>>

\* External: the token endpoint takes a code of its own, once.
Redeemable(c) ==
  /\ codes[call[c].code].endpoint = call[c].provider.endpoint
  /\ ~codes[call[c].code].used
  /\ HonoursPKCE => codes[call[c].code].flow = call[c].state.flow

\* The answer arrives in time and in one piece, with an ID token in it.
Exchange(c, t) ==
  /\ pc[c] = "sent"
  /\ Redeemable(c)
  /\ codes' = [codes EXCEPT ![call[c].code].used = TRUE]
  /\ pc' = [pc EXCEPT ![c] = "answered"]
  /\ call' = [call EXCEPT ![c].token = t, ![c].nonce = codes[call[c].code].flow]
  /\ UNCHANGED <<provider, news, terms, parked, sent, asserted>>

\* ErrExchange, or no ID token in the answer: the issuer refuses or answers at
\* too great a length, or the deadline fires.  The code may be spent.
Failed(c) ==
  /\ pc' = [pc EXCEPT ![c] = "idle"]
  /\ call' = [call EXCEPT ![c] = NoCall]
  /\ UNCHANGED <<provider, news, terms, parked, sent, asserted>>

ExchangeFails_NoDeadline(c) ==
  /\ pc[c] = "sent"
  /\ ~Redeemable(c)
  /\ UNCHANGED codes
  /\ Failed(c)
ExchangeFails(c) ==
  /\ pc[c] = "sent"
  /\ \/ UNCHANGED codes
     \/ Redeemable(c) /\ codes' = [codes EXCEPT ![call[c].code].used = TRUE]
  /\ Failed(c)

\* boundedClient's CheckRedirect: where a request goes on to when it is answered
\* with a redirect.  A token request is a POST, whose body has the verifier.
Followed_Always(method, endpoint) == {endpoint}
Followed(method, endpoint) == IF method = "GET" THEN {endpoint} ELSE {}

\* The token endpoint answers with a redirect to another one, and the call ends
\* in ErrExchange: there is no token in that answer.
Redirected(c, endpoint) ==
  /\ pc[c] = "sent"
  /\ sent' = sent \cup {<<call[c].state.flow, e>> : e \in Followed("POST", endpoint)}
  /\ pc' = [pc EXCEPT ![c] = "idle"]
  /\ call' = [call EXCEPT ![c] = NoCall]
  /\ UNCHANGED <<provider, news, terms, parked, codes, asserted>>

\* The checks of the ID token: the verifier's (signature, algorithm, issuer,
\* audience, expiry), the nonce, the subject, azp and at_hash.
TokenOK_NoNonce(c) ==
  /\ call[c].token.verifies /\ call[c].token.alg \in call[c].provider.algs
  /\ call[c].token.subjectOK
  /\ call[c].token.azp = "client" \/ (call[c].token.azp = "absent" /\ call[c].token.audiences = 1)
  /\ call[c].token.atHash # "wrong"
TokenOK(c) ==
  /\ call[c].token.verifies /\ call[c].token.alg \in call[c].provider.algs
  /\ call[c].nonce = call[c].state.flow
  /\ call[c].token.subjectOK
  /\ call[c].token.azp = "client" \/ (call[c].token.azp = "absent" /\ call[c].token.audiences = 1)
  /\ call[c].token.atHash # "wrong"

\* Complete returns the Assertion.
Return(c) ==
  /\ pc[c] = "answered"
  /\ TokenOK(c)
  /\ asserted' = asserted \cup {[flow |-> call[c].state.flow, login |-> call[c].nonce,
                                 alg |-> call[c].token.alg, by |-> call[c].provider]}
  /\ pc' = [pc EXCEPT ![c] = "idle"]
  /\ call' = [call EXCEPT ![c] = NoCall]
  /\ UNCHANGED <<provider, news, terms, parked, codes, sent>>

\* ErrInvalidToken or ErrNonceMismatch; also when the keys cannot be had.
Reject(c) ==
  /\ pc[c] = "answered"
  /\ UNCHANGED codes
  /\ Failed(c)

Complete(c) ==
  \/ \E s \in parked, callbackState \in 1..Len(terms), code \in 1..Len(codes) :
       Call(c, s, callbackState, code)
  \/ \E t \in Tokens : Exchange(c, t)
  \/ ExchangeFails(c)
  \/ \E d \in Documents : Redirected(c, d.endpoint)
  \/ Return(c)
  \/ Reject(c)

Next ==
  \/ \E d \in Documents : New(d)
  \/ Begin
  \/ \E flow \in 1..Len(terms) : Authorize(flow)
  \/ \E c \in Calls : Complete(c)

Spec == Init /\ [][Next]_vars

\* The deadline of a call fires whatever the issuer does, and what needs no
\* answer goes on.  Nothing makes the issuer answer.
Fairness == \A c \in Calls : WF_vars(ExchangeFails(c)) /\ WF_vars(Return(c) \/ Reject(c))

FairSpec == Spec /\ Fairness

-----------------------------------------------------------------------------
\* An Assertion is about the login that the issuer ran for this very flow,
\* whichever code came with the callback, how often the State is used and
\* whether or not the issuer checks verifiers (provider.go:292-294).
BoundToFlow == \A a \in asserted : a.login = a.flow

\* A code verifier is never shown to a token endpoint other than the one the
\* flow began with, although the Provider may have been rebuilt in between
\* (provider.go:271) and the endpoint may redirect (http.go:62-66).
NoMixUp == \A m \in sent : m[2] = terms[m[1]].endpoint

\* An Assertion was verified under the very terms (endpoint, authentication
\* method, algorithms) that its flow began with (provider.go:210-220), and with
\* a public key, although documents list symmetric algorithms too.
SameTermsThroughout ==
  \A a \in asserted :
    /\ a.by = terms[a.flow]
    /\ a.alg \notin {"none", "HS256", "HS384", "HS512"}

\* Every Complete call ends, even if the issuer never answers
\* (provider.go:277-283).
CallsEnd == \A c \in Calls : pc[c] # "idle" ~> pc[c] = "idle"
=============================================================================
