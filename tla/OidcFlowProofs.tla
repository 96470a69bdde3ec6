---------------------------- MODULE OidcFlowProofs ----------------------------
(***************************************************************************)
(* The authorization-code flow's invariants, for any set of concurrent     *)
(* calls, any discovery documents and ID tokens, any client configuration, *)
(* whether or not the issuer checks code verifiers, and any number of      *)
(* rebuilt Providers, flows and codes.                                     *)
(***************************************************************************)
EXTENDS OidcFlow, SequenceTheorems, TLAPS

\* The Providers that New can build, with and without the initial one.
Built == {Build(d) : d \in Documents}
Providers == Built \cup {Unconfigured}

Endpoints == {p.endpoint : p \in Providers}
States == [flow : Nat, configuration : {configuration(p) : p \in Providers}]
CodeRecords == [flow : Nat, endpoint : Endpoints, used : BOOLEAN]
CallRecords ==
  [provider : Providers, state : States, code : Nat, token : Tokens \cup {"none"}, nonce : Nat]
Assertions == [flow : Nat, login : Nat, alg : {t.alg : t \in Tokens}, by : Providers]

Flows == 1..Len(terms)
Active == {c \in Calls : pc[c] # "idle"}
FlowOf(c) == call[c].state.flow

\* The shape of the state.
Shape ==
  /\ provider \in Providers
  /\ terms \in Seq(Built)
  /\ parked \in SUBSET States
  /\ codes \in Seq(CodeRecords)
  /\ pc \in [Calls -> {"idle", "sent", "answered"}]
  /\ call \in [Calls -> CallRecords]
  /\ sent \in SUBSET (Flows \X Endpoints)
  /\ asserted \in SUBSET Assertions

\* Once a flow began the application has a Provider that New built.
ConfiguredOnce == Flows # {} => provider \in Built

\* A parked State belongs to a flow and names the configuration it began with.
ParkedTerms ==
  \A s \in parked : s.flow \in Flows /\ s.configuration = configuration(terms[s.flow])

\* A call under way runs with the very Provider its flow began with, holds a
\* code the issuer issued and, once answered, an ID token.
CallTerms ==
  \A c \in Active :
    /\ FlowOf(c) \in Flows
    /\ call[c].provider = terms[FlowOf(c)]
    /\ pc[c] = "sent" => call[c].code \in 1..Len(codes)
    /\ pc[c] = "answered" => call[c].token \in Tokens

AssertedFlows == \A a \in asserted : a.flow \in Flows

\* The inductive invariant.
IInv ==
  /\ Shape
  /\ ConfiguredOnce
  /\ ParkedTerms
  /\ CallTerms
  /\ AssertedFlows
  /\ BoundToFlow
  /\ NoMixUp
  /\ SameTermsThroughout

-----------------------------------------------------------------------------
\* acceptedAlgorithms lets no symmetric algorithm through, and the digest of
\* Provider.configuration tells any two Providers apart.
LEMMA BuiltFacts ==
  /\ \A p \in Built : \A a \in p.algs : a \notin {"none", "HS256", "HS384", "HS512"}
  /\ \A p, q \in Built : configuration(p) = configuration(q) => p = q
<1>1. ASSUME NEW d \in Documents, NEW a \in Build(d).algs
      PROVE  a \notin {"none", "HS256", "HS384", "HS512"}
  BY DEF Build, acceptedAlgorithms
<1>2. ASSUME NEW d \in Documents, NEW e \in Documents,
             configuration(Build(d)) = configuration(Build(e))
      PROVE  Build(d) = Build(e)
  BY <1>2 DEF configuration, Build
<1> QED BY <1>1, <1>2 DEF Built

\* What the invariant says of one call under way.
LEMMA CallFacts ==
  ASSUME IInv, NEW c \in Calls
  PROVE  /\ call[c] \in CallRecords
         /\ call[c].provider \in Providers /\ call[c].state \in States
         /\ call[c].code \in Nat /\ FlowOf(c) \in Nat
<1>1. call[c] \in CallRecords
  BY DEF IInv, Shape
<1>2. call[c].provider \in Providers /\ call[c].state \in States /\ call[c].code \in Nat
  BY <1>1 DEF CallRecords
<1>3. FlowOf(c) \in Nat
  BY <1>2 DEF FlowOf, States
<1> QED BY <1>1, <1>2, <1>3

\* An idle call's record.
LEMMA NoCallType == NoCall \in CallRecords
<1>1. Unconfigured \in Providers
  BY DEF Providers
<1>2. NoState \in States
  BY <1>1 DEF NoState, States
<1> QED BY <1>1, <1>2 DEF NoCall, CallRecords

\* The initial state satisfies the invariant.
LEMMA InitIInv == Init => IInv
<1> SUFFICES ASSUME Init PROVE IInv
  OBVIOUS
<1>1. Len(terms) = 0 /\ asserted = {} /\ 1..0 = {}
  BY DEF Init
<1>2. Flows = {} /\ Active = {}
  <2>1. \A c \in Calls : pc[c] = "idle"
    BY DEF Init
  <2> QED BY <2>1, <1>1 DEF Flows, Active
<1>3. Shape
  <2>1. call \in [Calls -> CallRecords]
    BY NoCallType DEF Init
  <2>2. terms \in Seq(Built) /\ codes \in Seq(CodeRecords) /\ asserted \in SUBSET Assertions
    BY EmptySeq DEF Init
  <2>3. /\ pc \in [Calls -> {"idle", "sent", "answered"}]
        /\ provider \in Providers
        /\ parked \in SUBSET States
        /\ sent \in SUBSET (Flows \X Endpoints)
    BY DEF Init, Providers
  <2> QED BY <2>1, <2>2, <2>3 DEF Shape
<1>4. ConfiguredOnce /\ ParkedTerms /\ CallTerms /\ AssertedFlows
  BY <1>1, <1>2 DEF Init, ConfiguredOnce, ParkedTerms, CallTerms, AssertedFlows
<1>5. BoundToFlow /\ NoMixUp /\ SameTermsThroughout
  BY <1>1 DEF Init, BoundToFlow, NoMixUp, SameTermsThroughout
<1> QED BY <1>3, <1>4, <1>5 DEF IInv

-----------------------------------------------------------------------------
\* New: the Provider changes, and nothing about flows that began before.
LEMMA NewStep ==
  ASSUME IInv, NEW d \in Documents, New(d)
  PROVE  IInv'
<1>1. provider' = Build(d) /\ UNCHANGED <<terms, parked, codes, pc, call, sent, asserted>>
  BY DEF New
<1>2. provider' \in Built /\ provider' \in Providers
  BY <1>1 DEF Built, Providers
<1>3. Shape' /\ ConfiguredOnce'
  BY <1>1, <1>2 DEF IInv, Shape, ConfiguredOnce, Flows
<1> QED BY <1>1, <1>3
     DEF IInv, ParkedTerms, CallTerms, AssertedFlows, Flows, Active,
         FlowOf, BoundToFlow, NoMixUp, SameTermsThroughout

\* Begin: a flow is added, in the parked place only.
LEMMA BeginStep ==
  ASSUME IInv, Begin
  PROVE  IInv'
<1> DEFINE n == Len(terms) + 1
           new == [flow |-> n, configuration |-> configuration(provider)]
<1>1. /\ provider.configured
      /\ terms' = Append(terms, provider)
      /\ parked' = parked \cup {new}
      /\ UNCHANGED <<provider, news, codes, pc, call, sent, asserted>>
  BY DEF Begin
<1>2. provider \in Built /\ provider \in Providers
  <2>1. ~Unconfigured.configured
    BY Zenon DEF Unconfigured
  <2>2. provider # Unconfigured
    BY <2>1, <1>1, Zenon
  <2> QED BY <2>2 DEF IInv, Shape, Providers
<1>3. terms \in Seq(Built) /\ Len(terms) \in Nat
  BY LenProperties DEF IInv, Shape
<1>4. /\ terms' \in Seq(Built) /\ Len(terms') = n
      /\ \A f \in Flows : terms'[f] = terms[f]
      /\ terms'[n] = provider
  BY <1>1, <1>2, <1>3, AppendProperties DEF Flows
<1>5. Flows' = Flows \cup {n} /\ n \notin Flows /\ n \in Nat
  BY <1>3, <1>4 DEF Flows
<1>6. new \in States /\ new.flow = n /\ new.configuration = configuration(provider)
  BY <1>2, <1>5 DEF States
<1> HIDE DEF n, new
<1>7. Active' = Active /\ \A c : FlowOf(c)' = FlowOf(c)
  BY <1>1 DEF Active, FlowOf
<1>8. Shape'
  <2>1. sent' \in SUBSET (Flows' \X Endpoints)
    BY <1>1, <1>5 DEF IInv, Shape
  <2> QED BY <2>1, <1>1, <1>4, <1>6 DEF IInv, Shape
<1>9. ConfiguredOnce'
  BY <1>1, <1>2 DEF ConfiguredOnce
<1>10. ParkedTerms'
  BY <1>1, <1>4, <1>5, <1>6 DEF IInv, ParkedTerms
<1>11. CallTerms'
  BY <1>1, <1>4, <1>5, <1>7 DEF IInv, CallTerms
<1>12. AssertedFlows'
  BY <1>1, <1>5 DEF IInv, AssertedFlows
<1>13. NoMixUp'
  <2>1. ASSUME NEW m \in sent PROVE m[2] = terms'[m[1]].endpoint
    <3>1. m[1] \in Flows
      BY DEF IInv, Shape
    <3> QED BY <3>1, <1>4 DEF IInv, NoMixUp
  <2> QED BY <2>1, <1>1 DEF NoMixUp
<1>14. SameTermsThroughout'
  BY <1>1, <1>4 DEF IInv, SameTermsThroughout, AssertedFlows
<1>15. BoundToFlow'
  BY <1>1 DEF IInv, BoundToFlow
<1> QED BY <1>8, <1>9, <1>10, <1>11, <1>12, <1>13, <1>14, <1>15 DEF IInv

\* The browser and the issuer: a code more.
LEMMA AuthorizeStep ==
  ASSUME IInv, NEW flow \in Flows, Authorize(flow)
  PROVE  IInv'
<1> DEFINE new == [flow |-> flow, endpoint |-> terms[flow].endpoint, used |-> FALSE]
<1>1. codes' = Append(codes, new) /\ UNCHANGED <<provider, terms, parked, pc, call, sent, asserted>>
  BY DEF Authorize
<1>2. new \in CodeRecords
  <2>1. terms \in Seq(Built) /\ Len(terms) \in Nat
    BY LenProperties DEF IInv, Shape
  <2>2. terms[flow] \in Built /\ flow \in Nat
    BY <2>1, ElementOfSeq DEF Flows
  <2> QED BY <2>2 DEF CodeRecords, Endpoints, Providers
<1> HIDE DEF new
<1>3. codes' \in Seq(CodeRecords) /\ Len(codes) \in Nat /\ Len(codes') = Len(codes) + 1
  BY <1>1, <1>2, AppendProperties, LenProperties DEF IInv, Shape
<1>4. Shape'
  BY <1>1, <1>3 DEF IInv, Shape, Flows
<1>5. CallTerms'
  BY <1>1, <1>3 DEF IInv, CallTerms, Active, FlowOf, Flows
<1> QED BY <1>1, <1>4, <1>5
     DEF IInv, ConfiguredOnce, ParkedTerms, AssertedFlows, Flows,
         Active, FlowOf, BoundToFlow, NoMixUp, SameTermsThroughout

-----------------------------------------------------------------------------
\* The start of Complete: the State names the configuration of the Provider,
\* so the call runs under the Provider that the flow began with.
LEMMA CallStep ==
  ASSUME IInv, NEW c \in Calls, NEW s \in parked, NEW callbackState \in Flows,
         NEW code \in 1..Len(codes), Call(c, s, callbackState, code)
  PROVE  IInv'
<1> DEFINE new == [NoCall EXCEPT !.provider = provider, !.state = s, !.code = code]
<1>1. /\ pc[c] = "idle" /\ StateOK(s, callbackState)
      /\ sent' = sent \cup {<<s.flow, provider.endpoint>>}
      /\ pc' = [pc EXCEPT ![c] = "sent"]
      /\ call' = [call EXCEPT ![c] = new]
      /\ UNCHANGED <<provider, terms, parked, codes, asserted>>
  BY DEF Call
<1>2. s \in States /\ s.flow \in Flows /\ s.configuration = configuration(terms[s.flow])
  BY DEF IInv, Shape, ParkedTerms
<1>3. provider \in Providers /\ provider \in Built /\ terms[s.flow] \in Built
  <2>1. terms \in Seq(Built) /\ Len(terms) \in Nat
    BY LenProperties DEF IInv, Shape
  <2>2. terms[s.flow] \in Built
    BY <2>1, <1>2, ElementOfSeq DEF Flows
  <2> QED BY <2>2, <1>2 DEF IInv, Shape, ConfiguredOnce
<1>4. provider = terms[s.flow]
  <2>1. s.configuration = configuration(provider)
    BY <1>1 DEF StateOK
  <2> QED BY <2>1, <1>2, <1>3, BuiltFacts
<1>5. /\ new \in CallRecords
      /\ new.provider = provider /\ new.state = s /\ new.code = code
  <2>1. code \in Nat
    OBVIOUS
  <2> QED BY <2>1, <1>2, <1>3, NoCallType DEF CallRecords
<1> HIDE DEF new
<1>6. pc \in [Calls -> {"idle", "sent", "answered"}] /\ call \in [Calls -> CallRecords]
  BY DEF IInv, Shape
<1>7. /\ pc'[c] = "sent" /\ call'[c] = new
      /\ \A d \in Calls : d # c => pc'[d] = pc[d] /\ call'[d] = call[d]
  BY <1>1, <1>6
<1>8. /\ Active' = Active \cup {c} /\ c \notin Active
      /\ FlowOf(c)' = s.flow
      /\ \A d \in Active : FlowOf(d)' = FlowOf(d) /\ d # c
  BY <1>1, <1>5, <1>7 DEF Active, FlowOf
<1>9. Flows' = Flows
  BY <1>1 DEF Flows
<1>10. Shape'
  <2>1. pc' \in [Calls -> {"idle", "sent", "answered"}] /\ call' \in [Calls -> CallRecords]
    BY <1>1, <1>5, <1>6
  <2>2. sent' \in SUBSET (Flows \X Endpoints)
    BY <1>1, <1>2, <1>3 DEF IInv, Shape, Endpoints
  <2> QED BY <2>1, <2>2, <1>1, <1>9 DEF IInv, Shape
<1>11. CallTerms'
  <2>1. ASSUME NEW d \in Active'
        PROVE  /\ FlowOf(d)' \in Flows
               /\ call'[d].provider = terms[FlowOf(d)']
               /\ pc'[d] = "sent" => call'[d].code \in 1..Len(codes)
               /\ pc'[d] = "answered" => call'[d].token \in Tokens
    <3>1. CASE d = c
      BY <3>1, <1>2, <1>4, <1>5, <1>7, <1>8
    <3>2. CASE d # c
      <4>1. d \in Active /\ d \in Calls
        BY <3>2, <1>8 DEF Active
      <4> QED BY <4>1, <3>2, <1>7, <1>8 DEF IInv, CallTerms
    <3> QED BY <3>1, <3>2
  <2> QED BY <2>1, <1>1, <1>9 DEF CallTerms
<1>12. NoMixUp'
  <2>1. <<s.flow, provider.endpoint>>[2] = terms[<<s.flow, provider.endpoint>>[1]].endpoint
    BY <1>4
  <2> QED BY <2>1, <1>1 DEF IInv, NoMixUp
<1>13. ConfiguredOnce' /\ ParkedTerms' /\ AssertedFlows'
  BY <1>1, <1>9 DEF IInv, ConfiguredOnce, ParkedTerms, AssertedFlows
<1>14. BoundToFlow' /\ SameTermsThroughout'
  BY <1>1 DEF IInv, BoundToFlow, SameTermsThroughout
<1> QED BY <1>10, <1>11, <1>12, <1>13, <1>14 DEF IInv

\* A call gives up, with or without its code spent.
LEMMA FailedStep ==
  ASSUME IInv, NEW c \in Calls, Failed(c),
         codes' \in Seq(CodeRecords), Len(codes') = Len(codes)
  PROVE  IInv'
<1>1. /\ pc' = [pc EXCEPT ![c] = "idle"]
      /\ call' = [call EXCEPT ![c] = NoCall]
      /\ UNCHANGED <<provider, terms, parked, sent, asserted>>
  BY DEF Failed
<1>2. pc \in [Calls -> {"idle", "sent", "answered"}] /\ call \in [Calls -> CallRecords]
  BY DEF IInv, Shape
<1>3. /\ pc'[c] = "idle"
      /\ \A d \in Calls : d # c => pc'[d] = pc[d] /\ call'[d] = call[d]
  BY <1>1, <1>2
<1>4. /\ Active' = Active \ {c}
      /\ \A d \in Active' : FlowOf(d)' = FlowOf(d) /\ pc'[d] = pc[d] /\ call'[d] = call[d]
  BY <1>3 DEF Active, FlowOf
<1>5. Flows' = Flows
  BY <1>1 DEF Flows
<1>6. Shape'
  <2>1. pc' \in [Calls -> {"idle", "sent", "answered"}] /\ call' \in [Calls -> CallRecords]
    BY <1>1, <1>2, NoCallType
  <2> QED BY <2>1, <1>1, <1>5 DEF IInv, Shape
<1>7. CallTerms'
  BY <1>1, <1>4, <1>5 DEF IInv, CallTerms
<1> QED BY <1>1, <1>5, <1>6, <1>7
     DEF IInv, ConfiguredOnce, ParkedTerms, AssertedFlows, BoundToFlow,
         NoMixUp, SameTermsThroughout

\* Spending a code keeps the codes in shape.
LEMMA SpendFacts ==
  ASSUME IInv, NEW k \in 1..Len(codes)
  PROVE  /\ [codes EXCEPT ![k].used = TRUE] \in Seq(CodeRecords)
         /\ Len([codes EXCEPT ![k].used = TRUE]) = Len(codes)
<1> DEFINE spent == [codes[k] EXCEPT !.used = TRUE]
<1>1. codes \in Seq(CodeRecords)
  BY DEF IInv, Shape
<1>2. codes[k] \in CodeRecords
  BY <1>1, ElementOfSeq
<1>3. spent \in CodeRecords
  BY <1>2 DEF CodeRecords
<1>4. [codes EXCEPT ![k].used = TRUE] = [codes EXCEPT ![k] = spent]
  OBVIOUS
<1> HIDE DEF spent
<1>5. /\ [codes EXCEPT ![k] = spent] \in Seq(CodeRecords)
      /\ Len([codes EXCEPT ![k] = spent]) = Len(codes)
  <2> DEFINE S == CodeRecords
             s == [codes EXCEPT ![k] = spent]
  <2>1. Len(codes) \in Nat /\ codes \in [1..Len(codes) -> S]
    BY <1>1, LenProperties
  <2>2. s \in [1..Len(codes) -> S]
    BY <2>1, <1>3
  <2> HIDE DEF S, s
  <2>3. s \in Seq(S)
    BY <2>1, <2>2, SeqDef
  <2>4. DOMAIN s = 1..Len(s) /\ Len(s) \in Nat /\ DOMAIN s = 1..Len(codes)
    BY <2>2, <2>3, LenProperties
  <2> QED BY <2>1, <2>3, <2>4 DEF S, s
<1> QED BY <1>4, <1>5

\* The issuer's answer: the call goes on with the flow and Provider it has.
LEMMA ExchangeStep ==
  ASSUME IInv, NEW c \in Calls, NEW t \in Tokens, Exchange(c, t)
  PROVE  IInv'
<1>1. /\ pc[c] = "sent"
      /\ codes' = [codes EXCEPT ![call[c].code].used = TRUE]
      /\ pc' = [pc EXCEPT ![c] = "answered"]
      /\ call' = [call EXCEPT ![c].token = t, ![c].nonce = codes[call[c].code].flow]
      /\ UNCHANGED <<provider, terms, parked, sent, asserted>>
  BY DEF Exchange
<1>2. pc \in [Calls -> {"idle", "sent", "answered"}] /\ call \in [Calls -> CallRecords]
  BY DEF IInv, Shape
<1>3. c \in Active /\ call[c].code \in 1..Len(codes)
  BY <1>1 DEF IInv, CallTerms, Active
<1>4. codes' \in Seq(CodeRecords) /\ Len(codes') = Len(codes)
  BY <1>1, <1>3, SpendFacts
<1>5. codes[call[c].code].flow \in Nat
  <2>1. codes[call[c].code] \in CodeRecords
    BY <1>3, ElementOfSeq DEF IInv, Shape
  <2> QED BY <2>1 DEF CodeRecords
<1>6. /\ call'[c] = [[call[c] EXCEPT !.token = t] EXCEPT !.nonce = codes[call[c].code].flow]
      /\ \A d \in Calls : d # c => pc'[d] = pc[d] /\ call'[d] = call[d]
      /\ pc'[c] = "answered"
  BY <1>1, <1>2
<1>7. call[c] \in CallRecords
  BY <1>2
<1>8. /\ call'[c] \in CallRecords
      /\ call'[c].provider = call[c].provider
      /\ call'[c].state = call[c].state
      /\ call'[c].token = t
  BY <1>5, <1>6, <1>7 DEF CallRecords
<1>9. Active' = Active /\ \A d \in Active : FlowOf(d)' = FlowOf(d)
  BY <1>1, <1>6, <1>8 DEF Active, FlowOf
<1>10. Flows' = Flows
  BY <1>1 DEF Flows
<1>11. Shape'
  <2>1. pc' \in [Calls -> {"idle", "sent", "answered"}]
    BY <1>1, <1>2
  <2>2. call' \in [Calls -> CallRecords]
    <3>1. \A d \in Calls : call'[d] \in CallRecords
      BY <1>2, <1>6, <1>8
    <3>2. DOMAIN call' = Calls /\ call' = [d \in Calls |-> call'[d]]
      BY <1>1, <1>2
    <3> QED BY <3>1, <3>2
  <2> QED BY <2>1, <2>2, <1>1, <1>4, <1>10 DEF IInv, Shape
<1>12. CallTerms'
  <2>1. ASSUME NEW d \in Active
        PROVE  /\ FlowOf(d)' \in Flows
               /\ call'[d].provider = terms[FlowOf(d)']
               /\ pc'[d] = "sent" => call'[d].code \in 1..Len(codes)
               /\ pc'[d] = "answered" => call'[d].token \in Tokens
    <3>1. CASE d = c
      BY <3>1, <1>6, <1>8, <1>9 DEF IInv, CallTerms
    <3>2. CASE d # c
      <4>1. d \in Calls
        BY DEF Active
      <4> QED BY <4>1, <3>2, <1>6, <1>9 DEF IInv, CallTerms
    <3> QED BY <3>1, <3>2
  <2> QED BY <2>1, <1>1, <1>4, <1>9, <1>10 DEF CallTerms
<1> QED BY <1>1, <1>10, <1>11, <1>12
     DEF IInv, ConfiguredOnce, ParkedTerms, AssertedFlows, BoundToFlow,
         NoMixUp, SameTermsThroughout

\* Complete succeeds: the ID token was minted for the call's flow and checked
\* under the terms of the flow.
LEMMA ReturnStep ==
  ASSUME IInv, NEW c \in Calls, Return(c)
  PROVE  IInv'
<1> DEFINE new == [flow |-> FlowOf(c), login |-> call[c].nonce,
                   alg |-> call[c].token.alg, by |-> call[c].provider]
<1>1. /\ pc[c] = "answered" /\ TokenOK(c)
      /\ asserted' = asserted \cup {new}
      /\ pc' = [pc EXCEPT ![c] = "idle"]
      /\ call' = [call EXCEPT ![c] = NoCall]
      /\ UNCHANGED <<provider, terms, parked, codes, sent>>
  BY DEF Return, FlowOf
<1>2. pc \in [Calls -> {"idle", "sent", "answered"}] /\ call \in [Calls -> CallRecords]
  BY DEF IInv, Shape
<1>3. /\ c \in Active /\ FlowOf(c) \in Flows /\ call[c].provider = terms[FlowOf(c)]
      /\ call[c].token \in Tokens
  BY <1>1 DEF IInv, CallTerms, Active
<1>4. call[c].provider \in Built /\ call[c].nonce = FlowOf(c) /\ FlowOf(c) \in Nat
  <2>1. terms \in Seq(Built) /\ Len(terms) \in Nat
    BY LenProperties DEF IInv, Shape
  <2>2. terms[FlowOf(c)] \in Built
    BY <2>1, <1>3, ElementOfSeq DEF Flows
  <2> QED BY <2>2, <1>1, <1>3, CallFacts DEF TokenOK, FlowOf
<1>5. call[c].token.alg \notin {"none", "HS256", "HS384", "HS512"}
  <2>1. call[c].token.alg \in call[c].provider.algs
    BY <1>1 DEF TokenOK
  <2> QED BY <2>1, <1>4, BuiltFacts
<1>6. /\ new \in Assertions /\ new.flow = FlowOf(c) /\ new.login = FlowOf(c)
      /\ new.by = terms[FlowOf(c)] /\ new.alg = call[c].token.alg
  BY <1>3, <1>4 DEF Assertions, Providers
<1> HIDE DEF new
<1>7. asserted' \in SUBSET Assertions
  BY <1>1, <1>6 DEF IInv, Shape
<1>8. \A a \in asserted' : a \in asserted \/ a = new
  BY <1>1
<1>9. /\ pc'[c] = "idle"
      /\ \A d \in Calls : d # c => pc'[d] = pc[d] /\ call'[d] = call[d]
  BY <1>1, <1>2
<1>10. /\ Active' = Active \ {c}
       /\ \A d \in Active' : FlowOf(d)' = FlowOf(d) /\ pc'[d] = pc[d] /\ call'[d] = call[d]
  BY <1>9 DEF Active, FlowOf
<1>11. Flows' = Flows
  BY <1>1 DEF Flows
<1>12. Shape'
  <2>1. pc' \in [Calls -> {"idle", "sent", "answered"}] /\ call' \in [Calls -> CallRecords]
    BY <1>1, <1>2, NoCallType
  <2> QED BY <2>1, <1>1, <1>7, <1>11 DEF IInv, Shape
<1>13. CallTerms'
  BY <1>1, <1>10, <1>11 DEF IInv, CallTerms
<1>14. AssertedFlows'
  BY <1>3, <1>6, <1>8, <1>11 DEF IInv, AssertedFlows
<1>15. BoundToFlow'
  BY <1>6, <1>8 DEF IInv, BoundToFlow
<1>16. SameTermsThroughout'
  BY <1>1, <1>5, <1>6, <1>8 DEF IInv, SameTermsThroughout
<1>17. ConfiguredOnce' /\ ParkedTerms' /\ NoMixUp'
  BY <1>1, <1>11 DEF IInv, ConfiguredOnce, ParkedTerms, NoMixUp
<1> QED BY <1>12, <1>13, <1>14, <1>15, <1>16, <1>17 DEF IInv

-----------------------------------------------------------------------------
\* Every step preserves the invariant.
LEMMA NextIInv == IInv /\ [Next]_vars => IInv'
<1> SUFFICES ASSUME IInv, [Next]_vars PROVE IInv'
  OBVIOUS
<1>1. ASSUME NEW d \in Documents, New(d) PROVE IInv'
  BY <1>1, NewStep
<1>2. CASE Begin
  BY <1>2, BeginStep
<1>3. ASSUME NEW flow \in 1..Len(terms), Authorize(flow) PROVE IInv'
  BY <1>3, AuthorizeStep DEF Flows
<1>4. ASSUME NEW c \in Calls, NEW d \in Documents, Redirected(c, d.endpoint) PROVE IInv'
  <2>1. Followed("POST", d.endpoint) = {}
    BY DEF Followed
  <2>2. sent' = sent /\ codes' = codes
    BY <1>4, <2>1 DEF Redirected
  <2>3. Failed(c)
    BY <1>4, <2>2 DEF Redirected, Failed
  <2>4. codes \in Seq(CodeRecords)
    BY DEF IInv, Shape
  <2> QED BY <2>2, <2>3, <2>4, FailedStep
<1>5. ASSUME NEW c \in Calls, NEW s \in parked, NEW callbackState \in 1..Len(terms),
             NEW code \in 1..Len(codes), Call(c, s, callbackState, code)
      PROVE  IInv'
  BY <1>5, CallStep DEF Flows
<1>6. ASSUME NEW c \in Calls, NEW t \in Tokens, Exchange(c, t) PROVE IInv'
  BY <1>6, ExchangeStep
<1>7. ASSUME NEW c \in Calls, ExchangeFails(c) PROVE IInv'
  <2>1. pc[c] = "sent" /\ Failed(c)
    BY <1>7 DEF ExchangeFails
  <2>2. call[c].code \in 1..Len(codes) /\ codes \in Seq(CodeRecords)
    BY <2>1 DEF IInv, CallTerms, Active, Shape
  <2>3. codes' = codes \/ codes' = [codes EXCEPT ![call[c].code].used = TRUE]
    BY <1>7 DEF ExchangeFails
  <2>4. codes' \in Seq(CodeRecords) /\ Len(codes') = Len(codes)
    BY <2>2, <2>3, SpendFacts
  <2> QED BY <2>1, <2>4, FailedStep
<1>8. ASSUME NEW c \in Calls, Return(c) PROVE IInv'
  BY <1>8, ReturnStep
<1>9. ASSUME NEW c \in Calls, Reject(c) PROVE IInv'
  <2>1. Failed(c) /\ codes' = codes
    BY <1>9 DEF Reject
  <2>2. codes \in Seq(CodeRecords)
    BY DEF IInv, Shape
  <2> QED BY <2>1, <2>2, FailedStep
<1>10. CASE UNCHANGED vars
  BY <1>10
     DEF vars, IInv, Shape, ConfiguredOnce, ParkedTerms, CallTerms, AssertedFlows,
         Flows, Active, FlowOf, BoundToFlow, NoMixUp, SameTermsThroughout
<1> QED BY <1>1, <1>2, <1>3, <1>4, <1>5, <1>6, <1>7, <1>8, <1>9, <1>10 DEF Next, Complete

\* The inductive invariant holds in every reachable state.
THEOREM OidcInvariant == Spec => []IInv
BY InitIInv, NextIInv, PTL DEF Spec

\* An Assertion is about the login the issuer ran for this very flow, whichever
\* code came with the callback (provider.go:292-294).
THEOREM OidcBoundToFlow == Spec => []BoundToFlow
<1>1. IInv => BoundToFlow
  BY DEF IInv
<1> QED BY <1>1, OidcInvariant, PTL

\* A code verifier goes to no token endpoint but the one its flow began with,
\* however often the Provider is rebuilt (provider.go:210-220) and wherever the
\* endpoint redirects to (http.go:62-66).
THEOREM OidcNoMixUp == Spec => []NoMixUp
<1>1. IInv => NoMixUp
  BY DEF IInv
<1> QED BY <1>1, OidcInvariant, PTL

\* An Assertion was verified under the terms its flow began with, and never with
\* a symmetric algorithm, whatever the documents list (provider.go:210-220).
THEOREM OidcSameTermsThroughout == Spec => []SameTermsThroughout
<1>1. IInv => SameTermsThroughout
  BY DEF IInv
<1> QED BY <1>1, OidcInvariant, PTL
=============================================================================
