---------------------------- MODULE TokenVerifier ----------------------------
(***************************************************************************)
(* captcha.TokenVerifier (captcha/token.go): concurrent Verify calls that  *)
(* each post a token to a siteverify service.  A call waits twice, for the *)
(* response's header and for its body; the deadline of its context may     *)
(* fire in either wait, and the service may have spent the token already.  *)
(***************************************************************************)
EXTENDS Integers, FiniteSets

CONSTANTS
  Calls,        \* goroutines running Verify
  Tokens,       \* tokens; the empty string may be one of them
  Solved,       \* the tokens the service would accept, once each
  SolvedOn,     \* per token: the hostname the service reports, "" if it omits it
  HostFold,     \* what strings.EqualFold tells apart of a hostname
  allowedHosts, \* TokenVerifier.allowedHosts
  EndpointOK,   \* the endpoint is a URL that a request can be built for
  MaxVerifies   \* bound on the number of calls

ASSUME HostsType == SolvedOn \in [Tokens -> DOMAIN HostFold] /\ allowedHosts \subseteq DOMAIN HostFold
ASSUME TokensType == Solved \subseteq Tokens /\ EndpointOK \in BOOLEAN
ASSUME VerifierBounds == MaxVerifies \in Nat

VARIABLES
  verifies,   \* calls made so far
  spent,      \* the service: tokens it has accepted already
  pc,         \* per call: where in Verify it is
  token,      \* per call: its token
  reply,      \* per call: the response, once its header is here
  outcome,    \* per call: what its last Verify returned
  successes   \* history: per token, how often Verify reported success

verifierVars == <<verifies, spent, pc, token, reply, outcome, successes>>

Bodies == {"json", "malformed", "oversized"}
NoReply == [status |-> 0, body |-> "json", success |-> FALSE, hostname |-> ""]
Error(e) == [err |-> e, success |-> FALSE, hostname |-> "", mismatch |-> FALSE]
Errors == {"nil", "ErrRequest", "ErrNetwork", "ErrBadStatus", "ErrDecodeResponse"}

VerifierInit ==
  /\ verifies = 0
  /\ spent = {}
  /\ pc = [c \in Calls |-> "idle"]
  /\ token = [c \in Calls |-> ""]
  /\ reply = [c \in Calls |-> NoReply]
  /\ outcome = [c \in Calls |-> Error("nil")]
  /\ successes = [t \in Tokens |-> 0]

-----------------------------------------------------------------------------
\* Verify returns.
Return(c, result) ==
  /\ pc' = [pc EXCEPT ![c] = "idle"]
  /\ outcome' = [outcome EXCEPT ![c] = result]
  /\ reply' = [reply EXCEPT ![c] = NoReply]
  /\ successes' = IF result.success THEN [successes EXCEPT ![token[c]] = @ + 1] ELSE successes

\* An empty token, and an endpoint no request can be built for, end the call
\* before anything is sent.
VerifyAtOnce(c, t) ==
  /\ pc[c] = "idle" /\ verifies < MaxVerifies
  /\ t = "" \/ ~EndpointOK
  /\ verifies' = verifies + 1
  /\ token' = [token EXCEPT ![c] = t]
  /\ Return(c, Error(IF t = "" THEN "nil" ELSE "ErrRequest"))
  /\ UNCHANGED spent

VerifySend(c, t) ==
  /\ pc[c] = "idle" /\ verifies < MaxVerifies
  /\ t # "" /\ EndpointOK
  /\ verifies' = verifies + 1
  /\ token' = [token EXCEPT ![c] = t]
  /\ pc' = [pc EXCEPT ![c] = "sent"]
  /\ UNCHANGED <<spent, reply, outcome, successes>>

\* External: the service accepts a solved token once, and answers, well or
\* badly.
Accepts(t) == t \in Solved \ spent

Serve(c, status, body) ==
  /\ pc[c] = "sent"
  /\ spent' = IF Accepts(token[c]) THEN spent \cup {token[c]} ELSE spent
  /\ reply' = [reply EXCEPT ![c] = [status |-> status, body |-> body,
                                    success |-> Accepts(token[c]), hostname |-> SolvedOn[token[c]]]]
  /\ pc' = [pc EXCEPT ![c] = "header"]
  /\ UNCHANGED <<verifies, token, outcome, successes>>

\* httpClient.Do fails: no response came, whatever became of the request;
\* the context's deadline fired, if nothing else went wrong.
\* (A name with a suffix is, here and below, the code with a seeded fault.)
DoFails_Waits(c) == FALSE
DoFails(c) ==
  /\ pc[c] = "sent"
  /\ spent' \in {spent, spent \cup ({token[c]} \cap Solved)}
  /\ Return(c, Error("ErrNetwork"))
  /\ UNCHANGED <<verifies, token>>

\* A response came back that is not a 200.
BadStatus(c) ==
  /\ pc[c] = "header"
  /\ reply[c].status # 200
  /\ Return(c, Error("ErrBadStatus"))
  /\ UNCHANGED <<verifies, spent, token>>

\* Decode fails: the body is not JSON, it is cut off at the limit, or
\* reading it fails because the deadline fires first.
DecodeFails(c, byDeadline) ==
  /\ pc[c] = "header"
  /\ reply[c].status = 200
  /\ byDeadline \/ reply[c].body # "json"
  /\ Return(c, Error("ErrDecodeResponse"))
  /\ UNCHANGED <<verifies, spent, token>>

hostAllowed(host) == \E h \in allowedHosts : HostFold[h] = HostFold[host]

\* The verdict: the service's, then hostname pinning, which is skipped when
\* there is no list or no hostname was reported.
Pinned(r) == allowedHosts # {} /\ r.hostname # "" /\ ~hostAllowed(r.hostname)

Verdict_AnyReply(r) ==
  [err |-> "nil", success |-> ~Pinned(r), hostname |-> r.hostname, mismatch |-> Pinned(r)]
Verdict(r) ==
  [err |-> "nil", success |-> r.success /\ ~Pinned(r), hostname |-> r.hostname,
   mismatch |-> r.success /\ Pinned(r)]

Decoded(c) ==
  /\ pc[c] = "header"
  /\ reply[c].status = 200 /\ reply[c].body = "json"
  /\ Return(c, Verdict(reply[c]))
  /\ UNCHANGED <<verifies, spent, token>>

Call(c) ==
  \/ \E t \in Tokens : VerifyAtOnce(c, t) \/ VerifySend(c, t)
  \/ \E status \in {200, 500}, body \in Bodies : Serve(c, status, body)
  \/ DoFails(c)
  \/ \E byDeadline \in BOOLEAN : DecodeFails(c, byDeadline)
  \/ BadStatus(c)
  \/ Decoded(c)

VerifierNext == \E c \in Calls : Call(c)

VerifierSpec == VerifierInit /\ [][VerifierNext]_verifierVars

\* The context's deadline fires, and what is here is worked on.  Nothing
\* makes the service answer.
Fairness ==
  \A c \in Calls :
    /\ WF_verifierVars(DoFails(c)) /\ WF_verifierVars(DecodeFails(c, TRUE))
    /\ WF_verifierVars(BadStatus(c))

FairVerifierSpec == VerifierSpec /\ Fairness

-----------------------------------------------------------------------------
\* A token buys one success at most, however its calls overlap, are cut off
\* by their deadlines and are made again ("fail closed", token.go:310-315),
\* and only a token that the service took, on a host it may be used on; a call
\* that reports a hostname mismatch has cost the token too.
SpentForSuccess ==
  \A t \in Tokens :
    /\ successes[t] <= 1
    /\ successes[t] = 1 => t \in spent /\ (allowedHosts = {} \/ SolvedOn[t] = "" \/ hostAllowed(SolvedOn[t]))
    /\ \A c \in Calls : pc[c] = "idle" /\ token[c] = t /\ outcome[c].mismatch =>
                          t \in spent /\ successes[t] = 0

\* Every Verify ends, even if the service never answers (token.go:139-145).
VerifyEnds == \A c \in Calls : pc[c] # "idle" ~> pc[c] = "idle"
=============================================================================
