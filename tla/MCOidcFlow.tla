----------------------------- MODULE MCOidcFlow -----------------------------
(* OidcFlow on two concurrent calls; documents that differ in one thing each. *)
EXTENDS OidcFlow

CONSTANTS k1, k2

MCCalls == {k1, k2}

Good ==
  [issuerMatches |-> TRUE, endpointsHTTPS |-> TRUE, codeFlow |-> TRUE, listsMethods |-> FALSE,
   methods |-> {}, algs |-> {"RS256", "HS256"}, endpoint |-> "A"]

MCDocuments ==
  {Good,
   [Good EXCEPT !.endpoint = "B"],
   [Good EXCEPT !.algs = {"RS256", "ES256"}],
   [Good EXCEPT !.algs = {"HS256"}],
   [Good EXCEPT !.listsMethods = TRUE, !.methods = {"none"}],
   [Good EXCEPT !.listsMethods = TRUE, !.methods = {"client_secret_post"}],
   [Good EXCEPT !.issuerMatches = FALSE],
   [Good EXCEPT !.endpointsHTTPS = FALSE],
   [Good EXCEPT !.codeFlow = FALSE]}

Fine ==
  [verifies |-> TRUE, alg |-> "RS256", subjectOK |-> TRUE, azp |-> "absent",
   audiences |-> 1, atHash |-> "right"]

MCTokens == {Fine, [Fine EXCEPT !.alg = "ES256"], [Fine EXCEPT !.alg = "HS256"], [Fine EXCEPT !.audiences = 2]}
=============================================================================
