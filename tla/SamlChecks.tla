----------------------------- MODULE SamlChecks -----------------------------
(***************************************************************************)
(* What the structural checks of saml.Provider.validate (saml/validate.go) *)
(* demand of a response, stated over a record of what the response is.     *)
(* SamlReplay starts from this; SamlValidate shows that the token scanners *)
(* of rawxml.go and identity_shape.go compute it.                          *)
(***************************************************************************)

\* The *bool options of Config: the empty set is nil, which means true.
requireDestination(cfg) == cfg.RequireDestination # {FALSE}
rejectWeakSignatures(cfg) == cfg.RejectWeakSignatures # {FALSE}

\* The Destination rule, with and without RequireDestination.
DestinationOK(cfg, r) ==
  IF requireDestination(cfg) THEN r.destination = "acs"
                             ELSE r.destination \in {"none", "acs"}

\* The structural checks, before any cryptography.
StructureOK(cfg, r) ==
  /\ ~r.tooLarge
  /\ r.rootIsResponse
  /\ r.assertionCount = 1
  /\ DestinationOK(cfg, r)
  /\ ~(rejectWeakSignatures(cfg) /\ r.weakAlgorithm)
  /\ cfg.AllowEncryptedAssertions \/ ~r.encrypted
  /\ r.identityShapeOK
=============================================================================
