--------------------------- MODULE MCSamlValidate ---------------------------
(***************************************************************************)
(* SamlValidate over documents of up to six elements, four deep: at each   *)
(* depth the elements that the scanners look for there, their foreign      *)
(* namesakes, and one that belongs to another depth.                       *)
(***************************************************************************)
EXTENDS SamlValidate

El(space, local) == [space |-> space, local |-> local, algorithm |-> "none", destination |-> "none"]
Method(local, algorithm) == [El("other", local) EXCEPT !.algorithm = algorithm]
Response(destination) == [El("other", "Response") EXCEPT !.destination = destination]

MCElementsAt == <<
  {Response("none"), Response(""), Response("acs"), Response("other"), El("saml", "Assertion")},
  {El("saml", "Assertion"), El("other", "Assertion"), El("saml", "EncryptedAssertion"),
   Method("SignatureMethod", "weak")},
  {El("saml", "Issuer"), El("other", "Issuer"), El("saml", "Subject"), El("other", "Subject")},
  {El("saml", "NameID"), El("other", "NameID"), El("saml", "Issuer"),
   Method("DigestMethod", "signature")} >>

\* Response, Assertion, Issuer, Subject, NameID.
MCSigned == { <<[el |-> Response("acs"), parent |-> 0], [el |-> El("saml", "Assertion"), parent |-> 1],
                [el |-> El("saml", "Issuer"), parent |-> 2], [el |-> El("saml", "Subject"), parent |-> 2],
                [el |-> El("saml", "NameID"), parent |-> 4]>> }

MCConfigs ==
  [RequireDestination : {{}, {FALSE}}, RejectWeakSignatures : {{TRUE}, {FALSE}},
   AllowEncryptedAssertions : BOOLEAN, StrictAttributes : BOOLEAN]

\* Sizes around every maximum: none set (the default, 3), 1, and the largest.
MCPayloads ==
  [binding : {"post", "xml", "redirect"}, readable : BOOLEAN, size : 0..5,
   MaxResponseBytes : {0, 2, 4}, MaxInflatedBytes : {0, 1, 4, 7}]

MCAttrs ==
  [name : {"", "a", "b"}, friendlyName : {"", "a", "b"}, values : {<<>>, <<"x">>, <<"y", "x">>}]
=============================================================================
