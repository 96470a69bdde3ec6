------------------------------ MODULE MCPasskey ------------------------------
(* PasskeyService on two finishers, one or two users and one credential. *)
EXTENDS PasskeyService

CONSTANTS f1, f2, u1, u2, c1

MCFinishers == {f1, f2}
MCUsers == {u1, u2}
MCOneUser == {u1}
MCOneCredential == {c1}

\* Required of registrations only, or of everything, unless a call overrides it.
MCConfigs == {[UserVerification |-> "", AuthenticatorSelection |-> "required"],
              [UserVerification |-> "required", AuthenticatorSelection |-> ""]}
MCNoConfig == {[UserVerification |-> "", AuthenticatorSelection |-> ""]}
MCOptions == {<<>>, <<"discouraged", "required">>, <<"required", "preferred">>}
MCNoOptions == {<<>>}

MCSymmetry == Permutations(MCFinishers) \cup Permutations(MCUsers)
=============================================================================
