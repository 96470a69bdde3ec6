--------------------------- MODULE MCCaptchaStore ---------------------------
(* CaptchaStore on two usable ids and the empty one; "k" and "K" differ only in case. *)
EXTENDS CaptchaStore

MCIds == {"", "a", "b"}
MCTexts == {"", "k", "K", "z"}
MCFold == [t \in MCTexts |-> IF t = "K" THEN "k" ELSE t]
=============================================================================
