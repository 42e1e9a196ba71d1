---------------------------- MODULE MCAppConfig -----------------------------
(* Texts that differ from the first in the version, in platform and secret,  *)
(* or not in what they say, and one that does not parse.  The default        *)
(* differs from the first in the secret only.                                *)
EXTENDS AppConfig, TLC

MCTexts == {"old", "commented", "version", "platform", "broken"}

C(v, p, s) == [version |-> v, platform |-> p, secret |-> s]
MCDefault == C(2, "windows", "none")
MCParse ==
    [t \in MCTexts |->
        CASE t \in {"old", "commented"} -> C(2, "windows", "x")
          [] t = "version" -> C(3, "windows", "x")
          [] t = "platform" -> C(2, "linux", "y")
          [] t = "broken" -> None]

Symmetry == Permutations(Handlers)
=============================================================================
