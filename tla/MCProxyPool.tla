---------------------------- MODULE MCProxyPool -----------------------------
(* Two names and two settings; the maps that requests bring include the empty *)
(* one, one without the name sys, and one that gives sys another setting.     *)
EXTENDS ProxyPool, TLC

CONSTANTS a, u

MCInputs == {<<>>, a :> u, SysName :> u}

HandlerSymmetry == Permutations(Handlers)
=============================================================================
