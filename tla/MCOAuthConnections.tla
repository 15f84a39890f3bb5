------------------------ MODULE MCOAuthConnections ------------------------
(* One tenant and two providers, so two connections: what can pass from one  *)
(* to the other, a callback or a configuration, does not depend on whether   *)
(* they differ in the tenant or in the provider, but callbacks carry only    *)
(* the provider.                                                             *)
EXTENDS OAuthConnections, TLC

CONSTANTS t1, apollo, surfe, s1, s2, r1

OneTenant == {t1}
Providers == {apollo, surfe}
States == {s1, s2}
Requests == {r1}

Interchangeable == Permutations(Providers) \cup Permutations(States)
=============================================================================
