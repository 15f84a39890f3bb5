------------------------------ MODULE MCSignIn -------------------------------
(* Small instances of SignIn for TLC: an owner, an administrator, an agent.   *)
EXTENDS SignIn, TLC

CONSTANTS owner, admin, agent, c1, c2, s1, s2, s3

Users == {owner, admin, agent}
Owners == {owner, admin}
Challenges == {c1, c2}
Tokens == {s1, s2, s3}

Interchangeable ==
  Permutations(Owners) \cup Permutations(Challenges) \cup Permutations(Tokens)
=============================================================================
