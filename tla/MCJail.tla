------------------------------- MODULE MCJail -------------------------------
(* Instances of Jail.                                                      *)
EXTENDS Jail, TLC

CONSTANTS h1, h2, a1, a2
HostsAlike == Permutations({h1, h2})
=============================================================================
