----------------------------- MODULE MCDatabase -----------------------------
(* Instances of Database: two jails that ban the same hosts, for two       *)
(* seconds or for ever (u64::MAX seconds, -1 as an i64).                   *)
EXTENDS Database, TLC

CONSTANTS j1, j2, h1, h2
Permanent == -1
MCBanTime == {Permanent, 2}
Symmetry == Permutations(Jail) \cup Permutations(Host)
=============================================================================
