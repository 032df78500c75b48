--------------------------- MODULE MCFailManager ---------------------------
(* An instance of FailManager and IgnoreCheck: two hosts may use the same  *)
(* session id, and share a cache of one answer; ignoreip is empty.         *)
EXTENDS IgnoreCheck, TLC

CONSTANTS h1, h2, m1
HostsAlike == Permutations({h1, h2})
=============================================================================
