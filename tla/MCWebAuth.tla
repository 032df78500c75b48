------------------------------ MODULE MCWebAuth ------------------------------
(* An instance of WebAuth: one administrator, two requests at a time, one  *)
(* session at a time, one address; a right password, another one and one   *)
(* that is too weak; one count of failures that fails.                     *)
EXTENDS WebAuth
=============================================================================
