------------------------------ MODULE MCConnIO ------------------------------
(* Instances of ConnIO with the handlers of TestTcp for TLC. *)
EXTENDS TestTcp, TLC
=============================================================================
