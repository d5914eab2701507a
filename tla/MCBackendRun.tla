---------------------------- MODULE MCBackendRun ----------------------------
(***************************************************************************)
(* BackendRun for TLC: a leader that forks one or two kids and exits with  *)
(* success, with a decided failure, or not at all.                         *)
(***************************************************************************)
EXTENDS BackendRun

=============================================================================
