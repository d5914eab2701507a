----------------------------- MODULE RunOutcome -----------------------------
(***************************************************************************)
(* What one spawn of the host lifecycle backend promises its caller: the   *)
(* abstract specification of runWithStdin (pkg/backend/backend.go).        *)
(*                                                                         *)
(* The backend either never starts, or its leader's wait status is decided *)
(* exactly once; whatever the tree does to the host, the caller gets one   *)
(* Result, and which Result is fixed by that status alone, except for one  *)
(* case: a leader that exited 0 after the deadline may be reported as a    *)
(* backend that could not be executed.                                     *)
(***************************************************************************)
EXTENDS Integers

CONSTANT Codes            \* exit statuses a backend process may choose

VARIABLES
  spawned,    \* the backend process was started
  expired,    \* the invocation's context is past its deadline
  status,     \* the leader's wait status
  touched,    \* some process of the tree changed host state
  result      \* what runWithStdin returned

vars == <<spawned, expired, status, touched, result>>

-----------------------------------------------------------------------------

\* exec.ExitError.ExitCode() is -1 for a process that never exited normally.
Killed   == -1
NoStatus == -2
Statuses == Codes \cup {Killed}

\* Result, or the CLIError of a process that never ran. NoResult: still running.
Kinds    == {"exit", "signal", "unavailable", "forbidden"}
Results  == [kind : Kinds, code : Statuses, timedOut : BOOLEAN]
NoResult == [kind |-> "none", code |-> 0, timedOut |-> FALSE]

(***************************************************************************)
(* The results a caller may see.                                           *)
(***************************************************************************)
ReportsExit(r)      == r.kind = "exit"   /\ r.code = status /\ status \in Codes
ReportsDeath(r)     == r.kind = "signal" /\ r.code = Killed /\ status = Killed
ReportsNoStart(r)   == r.kind \in {"unavailable", "forbidden"} /\ r.code = 0 /\ ~spawned
ReportsRacedExit(r) == r.kind = "unavailable" /\ r.code = 0 /\ status = 0 /\ expired

Admissible(r) ==
  /\ r.timedOut = expired
  /\ \/ ReportsExit(r)
     \/ ReportsDeath(r)
     \/ ReportsNoStart(r)
     \/ ReportsRacedExit(r)

-----------------------------------------------------------------------------

Init ==
  /\ spawned = FALSE
  /\ expired = FALSE
  /\ status  = NoStatus
  /\ touched = FALSE
  /\ result  = NoResult

\* os/exec refuses to start a process under an expired context.
Spawn ==
  /\ ~spawned /\ ~expired
  /\ result = NoResult
  /\ spawned' = TRUE
  /\ UNCHANGED <<expired, status, touched, result>>

Expire ==
  /\ ~expired
  /\ expired' = TRUE
  /\ UNCHANGED <<spawned, status, touched, result>>

Decide(s) ==
  /\ spawned
  /\ status = NoStatus
  /\ status' = s
  /\ UNCHANGED <<spawned, expired, touched, result>>

\* A straggler may still change the host after the leader ended and after the
\* result was returned.
Touch ==
  /\ spawned
  /\ touched' = TRUE
  /\ UNCHANGED <<spawned, expired, status, result>>

Return(r) ==
  /\ result = NoResult
  /\ Admissible(r)
  /\ result' = r
  /\ UNCHANGED <<spawned, expired, status, touched>>

Next ==
  \/ Spawn
  \/ Expire
  \/ \E s \in Statuses : Decide(s)
  \/ Touch
  \/ \E r \in Results : Return(r)

Spec == Init /\ [][Next]_vars

=============================================================================
