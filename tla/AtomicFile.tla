----------------------------- MODULE AtomicFile -----------------------------
(***************************************************************************)
(* What WriteFileAtomic of pkg/api/snapshotfile.go promises the owner of a *)
(* destination path: the path holds one whole document at a time, a        *)
(* document replaces it in one step, and a power loss falls back to a      *)
(* document that was published and not yet superseded on stable storage.   *)
(***************************************************************************)
CONSTANTS
  Downloads,  \* the documents that may be stored, one per invocation
  Old,        \* the document an earlier invocation left
  NoFile      \* nothing is stored

VARIABLES
  value,      \* what the path holds
  stable,     \* what it may hold after a power loss
  open        \* invocations that may still publish

vars == <<value, stable, open>>

Init ==
  /\ value \in {Old, NoFile}
  /\ stable = {value}
  /\ open = Downloads

Publish(d) ==
  /\ d \in open
  /\ value'  = d
  /\ stable' = stable \cup {d}
  /\ open'   = open \ {d}

\* An invocation that failed or was killed leaves the path as it found it.
GiveUp(d) ==
  /\ d \in open
  /\ open' = open \ {d}
  /\ UNCHANGED <<value, stable>>

Flush ==
  /\ stable' = {value}
  /\ UNCHANGED <<value, open>>

PowerLoss ==
  /\ value' \in stable
  /\ stable' = {value'}
  /\ open' = {}

Next ==
  \/ \E d \in Downloads : Publish(d)
  \/ \E d \in Downloads : GiveUp(d)
  \/ Flush
  \/ PowerLoss

Spec == Init /\ [][Next]_vars

=============================================================================
