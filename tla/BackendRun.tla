----------------------------- MODULE BackendRun -----------------------------
(***************************************************************************)
(* One spawn of the host lifecycle backend: runWithStdin of                *)
(* pkg/backend/backend.go, the os/exec goroutines it configures            *)
(* (Setpgid, Cancel, WaitDelay) and the process tree it bounds.            *)
(*                                                                         *)
(* The backend is a process TREE: a leader that is its own process group,  *)
(* and Kids the leader (or another kid) forks.  A kid may leave the group  *)
(* (setsid), close the inherited pipes, outlive the leader, or be wedged   *)
(* in uninterruptible sleep when the group is killed.                      *)
(***************************************************************************)
EXTENDS Integers, FiniteSets

CONSTANTS
  Leader,     \* the backend process exec starts
  Kids,       \* the processes the tree may fork
  Codes       \* exit statuses the leader may choose

ASSUME TreeAssumption  == Leader \notin Kids
ASSUME CodesAssumption == Codes \subseteq Nat /\ 0 \in Codes

VARIABLES
  exe,        \* the executable on disk: "present", "absent" or "forbidden"
  ctx,        \* the caller's context: no deadline ("none"), "live", "expired"
  pc,         \* where cmd.Run stands
  err,        \* the error cmd.Run is about to return
  watch,      \* the watchCtx goroutine of os/exec
  alive,      \* running processes of the tree
  group,      \* members of the leader's process group
  holders,    \* processes that hold a write end of stdout/stderr
  doomed,     \* killed, but not dead yet
  closed,     \* os/exec closed its read ends of the pipes
  status,     \* the leader's wait status
  touched,    \* host state was changed by the tree
  result      \* what runWithStdin returned

treeVars == <<alive, group, holders, doomed, status, touched>>
runVars  == <<pc, err, closed, result>>
vars     == <<exe, ctx, watch, treeVars, runVars>>

-----------------------------------------------------------------------------

Procs    == Kids \cup {Leader}
Killed   == -1
NoStatus == -2
Statuses == Codes \cup {Killed}

Kinds    == {"exit", "signal", "unavailable", "forbidden"}
Results  == [kind : Kinds, code : Statuses, timedOut : BOOLEAN]
NoResult == [kind |-> "none", code |-> 0, timedOut |-> FALSE]

\* Every write end is closed: the copying goroutines see EOF.
PipesAtEOF == closed \/ holders \cap alive = {}

Init ==
  /\ exe \in {"present", "absent", "forbidden"}
  /\ ctx \in {"none", "live"}
  /\ pc = "start" /\ err = "nil" /\ watch = "off" /\ closed = FALSE
  /\ alive = {} /\ group = {} /\ holders = {} /\ doomed = {}
  /\ status = NoStatus /\ touched = FALSE /\ result = NoResult

-----------------------------------------------------------------------------
(***************************************************************************)
(* The process tree.  Nothing obliges it to do anything.                   *)
(***************************************************************************)

Running(p) == p \in alive /\ p \notin doomed

\* A fork inherits the parent's group and its pipe ends.
Fork(p, k) ==
  /\ Running(p)
  /\ k \notin alive /\ k \notin group /\ k \notin holders
  /\ alive'   = alive \cup {k}
  /\ group'   = IF p \in group THEN group \cup {k} ELSE group
  /\ holders' = IF p \in holders THEN holders \cup {k} ELSE holders
  /\ UNCHANGED <<exe, ctx, watch, doomed, status, touched, runVars>>

\* setsid(); a group leader cannot leave its own group.
LeaveGroup(k) ==
  /\ Running(k)
  /\ k \in group
  /\ group' = group \ {k}
  /\ UNCHANGED <<exe, ctx, watch, alive, holders, doomed, status, touched, runVars>>

ClosePipes(p) ==
  /\ Running(p)
  /\ p \in holders
  /\ holders' = holders \ {p}
  /\ UNCHANGED <<exe, ctx, watch, alive, group, doomed, status, touched, runVars>>

\* A write in progress completes even in a process that was just killed.
TouchHost(p) ==
  /\ p \in alive
  /\ touched' = TRUE
  /\ UNCHANGED <<exe, ctx, watch, alive, group, holders, doomed, status, runVars>>

KidExits(k) ==
  /\ Running(k)
  /\ alive' = alive \ {k}
  /\ UNCHANGED <<exe, ctx, watch, group, holders, doomed, status, touched, runVars>>

LeaderExits(c) ==
  /\ Running(Leader)
  /\ alive'  = alive \ {Leader}
  /\ status' = c
  /\ UNCHANGED <<exe, ctx, watch, group, holders, doomed, touched, runVars>>

\* Death by signal: the group kill taking effect, the OOM killer, an operator.
Dies(p) ==
  /\ p \in alive
  /\ alive'  = alive \ {p}
  /\ status' = IF p = Leader THEN Killed ELSE status
  /\ UNCHANGED <<exe, ctx, watch, group, holders, doomed, touched, runVars>>

-----------------------------------------------------------------------------
(***************************************************************************)
(* The caller's context and the watchCtx goroutine.                        *)
(***************************************************************************)

CtxExpires ==
  /\ ctx = "live"
  /\ pc # "done"
  /\ ctx' = "expired"
  /\ UNCHANGED <<exe, watch, treeVars, runVars>>

\* Mutant: the signal reaches the leader only, as without Setpgid.
KillLeaderOnly == doomed' = doomed \cup (alive \cap {Leader})

\* cmd.Cancel: SIGKILL to the whole group.  ESRCH is mapped to nil, and a kill
\* that finds only the leader's zombie succeeds, so os/exec records ctx.Err()
\* whether or not anything was left to kill.
KillGroup == doomed' = doomed \cup (alive \cap group)

WatchCancel ==
  /\ watch = "select"
  /\ ctx = "expired"
  /\ KillGroup
  /\ watch' = "cancelled"
  /\ UNCHANGED <<exe, ctx, alive, group, holders, status, touched, runVars>>

\* WaitDelay elapsed before the leader was reaped: kill the leader again and
\* close the pipes under any straggler.
WatchDelayFires ==
  /\ watch = "cancelled"
  /\ pc \in {"wait", "handoff"}
  /\ watch'  = "delayed"
  /\ doomed' = doomed \cup (alive \cap {Leader})
  /\ closed' = TRUE
  /\ UNCHANGED <<exe, ctx, alive, group, holders, status, touched, pc, err, result>>

-----------------------------------------------------------------------------
(***************************************************************************)
(* cmd.Run and the classification of its error.                            *)
(***************************************************************************)

\* Start refuses an expired context and reports what execve reports.
StartFails ==
  /\ pc = "start"
  /\ ctx = "expired" \/ exe # "present"
  /\ err' = IF ctx = "expired" THEN "ctx" ELSE exe
  /\ pc'  = "classify"
  /\ UNCHANGED <<exe, ctx, watch, treeVars, closed, result>>

\* Mutant: exec.Command for exec.CommandContext.
StartUnwatched ==
  /\ pc = "start"
  /\ ctx # "expired" /\ exe = "present"
  /\ pc'      = "wait"
  /\ alive'   = {Leader}
  /\ group'   = {Leader}
  /\ holders' = {Leader}
  /\ UNCHANGED <<exe, ctx, watch, doomed, status, touched, err, closed, result>>

\* Setpgid makes the leader a group; watchCtx runs only if ctx can be done.
Start ==
  /\ pc = "start"
  /\ ctx # "expired" /\ exe = "present"
  /\ pc'      = "wait"
  /\ alive'   = {Leader}
  /\ group'   = {Leader}
  /\ holders' = {Leader}
  /\ watch'   = IF ctx = "none" THEN "off" ELSE "select"
  /\ UNCHANGED <<exe, ctx, doomed, status, touched, err, closed, result>>

\* Process.Wait returns: a nonzero or signalled status is an ExitError.
Reap ==
  /\ pc = "wait"
  /\ status # NoStatus
  /\ err' = IF status = 0 THEN "nil" ELSE "exit"
  /\ pc'  = IF watch = "off" THEN "drain" ELSE "handoff"
  /\ UNCHANGED <<exe, ctx, watch, treeVars, closed, result>>

\* Wait prefers the process's own error, otherwise takes watchCtx's.
ReceiveWatch ==
  /\ pc = "handoff"
  /\ pc'    = "drain"
  /\ watch' = IF watch = "select" THEN "off" ELSE watch
  /\ err'   = IF err = "nil" /\ watch # "select" THEN "ctx" ELSE err
  /\ UNCHANGED <<exe, ctx, treeVars, closed, result>>

PipesDrained ==
  /\ pc = "drain"
  /\ PipesAtEOF
  /\ pc' = "classify"
  /\ UNCHANGED <<exe, ctx, watch, treeVars, err, closed, result>>

\* Mutant: ErrWaitDelay hides the leader's own error.
PipesAbandonedMasks ==
  /\ pc = "drain"
  /\ ~PipesAtEOF
  /\ pc'     = "classify"
  /\ closed' = TRUE
  /\ err'    = "waitdelay"
  /\ UNCHANGED <<exe, ctx, watch, treeVars, result>>

\* Mutant: the pipes are only abandoned under a deadline.
PipesAbandonedIfWatched ==
  /\ pc = "drain"
  /\ ~PipesAtEOF
  /\ ctx # "none"
  /\ pc'     = "classify"
  /\ closed' = TRUE
  /\ err'    = IF err = "nil" THEN "waitdelay" ELSE err
  /\ UNCHANGED <<exe, ctx, watch, treeVars, result>>

\* backendWaitDelay elapsed: the pipes are closed under a straggler.
PipesAbandoned ==
  /\ pc = "drain"
  /\ ~PipesAtEOF
  /\ pc'     = "classify"
  /\ closed' = TRUE
  /\ err'    = IF err = "nil" THEN "waitdelay" ELSE err
  /\ UNCHANGED <<exe, ctx, watch, treeVars, result>>

\* Mutant: no ErrWaitDelay branch.
OutcomeDelayFails(e) ==
  CASE e = "nil"       -> [kind |-> "exit", code |-> 0]
    [] e = "exit"      -> [kind |-> IF status = Killed THEN "signal" ELSE "exit",
                           code |-> status]
    [] e = "forbidden" -> [kind |-> "forbidden", code |-> 0]
    [] OTHER           -> [kind |-> "unavailable", code |-> 0]

\* Mutant: a process that never ran is given the status of its unset ProcessState.
OutcomeOfUnset(e) ==
  CASE e \in {"nil", "waitdelay"} -> [kind |-> "exit", code |-> 0]
    [] e = "exit"                 -> [kind |-> IF status = Killed THEN "signal" ELSE "exit",
                                      code |-> status]
    [] e = "forbidden"            -> [kind |-> "forbidden", code |-> status]
    [] OTHER                      -> [kind |-> "unavailable", code |-> status]

\* runWithStdin after cmd.Run: ErrWaitDelay is not a failure, an ExitError is
\* the backend's own status, anything else is a process that "never ran".
Outcome(e) ==
  CASE e \in {"nil", "waitdelay"} -> [kind |-> "exit", code |-> 0]
    [] e = "exit"                 -> [kind |-> IF status = Killed THEN "signal" ELSE "exit",
                                      code |-> status]
    [] e = "forbidden"            -> [kind |-> "forbidden", code |-> 0]
    [] OTHER                      -> [kind |-> "unavailable", code |-> 0]

Classify ==
  /\ pc = "classify"
  /\ result' = [kind     |-> Outcome(err).kind,
                code     |-> Outcome(err).code,
                timedOut |-> ctx = "expired"]
  /\ pc' = "done"
  /\ UNCHANGED <<exe, ctx, watch, treeVars, err, closed>>

-----------------------------------------------------------------------------

Tree ==
  \/ \E p \in Procs, k \in Kids : Fork(p, k)
  \/ \E k \in Kids : LeaveGroup(k)
  \/ \E p \in Procs : ClosePipes(p)
  \/ \E p \in Procs : TouchHost(p)
  \/ \E k \in Kids : KidExits(k)
  \/ \E c \in Codes : LeaderExits(c)
  \/ \E p \in Procs : Dies(p)

Run ==
  \/ StartFails
  \/ Start
  \/ Reap
  \/ ReceiveWatch
  \/ PipesDrained
  \/ PipesAbandoned
  \/ Classify

Next == Tree \/ CtxExpires \/ WatchCancel \/ WatchDelayFires \/ Run

Safety == Init /\ [][Next]_vars

\* The Go runtime schedules the goroutines and its timers fire; the kernel
\* completes the death of a killed leader.  The tree itself owes nothing.
Fairness ==
  /\ WF_vars(Run)
  /\ WF_vars(CtxExpires)
  /\ WF_vars(WatchCancel)
  /\ WF_vars(WatchDelayFires)
  /\ WF_vars(Leader \in doomed /\ Dies(Leader))

Spec == Safety /\ Fairness

-----------------------------------------------------------------------------

\* The variables' types: cmd.Run's progress, the tree, and a Result whose code is
\* a status some process ended with (runWithStdin).
TypeOK ==
  /\ exe \in {"present", "absent", "forbidden"}
  /\ ctx \in {"none", "live", "expired"}
  /\ pc \in {"start", "wait", "handoff", "drain", "classify", "done"}
  /\ err \in {"nil", "exit", "ctx", "waitdelay", "absent", "forbidden"}
  /\ watch \in {"off", "select", "cancelled", "delayed"}
  /\ alive \subseteq Procs /\ group \subseteq Procs
  /\ holders \subseteq Procs /\ doomed \subseteq Procs
  /\ closed \in BOOLEAN /\ touched \in BOOLEAN
  /\ status \in Statuses \cup {NoStatus}
  /\ result \in Results \cup {NoResult}

\* The Result carries the status the leader itself ended with: an exit status
\* is one the backend chose, Signaled means it was killed, and neither a
\* straggler on the pipes nor the deadline puts another status in its place
\* (runWithStdin: the ErrWaitDelay and ExitError branches).
ReportedStatusIsTheLeaders ==
  result.kind \in {"exit", "signal"} =>
    /\ result.code = status
    /\ result.kind = "signal" <=> status = Killed

\* Once Cancel ran, no process is left in the backend's group that could still
\* be given work: an orphan would keep changing the host after the caller was
\* told the operation was stopped (the comment on Setpgid, point 1).
NoSurvivorInGroup ==
  watch \in {"cancelled", "delayed"} => alive \cap group \subseteq doomed

\* What the run knows while it is under way: the leader's status is decided
\* once, the error agrees with it, and a run that failed to start has no tree.
NoTree == alive = {} /\ status = NoStatus

ErrAgrees ==
  /\ err \in {"nil", "waitdelay"} => status = 0
  /\ err = "exit" => status \notin {0, NoStatus}
  /\ err = "ctx" => ctx = "expired" /\ (status = 0 \/ NoTree)
  /\ err \in {"absent", "forbidden"} => NoTree

ResultAgrees ==
  /\ result.timedOut = (ctx = "expired")
  /\ \/ result.kind = "exit" /\ result.code = status /\ status \in Codes
     \/ result.kind = "signal" /\ result.code = Killed /\ status = Killed
     \/ result.kind = "forbidden" /\ result.code = 0 /\ NoTree
     \/ /\ result.kind = "unavailable" /\ result.code = 0
        /\ NoTree \/ (status = 0 /\ ctx = "expired")

Progress ==
  /\ Leader \in alive => status = NoStatus /\ pc = "wait"
  /\ pc = "start" => NoTree /\ watch = "off"
  /\ pc = "wait" \/ alive # {} => Leader \in alive \/ status # NoStatus
  /\ pc \in {"handoff", "drain"} => status # NoStatus
  /\ pc = "handoff" => err \in {"nil", "exit"} /\ watch # "off"
  /\ pc \in {"handoff", "drain", "classify"} => ErrAgrees
  /\ pc = "done" => ResultAgrees
  /\ pc # "done" => result = NoResult
  /\ watch \in {"cancelled", "delayed"} => ctx = "expired"

\* The inductive invariant behind the three above and the refinement.
RunInv == TypeOK /\ Progress /\ NoSurvivorInGroup

\* An invocation with a deadline returns, whatever the tree does.
TimeoutBoundsRun == (ctx # "none") ~> (pc = "done")

\* Once the leader ended the run returns, deadline or not: a daemonized child
\* that keeps the pipes open cannot hang the CLI (WaitDelay, point 2).
StragglerCannotHang == (status # NoStatus) ~> (pc = "done")

\* exit-codes.md, rule 5: 5 is reported only when it is confirmed that no state
\* changed.  runWithStdin's last branch says of it "The process never ran".
UnavailableMeansUntouched == result.kind = "unavailable" => ~touched

\* The whole of runWithStdin seen by its caller: one spawn of RunOutcome.
Abstract == INSTANCE RunOutcome WITH
  spawned <- Leader \in alive \/ status # NoStatus,
  expired <- ctx = "expired"

Implements == Abstract!Spec

=============================================================================
