-------------------------- MODULE BackendRunProof --------------------------
(***************************************************************************)
(* Proofs about one backend spawn, for every process tree and every set of *)
(* exit statuses: the inductive invariant RunInv, the safety properties it *)
(* gives, and that BackendRun implements RunOutcome.                       *)
(***************************************************************************)
EXTENDS BackendRun, TLAPS

\* The initial states satisfy the inductive invariant.
LEMMA InitRunInv == Init => RunInv
  BY CodesAssumption DEF Init, RunInv, TypeOK, Progress, NoSurvivorInGroup, NoTree,
     Procs, Statuses

\* Every step of the tree, of os/exec's goroutines and of cmd.Run keeps RunInv.
LEMMA NextRunInv == RunInv /\ [Next]_vars => RunInv'
<1> SUFFICES ASSUME RunInv, [Next]_vars PROVE RunInv'
  OBVIOUS
<1> USE TreeAssumption, CodesAssumption
    DEF RunInv, TypeOK, Progress, NoSurvivorInGroup, NoTree, ErrAgrees, ResultAgrees,
        Procs, Statuses, Killed, NoStatus, Running
<1>1. CASE UNCHANGED vars
  BY <1>1 DEF vars, treeVars, runVars
<1>2. ASSUME NEW p \in Procs, NEW k \in Kids, Fork(p, k) PROVE RunInv'
  BY <1>2 DEF Fork, runVars
<1>3. ASSUME NEW k \in Kids, LeaveGroup(k) PROVE RunInv'
  BY <1>3 DEF LeaveGroup, runVars
<1>4. ASSUME NEW p \in Procs, ClosePipes(p) PROVE RunInv'
  BY <1>4 DEF ClosePipes, runVars
<1>5. ASSUME NEW p \in Procs, TouchHost(p) PROVE RunInv'
  BY <1>5 DEF TouchHost, runVars
<1>6. ASSUME NEW k \in Kids, KidExits(k) PROVE RunInv'
  BY <1>6 DEF KidExits, runVars
<1>7. ASSUME NEW c \in Codes, LeaderExits(c) PROVE RunInv'
  BY <1>7 DEF LeaderExits, runVars
<1>8. ASSUME NEW p \in Procs, Dies(p) PROVE RunInv'
  BY <1>8 DEF Dies, runVars
<1>9. CASE CtxExpires
  BY <1>9 DEF CtxExpires, treeVars, runVars
<1>10. CASE WatchCancel
  BY <1>10 DEF WatchCancel, KillGroup, runVars
<1>11. CASE WatchDelayFires
  BY <1>11 DEF WatchDelayFires
<1>12. CASE StartFails
  BY <1>12 DEF StartFails, treeVars
<1>13. CASE Start
  BY <1>13 DEF Start
<1>14. CASE Reap
  BY <1>14 DEF Reap, treeVars
<1>15. CASE ReceiveWatch
  BY <1>15 DEF ReceiveWatch, treeVars
<1>16. CASE PipesDrained
  BY <1>16 DEF PipesDrained, treeVars
<1>17. CASE PipesAbandoned
  BY <1>17 DEF PipesAbandoned, treeVars
<1>18. CASE Classify
  <2>1. /\ pc = "classify" /\ pc' = "done" /\ ErrAgrees
        /\ UNCHANGED <<exe, ctx, watch, alive, group, holders, doomed, status, touched,
                       err, closed>>
    BY <1>18 DEF Classify, treeVars
  <2>2. /\ Outcome(err).kind \in Kinds /\ Outcome(err).code \in Statuses
        /\ \/ Outcome(err).kind = "exit" /\ Outcome(err).code = status /\ status \in Codes
           \/ Outcome(err).kind = "signal" /\ Outcome(err).code = Killed /\ status = Killed
           \/ Outcome(err).kind = "forbidden" /\ Outcome(err).code = 0 /\ NoTree
           \/ /\ Outcome(err).kind = "unavailable" /\ Outcome(err).code = 0
              /\ NoTree \/ (status = 0 /\ ctx = "expired")
    BY <2>1 DEF Outcome, Kinds
  <2>3. result' = [kind |-> Outcome(err).kind, code |-> Outcome(err).code,
                   timedOut |-> ctx = "expired"]
    BY <1>18 DEF Classify
  <2>4. result' \in Results /\ ResultAgrees'
    BY <2>1, <2>2, <2>3 DEF Results
  <2>5. QED
    BY <2>1, <2>4
<1>19. QED
  BY <1>1, <1>2, <1>3, <1>4, <1>5, <1>6, <1>7, <1>8, <1>9, <1>10, <1>11, <1>12,
     <1>13, <1>14, <1>15, <1>16, <1>17, <1>18 DEF Next, Tree, Run

\* Every reachable state of a spawn satisfies the inductive invariant.
THEOREM RunInvariant == Spec => []RunInv
  BY InitRunInv, NextRunInv, PTL DEF Spec, Safety

\* The types hold throughout a spawn, the exit status included (runWithStdin).
THEOREM RunTypeCorrect == Spec => []TypeOK
<1>1. RunInv => TypeOK  BY DEF RunInv
<1> QED  BY <1>1, RunInvariant, PTL

\* An exit status the CLI reports is the one the leader ended with.
THEOREM StatusIsTheLeaders == Spec => []ReportedStatusIsTheLeaders
<1>1. RunInv => ReportedStatusIsTheLeaders
  BY CodesAssumption
     DEF RunInv, TypeOK, Progress, ResultAgrees, ReportedStatusIsTheLeaders, NoResult,
         Results, Killed, Statuses
<1>2. QED
  BY <1>1, RunInvariant, PTL

\* After Cancel the backend's process group holds no process that is not dying.
THEOREM GroupIsGone == Spec => []NoSurvivorInGroup
  BY RunInvariant, PTL DEF RunInv

-----------------------------------------------------------------------------
(***************************************************************************)
(* BackendRun implements RunOutcome.                                       *)
(***************************************************************************)

\* The tree's steps change the host, decide the leader's status, or are
\* invisible to the caller.
LEMMA TreeStepRefines == RunInv /\ Tree => [Abstract!Next]_(Abstract!vars)
<1> SUFFICES ASSUME RunInv, Tree PROVE [Abstract!Next]_(Abstract!vars)
  OBVIOUS
<1> USE TreeAssumption, CodesAssumption
    DEF RunInv, TypeOK, Progress, Abstract!vars, Abstract!Next, Procs, runVars, Running,
        NoStatus, Statuses
<1>1. ASSUME NEW p \in Procs, NEW k \in Kids, Fork(p, k) PROVE UNCHANGED Abstract!vars
  BY <1>1 DEF Fork
<1>2. ASSUME NEW k \in Kids, LeaveGroup(k) PROVE UNCHANGED Abstract!vars
  BY <1>2 DEF LeaveGroup
<1>3. ASSUME NEW p \in Procs, ClosePipes(p) PROVE UNCHANGED Abstract!vars
  BY <1>3 DEF ClosePipes
<1>4. ASSUME NEW p \in Procs, TouchHost(p) PROVE [Abstract!Next]_(Abstract!vars)
  BY <1>4 DEF TouchHost, Abstract!Touch
<1>5. ASSUME NEW k \in Kids, KidExits(k) PROVE UNCHANGED Abstract!vars
  BY <1>5 DEF KidExits
<1>6. ASSUME NEW c \in Codes, LeaderExits(c) PROVE [Abstract!Next]_(Abstract!vars)
  BY <1>6 DEF LeaderExits, Abstract!Decide, Abstract!Statuses, Abstract!NoStatus
<1>7. ASSUME NEW p \in Procs, Dies(p) PROVE [Abstract!Next]_(Abstract!vars)
  BY <1>7 DEF Dies, Abstract!Decide, Abstract!Statuses, Abstract!NoStatus, Killed,
     Abstract!Killed
<1>8. QED
  BY <1>1, <1>2, <1>3, <1>4, <1>5, <1>6, <1>7 DEF Tree

\* The steps of cmd.Run, of watchCtx and of the clock start the tree, pass the
\* deadline, return an admissible result, or are invisible to the caller.
LEMMA RunStepRefines ==
  RunInv /\ (Run \/ CtxExpires \/ WatchCancel \/ WatchDelayFires)
    => [Abstract!Next]_(Abstract!vars)
<1> SUFFICES ASSUME RunInv, Run \/ CtxExpires \/ WatchCancel \/ WatchDelayFires
             PROVE  [Abstract!Next]_(Abstract!vars)
  OBVIOUS
<1> USE TreeAssumption, CodesAssumption
    DEF RunInv, TypeOK, Progress, NoTree, Abstract!vars, Abstract!Next, treeVars, runVars,
        Procs, NoStatus
<1>1. CASE CtxExpires
  BY <1>1 DEF CtxExpires, Abstract!Expire
<1>2. CASE WatchCancel
  BY <1>2 DEF WatchCancel
<1>3. CASE WatchDelayFires
  BY <1>3 DEF WatchDelayFires
<1>4. CASE StartFails
  BY <1>4 DEF StartFails
<1>5. CASE Start
  BY <1>5 DEF Start, Abstract!Spawn, NoResult, Abstract!NoResult
<1>6. CASE Reap
  BY <1>6 DEF Reap
<1>7. CASE ReceiveWatch
  BY <1>7 DEF ReceiveWatch
<1>8. CASE PipesDrained
  BY <1>8 DEF PipesDrained
<1>9. CASE PipesAbandoned
  BY <1>9 DEF PipesAbandoned
<1>10. CASE Classify
  <2>1. RunInv'
    BY NextRunInv, <1>10 DEF Next, Run
  <2>2. /\ pc # "done" /\ pc' = "done"
        /\ UNCHANGED <<ctx, alive, status, touched>>
    BY <1>10 DEF Classify
  <2>3. result = Abstract!NoResult /\ ResultAgrees' /\ result' \in Results \cup {NoResult}
    BY <2>1, <2>2 DEF NoResult, Abstract!NoResult
  <2>4. result' \in Abstract!Results
    BY <2>3 DEF NoResult, ResultAgrees, Results, Kinds, Statuses, Killed, Abstract!Results,
       Abstract!Kinds, Abstract!Statuses, Abstract!Killed
  <2>5. Abstract!Admissible(result')
    BY <2>2, <2>3 DEF ResultAgrees, Killed, Abstract!Killed, Abstract!Admissible,
       Abstract!ReportsExit, Abstract!ReportsDeath, Abstract!ReportsNoStart,
       Abstract!ReportsRacedExit
  <2>6. Abstract!Return(result')
    BY <2>2, <2>3, <2>5 DEF Abstract!Return
  <2>7. QED
    BY <2>4, <2>6
<1>11. QED
  BY <1>1, <1>2, <1>3, <1>4, <1>5, <1>6, <1>7, <1>8, <1>9, <1>10 DEF Run

\* runWithStdin and os/exec implement the abstract spawn: whatever the tree
\* does, the caller sees one admissible result.
THEOREM BackendRunImplements == Spec => Implements
<1>1. Init => Abstract!Init
  BY DEF Init, Abstract!Init, NoStatus, Abstract!NoStatus, NoResult, Abstract!NoResult
<1>2. RunInv /\ [Next]_vars => [Abstract!Next]_(Abstract!vars)
  <2>1. CASE UNCHANGED vars
    BY <2>1 DEF vars, treeVars, runVars, Abstract!vars
  <2>2. CASE Next
    BY <2>2, TreeStepRefines, RunStepRefines DEF Next
  <2>3. QED
    BY <2>1, <2>2
<1>3. QED
  BY <1>1, <1>2, RunInvariant, PTL DEF Spec, Safety, Implements, Abstract!Spec

=============================================================================
