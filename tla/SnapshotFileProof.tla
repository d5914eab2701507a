------------------------- MODULE SnapshotFileProof -------------------------
(***************************************************************************)
(* Storing a download, for any number of concurrent invocations: the       *)
(* invariants of SnapshotFile hold and the path implements AtomicFile.     *)
(***************************************************************************)
EXTENDS SnapshotFile, TLAPS

\* The file an earlier invocation left is whole and flushed.
LEMMA InitFileInv == Init => FileInv
  BY FilesAssumption
  DEF Init, FileInv, TypeOK, StepsInOrder, PublicationsInOrder, NeverPartial,
      NothingUnverifiedPublished, FailureLeavesPath, AnchoredNeverLost, Unpublished,
      Files, Failures, Writing, NoReply, Replies

\* What VerifySnapshotChecksum lets through.
LEMMA VerifiedBodies ==
  ASSUME NEW r \in Replies, NEW strict \in BOOLEAN
  PROVE  /\ Verify(r, strict) \in Failures \cup {"ok"}
         /\ Verify(r, strict) = "ok" =>
              \/ r.body = "intact" /\ r.header # "differs"
              \/ r.body = "unsummed" /\ r.header = "none" /\ ~strict
  BY DEF Verify, Replies, Bodies, Headers, Refusals, Failures

\* No step of an invocation breaks the invariant: only Rename publishes, and
\* what it publishes was verified by Get and flushed by Sync.
LEMMA InvocationFileInv ==
  ASSUME FileInv, NEW d \in Downloads, Invocation(d)
  PROVE  FileInv'
<1> USE FilesAssumption
    DEF FileInv, TypeOK, StepsInOrder, PublicationsInOrder, NeverPartial,
        NothingUnverifiedPublished, FailureLeavesPath, AnchoredNeverLost, Unpublished,
        Fit, Files, Refusals, Failures, Writing, TempOf, Goto, Return, diskVars
<1>1. ASSUME NEW r \in Replies, Get(d, r)
      PROVE  FileInv'
  <2>1. Verify(r, job[d] = "strict") \in Failures \cup {"ok"}
    BY VerifiedBodies
  <2> QED  BY <1>1, <2>1 DEF Get
<1>13. CASE GetRefused(d)  BY <1>13 DEF GetRefused
<1>2. CASE CreateTemp(d)  BY <1>2 DEF CreateTemp
<1>3. CASE Chmod(d)       BY <1>3 DEF Chmod
<1>4. CASE CopyPart(d)    BY <1>4 DEF CopyPart
<1>5. CASE CopyRest(d)    BY <1>5 DEF CopyRest
<1>6. CASE Sync(d)        BY <1>6 DEF Sync
<1>7. CASE Close(d)       BY <1>7 DEF Close
<1>8. CASE Rename(d)
  <2>1. job[d] # "archive" =>
          \/ reply[d].body = "intact" /\ reply[d].header # "differs"
          \/ /\ reply[d] = [body |-> "unsummed", header |-> "none"]
             /\ job[d] = "snapshot"
    BY <1>8, VerifiedBodies DEF Rename, Replies
  <2>2. job[d] = "archive" => reply[d].body # "broken"
    BY <1>8 DEF Rename
  <2> QED  BY <1>8, <2>1, <2>2 DEF Rename
<1>9. CASE StepFails(d)        BY <1>9 DEF StepFails
<1>10. CASE DirSync(d)         BY <1>10 DEF DirSync
<1>11. CASE DirSyncIgnored(d)  BY <1>11 DEF DirSyncIgnored
<1>12. CASE Killed(d)          BY <1>12 DEF Killed
<1> QED
  BY <1>1, <1>2, <1>3, <1>4, <1>5, <1>6, <1>7, <1>8, <1>9, <1>10, <1>11, <1>12, <1>13
  DEF Invocation

\* A power loss falls back to a published, flushed file and ends every
\* invocation.
LEMMA PowerLossFileInv ==
  ASSUME FileInv, PowerLoss
  PROVE  FileInv'
  BY FilesAssumption
  DEF FileInv, TypeOK, StepsInOrder, PublicationsInOrder, NeverPartial,
      NothingUnverifiedPublished, FailureLeavesPath, AnchoredNeverLost, Unpublished,
      Fit, Files, Refusals, Failures, Writing, PowerLoss

\* Every step of an invocation and every power loss keeps the invariant.
LEMMA NextFileInv == FileInv /\ [Next]_vars => FileInv'
<1> SUFFICES ASSUME FileInv, [Next]_vars
             PROVE  FileInv'
  OBVIOUS
<1>1. CASE UNCHANGED vars
  BY <1>1
  DEF FileInv, TypeOK, StepsInOrder, PublicationsInOrder, NeverPartial,
      NothingUnverifiedPublished, FailureLeavesPath, AnchoredNeverLost, Unpublished,
      Fit, vars, diskVars
<1> QED  BY <1>1, InvocationFileInv, PowerLossFileInv DEF Next

\* The inductive invariant of every WriteFileAtomic and of the disk under it.
THEOREM FileInvariant == Spec => []FileInv
  BY InitFileInv, NextFileInv, PTL DEF Spec

\* However many invocations race, die or lose power, the path names a whole
\* file (WriteFileAtomic).
THEOREM PathIsWhole == Spec => []NeverPartial
<1>1. FileInv => NeverPartial  BY DEF FileInv
<1> QED  BY <1>1, FileInvariant, PTL

\* What reaches the path was verified first (doSnapshot, LogArchiveDownload).
THEOREM PathIsVerified == Spec => []NothingUnverifiedPublished
<1>1. FileInv => NothingUnverifiedPublished  BY DEF FileInv
<1> QED  BY <1>1, FileInvariant, PTL

\* An invocation that reports a failure never took the path.
THEOREM FailureIsHarmless == Spec => []FailureLeavesPath
<1>1. FileInv => FailureLeavesPath  BY DEF FileInv
<1> QED  BY <1>1, FileInvariant, PTL

\* A flushed publication is never undone by a power loss.
THEOREM FlushIsFinal == Spec => []AnchoredNeverLost
<1>1. FileInv => AnchoredNeverLost  BY DEF FileInv
<1> QED  BY <1>1, FileInvariant, PTL

-----------------------------------------------------------------------------

\* Every step of an invocation is a step of the atomic file or invisible.
LEMMA InvocationRefines ==
  ASSUME FileInv, NEW d \in Downloads, Invocation(d)
  PROVE  [Abstract!Next]_Abstract!vars
<1> USE FilesAssumption
    DEF FileInv, TypeOK, StepsInOrder, NeverPartial, Unpublished, Files, Writing,
        TempOf, Goto, Return, diskVars, Abstract!vars
<1> DEFINE Open == {e \in Downloads : pc[e] \in Writing \cup {"get"}}
<1>0. ASSUME d \in Open, Open' = Open \ {d}, UNCHANGED diskVars
      PROVE  Abstract!Next
  <2>1. Abstract!GiveUp(d)  BY <1>0 DEF Abstract!GiveUp
  <2> QED  BY <2>1 DEF Abstract!Next
<1>1. ASSUME NEW r \in Replies, Get(d, r)
      PROVE  [Abstract!Next]_Abstract!vars
  <2>1. CASE pc' = [pc EXCEPT ![d] = "create"]  BY <1>1, <2>1 DEF Get
  <2>2. CASE pc' = [pc EXCEPT ![d] = "done"]
    <3>1. Open' = Open \ {d}  BY <2>2
    <3> QED  BY <1>0, <1>1, <3>1 DEF Get
  <2> QED  BY <1>1, <2>1, <2>2 DEF Get
<1>13. CASE GetRefused(d)
  <2>1. pc' = [pc EXCEPT ![d] = "done"] /\ d \in Open /\ UNCHANGED diskVars
    BY <1>13 DEF GetRefused
  <2>2. Open' = Open \ {d}  BY <2>1
  <2> QED  BY <1>0, <2>1, <2>2
<1>2. CASE CreateTemp(d)  BY <1>2 DEF CreateTemp
<1>3. CASE Chmod(d)       BY <1>3 DEF Chmod
<1>4. CASE CopyPart(d)    BY <1>4 DEF CopyPart
<1>5. CASE CopyRest(d)    BY <1>5 DEF CopyRest
<1>6. CASE Sync(d)        BY <1>6 DEF Sync
<1>7. CASE Close(d)       BY <1>7 DEF Close
<1>8. CASE Rename(d)
  <2>1. Abstract!Publish(d)  BY <1>8 DEF Rename, Abstract!Publish
  <2> QED  BY <2>1 DEF Abstract!Next
<1>9. CASE StepFails(d)
  <2>1. Open' = Open \ {d}  BY <1>9 DEF StepFails
  <2> QED  BY <1>0, <1>9, <2>1 DEF StepFails
<1>10. CASE DirSync(d)
  <2>1. Abstract!Flush  BY <1>10 DEF DirSync, Abstract!Flush
  <2> QED  BY <2>1 DEF Abstract!Next
<1>11. CASE DirSyncIgnored(d)  BY <1>11 DEF DirSyncIgnored
<1>12. CASE Killed(d)
  <2>1. CASE d \in Open
    <3>1. Open' = Open \ {d}  BY <1>12 DEF Killed
    <3> QED  BY <1>0, <1>12, <2>1, <3>1 DEF Killed
  <2>2. CASE d \notin Open  BY <1>12, <2>2 DEF Killed
  <2> QED  BY <2>1, <2>2
<1> QED
  BY <1>1, <1>2, <1>3, <1>4, <1>5, <1>6, <1>7, <1>8, <1>9, <1>10, <1>11, <1>12, <1>13
  DEF Invocation

\* Every step of the storage model is a step of the atomic file or invisible.
LEMMA StepRefines == FileInv /\ FileInv' /\ [Next]_vars => [Abstract!Next]_Abstract!vars
<1> SUFFICES ASSUME FileInv, FileInv', [Next]_vars
             PROVE  [Abstract!Next]_Abstract!vars
  OBVIOUS
<1>1. CASE PowerLoss
  <2>1. Abstract!PowerLoss
    BY <1>1, FilesAssumption
    DEF PowerLoss, Abstract!PowerLoss, FileInv, TypeOK, NeverPartial, Files, Writing
  <2> QED  BY <2>1 DEF Abstract!Next
<1>2. CASE UNCHANGED vars  BY <1>2 DEF vars, diskVars, Abstract!vars
<1> QED  BY <1>1, <1>2, InvocationRefines DEF Next

\* Every variable of the storage model keeps its type.
THEOREM FileTypes == Spec => []TypeOK
<1>1. FileInv => TypeOK  BY DEF FileInv
<1> QED  BY <1>1, FileInvariant, PTL

\* WriteFileAtomic and its two callers implement the atomic file.
THEOREM SnapshotFileImplements == Spec => Implements
<1>1. Init => Abstract!Init
  BY FilesAssumption DEF Init, Abstract!Init, Files, Writing
<1>2. FileInv /\ FileInv' /\ [Next]_vars => [Abstract!Next]_Abstract!vars
  BY StepRefines
<1> QED  BY <1>1, <1>2, FileInvariant, PTL DEF Spec, Implements, Abstract!Spec

=============================================================================
