---------------------------- MODULE SnapshotFile ----------------------------
(***************************************************************************)
(* Storing what the gateway sent: doSnapshot (cmd/lifecycle/snapshot.go),  *)
(* LogArchiveDownload (cmd/lifecycle/logs.go), VerifySnapshotChecksum and  *)
(* WriteFileAtomic (pkg/api/snapshotfile.go).                              *)
(*                                                                         *)
(* Several invocations may store to the same path at once; any of them may *)
(* be killed, and the machine may lose power, between any two system       *)
(* calls.  The file system orders nothing by itself: before fsync a file's *)
(* data may be missing after a power loss, before the directory's fsync    *)
(* any name published since the last one may be what survives.             *)
(***************************************************************************)
EXTENDS Integers, FiniteSets

CONSTANTS
  Downloads,  \* the concurrent invocations; each also names its temporary file
  Old,        \* the file an earlier invocation left at the path
  NoFile      \* the path does not exist

ASSUME FilesAssumption ==
  Old \notin Downloads /\ NoFile \notin Downloads /\ Old # NoFile

VARIABLES
  pc,         \* the next system call of each invocation
  job,        \* what each invocation asks for: "snapshot", "strict" or "archive"
  reply,      \* the body the gateway sent it
  data,       \* contents of each file: "none", "part" or "whole"
  flushed,    \* files whose contents are on stable storage
  name,       \* the file the path names
  mayName,    \* the files it may name after a power loss
  era,        \* at which publication each file took the path (0: before all)
  clock,      \* publications so far
  anchored,   \* invocations whose directory fsync succeeded
  verdict     \* the reason each invocation reports

diskVars == <<data, flushed, name, mayName, era, clock, anchored>>
vars     == <<pc, job, reply, diskVars, verdict>>

-----------------------------------------------------------------------------

Files == Downloads \cup {Old}

\* A body as VerifySnapshotChecksum tells them apart.  "broken": the
\* connection failed while it was read; "unparsable": empty or not JSON;
\* "unsummed": no checksum field; "mangled": the field is not in its canonical
\* encoding; "corrupt": it does not match the contents; "intact": it does.
Bodies  == {"broken", "unparsable", "unsummed", "mangled", "corrupt", "intact"}
Headers == {"none", "agrees", "differs"}
Replies == [body : Bodies, header : Headers]
NoReply == [body |-> "none", header |-> "none"]

\* Mutant: the header is compared with the field, the contents with nothing.
VerifyHeaderOnly(r, strict) ==
  CASE r.body = "broken"     -> "request-failed"
    [] r.body = "unparsable" -> "invalid-json"
    [] r.body = "unsummed"   -> IF r.header # "none" THEN "checksum-mismatch"
                                ELSE IF strict THEN "contract-legacy" ELSE "ok"
    [] OTHER                 -> IF r.header = "differs" THEN "checksum-mismatch" ELSE "ok"

\* VerifySnapshotChecksum, then doSnapshot's --strict.
Verify(r, strict) ==
  CASE r.body = "broken"     -> "request-failed"
    [] r.body = "unparsable" -> "invalid-json"
    [] r.body = "unsummed"   -> IF r.header # "none" THEN "checksum-mismatch"
                                ELSE IF strict THEN "contract-legacy" ELSE "ok"
    [] r.body = "intact"     -> IF r.header = "differs" THEN "checksum-mismatch" ELSE "ok"
    [] OTHER                 -> "checksum-mismatch"

\* The reasons for a request without an answer, or with a status other than 200.
Refusals == {"request-failed", "unauthorized", "operation-in-progress", "maintenance-mode",
             "server-error", "bad-request"}
Failures == Refusals \cup {"invalid-json", "checksum-mismatch", "contract-legacy",
                           "file-write-failed"}

Writing == {"create", "chmod", "copy", "sync", "close", "rename"}

Init ==
  /\ pc = [d \in Downloads |-> "get"]
  /\ job \in [Downloads -> {"snapshot", "strict", "archive"}]
  /\ reply = [d \in Downloads |-> NoReply]
  /\ data = [f \in Files |-> IF f = Old THEN "whole" ELSE "none"]
  /\ flushed = {Old}
  /\ name \in {Old, NoFile}
  /\ mayName = {name}
  /\ era = [f \in Files |-> 0]
  /\ clock = 0
  /\ anchored = {}
  /\ verdict = [d \in Downloads |-> "none"]

-----------------------------------------------------------------------------

Goto(d, step) == pc' = [pc EXCEPT ![d] = step]

Return(d, reason) ==
  /\ pc' = [pc EXCEPT ![d] = "done"]
  /\ verdict' = [verdict EXCEPT ![d] = reason]

\* A snapshot is read and verified whole before anything durable happens; an
\* archive is streamed into the file as it arrives.
Get(d, r) ==
  /\ pc[d] = "get"
  /\ reply' = [reply EXCEPT ![d] = r]
  /\ \/ /\ job[d] = "archive"
        /\ Goto(d, "create") /\ UNCHANGED verdict
     \/ /\ job[d] # "archive"
        /\ Verify(r, job[d] = "strict") = "ok"
        /\ Goto(d, "create") /\ UNCHANGED verdict
     \/ /\ job[d] # "archive"
        /\ Verify(r, job[d] = "strict") # "ok"
        /\ Return(d, Verify(r, job[d] = "strict"))
  /\ UNCHANGED <<job, diskVars>>

\* No answer, or not a 200: nothing is written.
GetRefused(d) ==
  /\ pc[d] = "get"
  /\ \E reason \in Refusals : Return(d, reason)
  /\ UNCHANGED <<job, reply, diskVars>>

\* Mutant: a fixed name beside the destination, shared by every invocation.
TempShared(d) == CHOOSE f \in Downloads : TRUE

\* os.CreateTemp: a file of this invocation's own in the destination directory.
TempOf(d) == d

CreateTemp(d) ==
  /\ pc[d] = "create"
  /\ data' = [data EXCEPT ![TempOf(d)] = "none"]
  /\ flushed' = flushed \ {TempOf(d)}
  /\ Goto(d, "chmod")
  /\ UNCHANGED <<job, reply, name, mayName, era, clock, anchored, verdict>>

Chmod(d) ==
  /\ pc[d] = "chmod"
  /\ Goto(d, "copy")
  /\ UNCHANGED <<job, reply, diskVars, verdict>>

\* io.Copy: some of the body, then the rest of it.
CopyPart(d) ==
  /\ pc[d] = "copy"
  /\ data[TempOf(d)] = "none"
  /\ data' = [data EXCEPT ![TempOf(d)] = "part"]
  /\ UNCHANGED <<pc, job, reply, flushed, name, mayName, era, clock, anchored, verdict>>

\* Mutant: no Sync before the rename.
CopyRestUnsynced(d) ==
  /\ pc[d] = "copy"
  /\ data[TempOf(d)] # "none"
  /\ reply[d].body # "broken"
  /\ data' = [data EXCEPT ![TempOf(d)] = "whole"]
  /\ Goto(d, "close")
  /\ UNCHANGED <<job, reply, flushed, name, mayName, era, clock, anchored, verdict>>

CopyRest(d) ==
  /\ pc[d] = "copy"
  /\ data[TempOf(d)] # "none"
  /\ reply[d].body # "broken"
  /\ data' = [data EXCEPT ![TempOf(d)] = "whole"]
  /\ Goto(d, "sync")
  /\ UNCHANGED <<job, reply, flushed, name, mayName, era, clock, anchored, verdict>>

Sync(d) ==
  /\ pc[d] = "sync"
  /\ flushed' = flushed \cup {TempOf(d)}
  /\ Goto(d, "close")
  /\ UNCHANGED <<job, reply, data, name, mayName, era, clock, anchored, verdict>>

Close(d) ==
  /\ pc[d] = "close"
  /\ Goto(d, "rename")
  /\ UNCHANGED <<job, reply, diskVars, verdict>>

Rename(d) ==
  /\ pc[d] = "rename"
  /\ name' = TempOf(d)
  /\ mayName' = mayName \cup {TempOf(d)}
  /\ clock' = clock + 1
  /\ era' = [era EXCEPT ![TempOf(d)] = clock + 1]
  /\ Goto(d, "dirsync")
  /\ UNCHANGED <<job, reply, data, flushed, anchored, verdict>>

\* Mutant: a reason the taxonomy does not know.
StepFailsUnclassified(d) ==
  /\ pc[d] \in Writing
  /\ Return(d, IF pc[d] = "copy" THEN "copy-failed" ELSE "file-write-failed")
  /\ UNCHANGED <<job, reply, diskVars>>

\* Mutant: a failed directory flush fails the command.
StepFailsLate(d) ==
  /\ pc[d] \in Writing \cup {"dirsync"}
  /\ Return(d, IF pc[d] = "copy" /\ reply[d].body = "broken"
               THEN "request-failed" ELSE "file-write-failed")
  /\ UNCHANGED <<job, reply, diskVars>>

\* Any step may fail; the temporary file is removed and the failure reported.
\* A body that broke off mid-stream is a transport failure (readTracker).
StepFails(d) ==
  /\ pc[d] \in Writing
  /\ Return(d, IF pc[d] = "copy" /\ reply[d].body = "broken"
               THEN "request-failed" ELSE "file-write-failed")
  /\ UNCHANGED <<job, reply, diskVars>>

\* Mutant: the directory is opened and closed, never flushed.
DirSyncUnflushed(d) ==
  /\ pc[d] = "dirsync"
  /\ anchored' = anchored \cup {d}
  /\ Return(d, "ok")
  /\ UNCHANGED <<job, reply, data, flushed, name, mayName, era, clock>>

DirSync(d) ==
  /\ pc[d] = "dirsync"
  /\ mayName' = {name}
  /\ anchored' = anchored \cup {d}
  /\ Return(d, "ok")
  /\ UNCHANGED <<job, reply, data, flushed, name, era, clock>>

\* The directory cannot be opened or flushed: ignored, still a success.
DirSyncIgnored(d) ==
  /\ pc[d] = "dirsync"
  /\ Return(d, "ok")
  /\ UNCHANGED <<job, reply, diskVars>>

\* SIGINT, SIGKILL, a closed terminal: no cleanup runs.
Killed(d) ==
  /\ pc[d] # "done" /\ pc[d] # "dead"
  /\ Goto(d, "dead")
  /\ UNCHANGED <<job, reply, diskVars, verdict>>

PowerLoss ==
  /\ \E f \in mayName : name' = f /\ mayName' = {f}
  /\ data' \in {v \in [Files -> {"none", "part", "whole"}] :
                  \A f \in flushed : v[f] = data[f]}
  /\ pc' = [d \in Downloads |-> IF pc[d] = "done" THEN "done" ELSE "dead"]
  /\ UNCHANGED <<job, reply, flushed, era, clock, anchored, verdict>>

-----------------------------------------------------------------------------

Invocation(d) ==
  \/ \E r \in Replies : Get(d, r)
  \/ GetRefused(d)
  \/ CreateTemp(d)
  \/ Chmod(d)
  \/ CopyPart(d)
  \/ CopyRest(d)
  \/ Sync(d)
  \/ Close(d)
  \/ Rename(d)
  \/ StepFails(d)
  \/ DirSync(d)
  \/ DirSyncIgnored(d)
  \/ Killed(d)

Next == PowerLoss \/ \E d \in Downloads : Invocation(d)

Spec == Init /\ [][Next]_vars

-----------------------------------------------------------------------------

\* The variables' types (WriteFileAtomic's local state, the disk, the verdicts).
TypeOK ==
  /\ pc \in [Downloads -> Writing \cup {"get", "dirsync", "done", "dead"}]
  /\ job \in [Downloads -> {"snapshot", "strict", "archive"}]
  /\ reply \in [Downloads -> Replies \cup {NoReply}]
  /\ data \in [Files -> {"none", "part", "whole"}]
  /\ flushed \subseteq Files
  /\ name \in Files \cup {NoFile}
  /\ mayName \subseteq Files \cup {NoFile} /\ name \in mayName
  /\ era \in [Files -> Nat] /\ clock \in Nat
  /\ anchored \subseteq Downloads
  /\ verdict \in [Downloads -> Failures \cup {"none", "ok"}]

\* WriteFileAtomic never leaves "a partial file where a whole one used to be":
\* whatever invocations race, are killed or lose power, the path names a whole
\* file or no file at all, and so does every name a power loss may fall back to.
NeverPartial == \A f \in mayName \ {NoFile} : data[f] = "whole" /\ f \in flushed

\* doSnapshot's "verification happens before anything durable": no snapshot
\* reaches the path whose body broke off, does not parse or contradicts its
\* checksum; one without a checksum only from a gateway that offered none and
\* without --strict.  A cut-off archive never reaches it either.
NothingUnverifiedPublished ==
  \A d \in mayName \cap Downloads :
    IF job[d] = "archive" THEN reply[d].body # "broken"
    ELSE \/ reply[d].body = "intact" /\ reply[d].header # "differs"
         \/ reply[d] = [body |-> "unsummed", header |-> "none"] /\ job[d] = "snapshot"

\* "A failed download cannot destroy the backup a previous successful one left
\* behind" (WriteSnapshotFile): an invocation that reports a failure never
\* took the path, not even for a moment.
FailureLeavesPath ==
  \A d \in Downloads : verdict[d] \in Failures => era[d] = 0 /\ d \notin mayName

\* Once the directory is flushed, a power loss brings back this document or a
\* later one, never an earlier one (the directory fsync of WriteFileAtomic).
AnchoredNeverLost ==
  \A d \in anchored : \A f \in mayName : f \in Files /\ era[f] >= era[d]

\* What holds between the system calls of one WriteFileAtomic: until the rename
\* the file is nobody's, and by then its contents are verified and flushed.
Unpublished(d) == era[d] = 0 /\ d \notin mayName

Fit(d) ==
  job[d] # "archive" => Verify(reply[d], job[d] = "strict") = "ok" /\ reply[d] \in Replies

StepsInOrder ==
  \A d \in Downloads :
    /\ pc[d] \in Writing \cup {"get"} => Unpublished(d)
    /\ pc[d] \in Writing => Fit(d)
    /\ pc[d] \in {"sync", "close", "rename"} => data[d] = "whole" /\ reply[d].body # "broken"
    /\ pc[d] \in {"close", "rename"} => d \in flushed
    /\ pc[d] = "dirsync" => name \in Files /\ era[name] >= era[d]
    /\ pc[d] # "done" => verdict[d] = "none" /\ d \notin anchored

PublicationsInOrder == \A f \in Files : era[f] <= clock

\* The inductive invariant behind the properties above and the refinement.
FileInv ==
  /\ TypeOK
  /\ StepsInOrder
  /\ PublicationsInOrder
  /\ NeverPartial
  /\ NothingUnverifiedPublished
  /\ FailureLeavesPath
  /\ AnchoredNeverLost

\* The path behaves as an atomic file whatever its invocations go through.
Abstract == INSTANCE AtomicFile WITH
  value  <- IF name = NoFile \/ data[name] = "whole" THEN name ELSE "torn",
  stable <- mayName,
  open   <- {d \in Downloads : pc[d] \in Writing \cup {"get"}}

Implements == Abstract!Spec

=============================================================================
