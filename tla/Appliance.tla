----------------------------- MODULE Appliance -----------------------------
(***************************************************************************)
(* One `loxicmd appliance' invocation, from the command line to the exit   *)
(* code: the command layer's request (ApplianceCommands), the allowlist    *)
(* and the handshake (BackendContract), up to two spawns of the backend    *)
(* under one deadline (RunOutcome, which BackendRun implements), and the   *)
(* dispatcher that turns the outcome into a verdict (appliance.go).        *)
(*                                                                         *)
(* The backend is external: it may answer anything and die anywhere.  The  *)
(* build that runs the operation need not be the one that shook hands (a   *)
(* package upgrade in between), so nothing the operation does depends on   *)
(* `image'.  It is trusted in one thing, SaysUnchanged.                    *)
(***************************************************************************)
EXTENDS ApplianceCommands, FiniteSets

CONSTANTS
  Commands,      \* the command lines considered: outcomes of the command layer
  Images,        \* backend builds that may be by contract-version answer
  ExitStatuses   \* exit statuses an operation may end with

Codes == ExitStatuses \cup {4, 5, 6}     \* and those of a contract-version answer

ASSUME ExitAssumption == ExitStatuses \subseteq 0..255 /\ 0 \in ExitStatuses

\* The command layer refuses as a usage error or a failed precondition only.
ASSUME CommandsAssumption ==
  \A c \in Commands :
    /\ c.code \in {OK, InvalidArgument, Precondition}
    /\ c.json \in BOOLEAN /\ c.mutating \in BOOLEAN

ASSUME ImagesAssumption == \A b \in Images : b.exit \in Codes

VARIABLES
  cmd,        \* what the command layer decided
  image,      \* the backend build that answers the handshake
  pc,         \* "args", "handshake", "operation" or "done"
  hs,         \* the handshake's verdict, once known
  doc,        \* the JSON document on the operation's stdout
  verdict,    \* exit code, component code and recovery handle
  spawned, expired, status, touched, result

runVars == <<spawned, expired, status, touched, result>>
vars    == <<cmd, image, pc, hs, doc, verdict, runVars>>

Run == INSTANCE RunOutcome

-----------------------------------------------------------------------------

\* What an operation prints under --json: the command's success payload, the
\* one success payload that says PARTIAL (backup create), an operation error
\* with its own exit and correlation ID, or bytes that validate as neither.
OpDocs ==
  [kind : {"success", "partial", "invalid"}, exit : {0}, corr : {"none"}]
    \cup [kind : {"error"}, exit : 2..8, corr : {"none", "same", "other"}]
NoDoc  == [kind |-> "invalid", exit |-> 0, corr |-> "none"]

DocsOf(sub) == {d \in OpDocs : d.kind = "partial" => sub = "backup create"}

Verdict(code, comp, op) == [code |-> code, comp |-> comp, opId |-> op]
NoVerdict               == Verdict(OK, "pending", "none")
Fails(code, comp)       == Verdict(code, comp, "none")

Init ==
  /\ cmd \in Commands
  /\ image \in Images
  /\ pc = "args" /\ hs = NoVerdict /\ doc = NoDoc
  /\ verdict = NoVerdict
  /\ Run!Init

Finish(v) ==
  /\ verdict' = v
  /\ pc' = "done"

-----------------------------------------------------------------------------
(***************************************************************************)
(* The environment: the clock and the running backend.                     *)
(***************************************************************************)

\* --timeout 0 means no deadline; otherwise it may pass at any time.
DeadlinePasses ==
  /\ pc \in {"args", "handshake", "operation"}
  /\ Run!Expire
  /\ UNCHANGED <<cmd, image, pc, hs, doc, verdict>>

SpawnBackend ==
  /\ pc \in {"handshake", "operation"}
  /\ Run!Spawn
  /\ UNCHANGED <<cmd, image, pc, hs, doc, verdict>>

\* contract-version answers what its build answers, or is killed.
HandshakeEnds ==
  /\ pc = "handshake"
  /\ \E s \in {image.exit, Run!Killed} : Run!Decide(s)
  /\ UNCHANGED <<cmd, image, pc, hs, doc, verdict>>

\* "A backend that exits non-zero has decided something": any status of its own
\* other than success and PARTIAL is the backend's word that nothing changed.
SaysUnchanged(s) == s \in ExitStatuses \ {OK, Partial}

OperationEnds ==
  /\ pc = "operation"
  /\ \E s \in ExitStatuses \cup {Run!Killed} :
       /\ SaysUnchanged(s) => ~touched
       /\ Run!Decide(s)
  /\ doc' \in IF cmd.json THEN DocsOf(cmd.req.sub) ELSE {NoDoc}
  /\ UNCHANGED <<cmd, image, pc, hs, verdict>>

\* A mutating operation, or a straggler it left, changes the host, whatever
\* the handshake before it said.
OperationTouches ==
  /\ pc \in {"operation", "done"}
  /\ cmd.mutating
  /\ ~SaysUnchanged(status)
  /\ Run!Touch
  /\ UNCHANGED <<cmd, image, pc, hs, doc, verdict>>

RunReturns ==
  /\ pc \in {"handshake", "operation"}
  /\ \E r \in Run!Results : Run!Return(r)
  /\ UNCHANGED <<cmd, image, pc, hs, doc, verdict>>

-----------------------------------------------------------------------------
(***************************************************************************)
(* The adapter (pkg/backend).                                              *)
(***************************************************************************)

\* Local refusals, then validateRequest, before anything is started.
CheckArguments ==
  /\ pc = "args"
  /\ \/ cmd.code # OK /\ Finish(Fails(cmd.code, cmd.comp))
     \/ /\ cmd.code = OK /\ ~ValidRequest(cmd.req, cmd.mutating)
        /\ Finish(Fails(ContractMismatch, "argv-not-allowlisted"))
     \/ /\ cmd.code = OK /\ ValidRequest(cmd.req, cmd.mutating)
        /\ pc' = "handshake" /\ UNCHANGED verdict
  /\ UNCHANGED <<cmd, image, hs, doc, runVars>>

ContractViolation == Fails(ContractMismatch, "BACKEND_CONTRACT_INVALID")

\* A run that produced no Result: absent, forbidden, refused by os/exec.
NeverRan(r) == r.kind \in {"unavailable", "forbidden"}
RunFailure(r) ==
  IF r.kind = "forbidden" THEN Fails(Auth, "BACKEND_FORBIDDEN")
                          ELSE Fails(Unavailable, "BACKEND_UNAVAILABLE")

\* Handshake: the contract of an exit 0, the typed error of any other exit.
Answered(r) == r.code = 0 /\ image.exit = 0 /\ image.kind = "contract"

HandshakeVerdict(r) ==
  IF NeverRan(r) THEN RunFailure(r)
  ELSE IF Answered(r) /\ ValidContract(image.body)
  THEN Verdict(OK, "ok", "none")
  ELSE IF Answered(r) /\ image.body.wellFormed /\ image.body.major # 1
  THEN Fails(ContractMismatch, "contract-major-unsupported")
  ELSE IF /\ r.code # 0
          /\ image.kind = "typed" /\ image.body \in ApprovedContractErrors
          /\ image.body.exit = r.code
  THEN Fails(image.body.exit, image.body.comp)
  ELSE ContractViolation

\* allowsReadOnlyBestEffort
AllowsBestEffort(v) == v.comp \notin {"BACKEND_UNAVAILABLE", "BACKEND_FORBIDDEN"}

Degraded == hs.comp # "ok" /\ pc = "operation"

\* From here on the run variables are those of the operation's own spawn.
ResetRun ==
  /\ spawned' = FALSE /\ status' = Run!NoStatus /\ result' = Run!NoResult
  /\ UNCHANGED <<expired, touched>>

GoOn(v) ==
  /\ hs' = v /\ pc' = "operation"
  /\ UNCHANGED verdict

StopWith(v) == hs' = v /\ Finish(v)

\* InvokeReadOnly and InvokeMutating between the handshake and the operation.
HandshakeReturns ==
  /\ pc = "handshake"
  /\ result # Run!NoResult
  /\ LET v == HandshakeVerdict(result)
         advertised == Advertised(image.body, cmd.req.sub, ~cmd.mutating)
     IN  \/ v.code = OK /\ advertised /\ GoOn(v)
         \/ v.code = OK /\ ~advertised /\ StopWith(ContractViolation)
         \/ v.code # OK /\ ~cmd.mutating /\ AllowsBestEffort(v) /\ GoOn(v)
         \/ v.code # OK /\ (cmd.mutating \/ ~AllowsBestEffort(v)) /\ StopWith(v)
  /\ ResetRun
  /\ UNCHANGED <<cmd, image, doc>>

-----------------------------------------------------------------------------
(***************************************************************************)
(* The dispatcher (cmd/appliance).                                         *)
(***************************************************************************)

\* Mutant: the exit status alone decides.
JSONOutcomeByExit(r) ==
  IF r.code = 0 THEN Verdict(OK, "ok", "none")
  ELSE IF doc.kind = "error" /\ doc.exit = r.code /\ doc.corr # "other"
  THEN Verdict(doc.exit, "BACKEND_CODE", IF doc.exit = Partial THEN "backend" ELSE "none")
  ELSE Fails(ContractMismatch, "BACKEND_PAYLOAD_INVALID")

\* validateJSONOutcome.  The backend's operation ID accompanies a PARTIAL.
JSONOutcome(r) ==
  CASE doc.kind = "invalid"                                -> Fails(ContractMismatch, "BACKEND_PAYLOAD_INVALID")
    [] r.code = 0 /\ doc.kind \in {"success", "partial"}   -> Verdict(OK, "ok", "none")
    [] r.code # 0 /\ doc.kind = "error" /\ doc.exit = r.code /\ doc.corr # "other" ->
         Verdict(doc.exit, "BACKEND_CODE", IF doc.exit = Partial THEN "backend" ELSE "none")
    [] OTHER                                               -> Fails(ContractMismatch, "BACKEND_PAYLOAD_INVALID")

\* Mutant: a status outside the taxonomy is passed on.
PlainOutcomeRaw(r) ==
  CASE r.kind = "exit" /\ r.code = 0      -> Verdict(OK, "ok", "none")
    [] r.kind = "exit" /\ r.code # 0      -> Fails(r.code, "backend-exit")
    [] r.kind = "signal" /\ ~cmd.mutating -> Fails(Unavailable, "backend-killed")
    [] OTHER                              -> Verdict(Partial, "backend-killed", "correlation")

\* Mutant: a death is a death, whatever the operation.
PlainOutcomeDeath(r) ==
  CASE r.kind = "exit" /\ r.code = 0 -> Verdict(OK, "ok", "none")
    [] r.kind = "exit" /\ r.code # 0 ->
         Fails(IF r.code \in 2..8 THEN r.code ELSE Failed, "backend-exit")
    [] OTHER                         -> Fails(Unavailable, "backend-killed")

\* Mutant: the upper bound of the taxonomy is off by one.
PlainOutcomeOffByOne(r) ==
  CASE r.kind = "exit" /\ r.code = 0      -> Verdict(OK, "ok", "none")
    [] r.kind = "exit" /\ r.code # 0      ->
         Fails(IF r.code \in 2..7 THEN r.code ELSE Failed, "backend-exit")
    [] r.kind = "signal" /\ ~cmd.mutating -> Fails(Unavailable, "backend-killed")
    [] OTHER                              -> Verdict(Partial, "backend-killed", "correlation")

\* backendOutcome.  A death in a mutating operation is handed the correlation
\* ID to recover with; a status the backend chose is passed on without one.
PlainOutcome(r) ==
  CASE r.kind = "exit" /\ r.code = 0      -> Verdict(OK, "ok", "none")
    [] r.kind = "exit" /\ r.code # 0      ->
         Fails(IF r.code \in 2..8 THEN r.code ELSE Failed, "backend-exit")
    [] r.kind = "signal" /\ ~cmd.mutating -> Fails(Unavailable, "backend-killed")
    [] OTHER                              -> Verdict(Partial, "backend-killed", "correlation")

\* resolveBackendOutcome
BackendOutcome(r) ==
  IF cmd.json /\ r.kind = "exit" /\ r.code \in {0} \cup 2..8
  THEN JSONOutcome(r)
  ELSE PlainOutcome(r)

\* Mutant: the handshake's failure is dropped once the read succeeded.
OperationReturnsFresh ==
  /\ pc = "operation"
  /\ result # Run!NoResult
  /\ Finish(IF NeverRan(result) THEN (IF Degraded THEN hs ELSE RunFailure(result))
            ELSE BackendOutcome(result))
  /\ UNCHANGED <<cmd, image, hs, doc, runVars>>

\* A degraded read keeps the handshake's verdict whatever it read.
Ending ==
  IF Degraded THEN hs
  ELSE IF NeverRan(result) THEN RunFailure(result)
  ELSE BackendOutcome(result)

\* The operation succeeded and its stderr, or in human mode its stdout, could
\* not be copied out: the raw write error, FAILED at the exit point.
OutputFailed == Fails(Failed, "output-failed")

\* invoke, then dispatchReadOnlyRequest or dispatchMutating to the exit point.
\* A failure is returned whether or not its envelope could be written.
OperationReturns ==
  /\ pc = "operation"
  /\ result # Run!NoResult
  /\ \/ Finish(Ending)
     \/ Ending.code = OK /\ Finish(OutputFailed)
  /\ UNCHANGED <<cmd, image, hs, doc, runVars>>

-----------------------------------------------------------------------------

Next ==
  \/ CheckArguments
  \/ DeadlinePasses
  \/ SpawnBackend
  \/ HandshakeEnds
  \/ OperationEnds
  \/ OperationTouches
  \/ RunReturns
  \/ HandshakeReturns
  \/ OperationReturns

Spec == Init /\ [][Next]_vars

-----------------------------------------------------------------------------

\* The variables' types; the exit code is always one of the frozen taxonomy,
\* whatever status the backend chose (backendOutcome, exitcode.go).
TypeOK ==
  /\ cmd \in Commands /\ image \in Images
  /\ pc \in {"args", "handshake", "operation", "done"}
  /\ hs.code \in Taxonomy /\ verdict.code \in Taxonomy
  /\ verdict.opId \in {"none", "backend", "correlation"}
  /\ doc \in OpDocs
  /\ spawned \in BOOLEAN /\ expired \in BOOLEAN /\ touched \in BOOLEAN
  /\ status \in Run!Statuses \cup {Run!NoStatus}
  /\ result \in Run!Results \cup {Run!NoResult}

Done        == pc = "done"
OperationOf == Done /\ hs.comp = "ok"       \* the operation was allowed to run

\* Every argv a public command builds passes the adapter's allowlist: the two
\* are written in different packages and kept in step by hand (mutating.go and
\* allowedArgv), and a mismatch would surface as exit 6 on a valid command.
PublicCommandsStayInAllowlist ==
  verdict.comp = "argv-not-allowlisted" => cmd \notin PublicCommands

\* The host is changed only by a request the allowlist passes, after this
\* invocation's own handshake returned a contract that advertises the command
\* as mutating (InvokeMutating, requireAdvertisedCommand).
MutationWasAdvertised ==
  touched =>
    /\ ValidRequest(cmd.req, TRUE)
    /\ image.kind = "contract" /\ ValidContract(image.body)
    /\ \E i \in DOMAIN image.body.commands :
         image.body.commands[i].name = cmd.req.sub /\ ~image.body.commands[i].readOnly

\* Exit 0 is reported only when the operation itself, not the handshake or a
\* degraded read, exited 0 and, under --json, left a success payload
\* ("Unknown is never reported as success", exit-codes.md rule 5).
SuccessIsEarned ==
  Done /\ verdict.code = OK =>
    /\ hs.comp = "ok"
    /\ result.kind = "exit" /\ status = 0
    /\ cmd.json => doc.kind \in {"success", "partial"}

\* What a backend that exits 8 must print under --json to be believed: an
\* operation error with that exit and, if any, this invocation's correlation.
SaysPartial ==
  /\ status = Partial
  /\ cmd.json => doc.kind = "error" /\ doc.exit = Partial /\ doc.corr # "other"

\* PARTIAL is reported for a mutating operation that died, with a handle to
\* recover with, for an operation that says so itself, and for nothing else
\* (backendOutcome, validateJSONOutcome, writeEnvelope).  Under --json an exit
\* 8 says so only with a document that validates; with any other document the
\* code reports a contract mismatch (6), where the contract's last two rules
\* and rule 5 of the exit codes would allow, and ask for, an 8.
PartialExactlyWhenUnknown ==
  Done =>
    /\ OperationOf /\ cmd.mutating /\ status = Run!Killed =>
         verdict.code = Partial /\ verdict.opId # "none"
    /\ OperationOf /\ SaysPartial =>
         verdict.code = Partial /\ (cmd.json => verdict.opId = "backend")
    /\ OperationOf /\ status = Partial /\ ~SaysPartial =>
         verdict.code = ContractMismatch
    /\ verdict.code = Partial =>
         OperationOf /\ (SaysPartial \/ (cmd.mutating /\ status = Run!Killed))

\* A read that went on after a failed handshake ends with the handshake's own
\* failure, whatever the read returned (InvokeReadOnly).
DegradedReadKeepsVerdict ==
  Done /\ hs # NoVerdict /\ hs.comp # "ok" => verdict = hs /\ verdict.code # OK

\* A code automation may retry (5, or 4 and 7 once the cause is addressed) means
\* the host was not changed, but for two cases of a backend that did its work
\* and exited 0: at the deadline, reported as one that could not be executed,
\* and with an output that could not be copied out (dispatchMutating).
RetryableIsSafe ==
  Done /\ verdict.code \in {Precondition, Unavailable, Failed} /\ touched
    => status = 0 /\ (NeverRan(result) \/ verdict = OutputFailed)

\* The help of backup create and the invocation contract: an outcome that says
\* it is partial is reported PARTIAL (exit 8) with the operation ID.
IncompleteIsPartial ==
  Done /\ OperationOf /\ cmd.json /\ status = 0 /\ doc.kind = "partial"
    => verdict.code = Partial

=============================================================================
