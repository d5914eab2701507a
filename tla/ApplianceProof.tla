--------------------------- MODULE ApplianceProof ---------------------------
(***************************************************************************)
(* `loxicmd appliance', for every set of command lines, backend builds and *)
(* exit statuses: what an invocation reports agrees with what the backend  *)
(* it ran did to the host.                                                 *)
(***************************************************************************)
EXTENDS Appliance, SequenceTheorems, TLAPS

\* The command layer and the allowlist let the request through.
Permitted == cmd.code = OK /\ ValidRequest(cmd.req, cmd.mutating)

\* The build's contract was accepted and advertises the request.
Vouched ==
  /\ image.kind = "contract" /\ ValidContract(image.body)
  /\ Advertised(image.body, cmd.req.sub, ~cmd.mutating)

\* What a returned Result says of the process stays true of it.
RunInv ==
  /\ ~spawned => status = Run!NoStatus
  /\ result # Run!NoResult =>
       \/ Run!ReportsExit(result)
       \/ Run!ReportsDeath(result)
       \/ Run!ReportsNoStart(result)
       \/ Run!ReportsRacedExit(result)

\* A handshake that is over failed with a code of its own or was vouched for,
\* and only a read goes on after one that failed.
HandshakeInv ==
  /\ hs.code \in Taxonomy
  /\ pc \in {"args", "handshake"} => hs = NoVerdict
  /\ hs # NoVerdict /\ hs.comp # "ok" =>
       hs.code \notin {OK, Partial} /\ hs.opId = "none"
  /\ pc \in {"handshake", "operation"} => Permitted
  /\ pc = "operation" =>
       /\ hs # NoVerdict
       /\ cmd.mutating => hs.comp = "ok"
  /\ hs.comp = "ok" =>
       /\ Permitted /\ Vouched
       /\ pc \in {"operation", "done"}
       /\ status \in ExitStatuses \cup {Run!Killed, Run!NoStatus}

\* The host is changed only by a mutating operation that is running or that did
\* not end by saying it changed nothing; a mutating operation is spawned only
\* after a handshake that went well.
TouchInv ==
  /\ pc = "args" => ~spawned
  /\ pc = "done" /\ cmd.mutating /\ spawned => hs.comp = "ok"
  /\ touched => hs.comp = "ok" /\ cmd.mutating /\ spawned /\ ~SaysUnchanged(status)

\* What the dispatcher makes of the operation's Result.
Outcome == IF NeverRan(result) THEN RunFailure(result) ELSE BackendOutcome(result)

\* Where the verdict of a finished invocation came from.
VerdictInv ==
  IF pc # "done" THEN verdict = NoVerdict
  ELSE \/ /\ hs = NoVerdict
          /\ verdict.code \in Taxonomy \ {OK, Partial} /\ verdict.opId = "none"
       \/ hs # NoVerdict /\ hs.comp # "ok" /\ verdict = hs
       \/ /\ hs.comp = "ok" /\ result # Run!NoResult
          /\ verdict = Outcome \/ (Outcome.code = OK /\ verdict = OutputFailed)

\* TypeOK without the codes that the other parts fix.
StateInv ==
  /\ cmd \in Commands /\ image \in Images
  /\ pc \in {"args", "handshake", "operation", "done"}
  /\ doc \in OpDocs
  /\ spawned \in BOOLEAN /\ expired \in BOOLEAN /\ touched \in BOOLEAN
  /\ status \in Run!Statuses \cup {Run!NoStatus}
  /\ result \in Run!Results \cup {Run!NoResult}

ApplianceInv ==
  /\ StateInv
  /\ RunInv
  /\ HandshakeInv
  /\ TouchInv
  /\ VerdictInv

-----------------------------------------------------------------------------
(***************************************************************************)
(* Lemmas about the operators the model is built from.                     *)
(***************************************************************************)

\* What an operation prints is always one of the documents.
LEMMA DocsAreTyped == NoDoc \in OpDocs /\ \A sub : DocsOf(sub) \subseteq OpDocs
<1>1. NoDoc \in OpDocs
  BY DEF NoDoc, OpDocs
<1>2. \A sub : DocsOf(sub) \subseteq OpDocs
  BY DEF DocsOf
<1> QED BY <1>1, <1>2

\* What was decided about a request does not change while it is the request.
LEMMA SameRequest ==
  ASSUME UNCHANGED <<cmd, image>>
  PROVE  (Permitted => Permitted') /\ (Vouched => Vouched')
BY Zenon DEF Permitted, Vouched

\* What the dispatcher makes of a Result depends on the command and the
\* document alone.
LEMMA SameOutcome ==
  ASSUME UNCHANGED <<cmd, doc, result>>
  PROVE  Outcome' = Outcome
BY Zenon DEF Outcome, NeverRan, RunFailure, BackendOutcome, JSONOutcome, PlainOutcome

\* The verdict on the handshake is acceptance of a valid contract or a failure
\* with a code that is neither success nor PARTIAL (Handshake, backend.go).
LEMMA HandshakeVerdictKinds ==
  ASSUME NEW r, NEW v, v = HandshakeVerdict(r)
  PROVE  \/ /\ v.code = OK /\ v.comp = "ok" /\ v # NoVerdict
            /\ image.kind = "contract" /\ ValidContract(image.body)
         \/ /\ v.code \in Taxonomy \ {OK, Partial} /\ v.comp # "ok" /\ v.opId = "none"
            /\ v # NoVerdict
<1>1. CASE NeverRan(r)
  BY <1>1 DEF HandshakeVerdict, RunFailure, Fails, Verdict, NoVerdict, Taxonomy,
              OK, Partial, InvalidArgument, FeatureUnavailable, Auth, Unavailable
<1>2. CASE ~NeverRan(r) /\ Answered(r) /\ ValidContract(image.body)
  BY <1>2 DEF HandshakeVerdict, Answered, Verdict, NoVerdict
<1>3. CASE /\ ~NeverRan(r) /\ r.code # 0
           /\ image.kind = "typed" /\ image.body \in ApprovedContractErrors
           /\ image.body.exit = r.code
  BY <1>3 DEF HandshakeVerdict, Answered, ApprovedContractErrors, Fails, Verdict, NoVerdict, Taxonomy,
              OK, Partial, InvalidArgument, FeatureUnavailable, Precondition,
              ContractMismatch, Unavailable
<1>4. CASE v \in {ContractViolation, Fails(ContractMismatch, "contract-major-unsupported")}
  BY <1>4 DEF ContractViolation, Fails, Verdict, NoVerdict, Taxonomy, OK, Partial,
              InvalidArgument, FeatureUnavailable, ContractMismatch
<1> QED BY <1>1, <1>2, <1>3, <1>4 DEF HandshakeVerdict

\* What each verdict on the operation says of the process it is about
\* (resolveBackendOutcome, validateJSONOutcome and backendOutcome).
OutcomeTells ==
  /\ Outcome.code \in Taxonomy
  /\ Outcome.opId \in {"none", "backend", "correlation"}
  /\ Outcome.code = OK =>
       /\ result.kind = "exit" /\ status = 0
       /\ cmd.json => doc.kind \in {"success", "partial"}
  /\ cmd.mutating /\ status = Run!Killed => Outcome.code = Partial /\ Outcome.opId # "none"
  /\ SaysPartial => Outcome.code = Partial /\ (cmd.json => Outcome.opId = "backend")
  /\ status = Partial /\ ~SaysPartial => Outcome.code = ContractMismatch
  /\ Outcome.code = Partial => SaysPartial \/ (cmd.mutating /\ status = Run!Killed)
  /\ Outcome.code \in {Precondition, Unavailable, Failed} =>
       \/ SaysUnchanged(status) \/ ~cmd.mutating \/ ~spawned
       \/ NeverRan(result) /\ status = 0

\* What the verdict on an operation that returned tells about its run.
LEMMA OutcomeMeaning ==
  ASSUME StateInv, RunInv, result # Run!NoResult,
         status \in ExitStatuses \cup {Run!Killed, Run!NoStatus}
  PROVE  OutcomeTells
<1> USE CommandsAssumption, ExitAssumption
        DEF OK, InvalidArgument, Auth, Precondition, Unavailable, ContractMismatch, Failed,
            Partial, FeatureUnavailable, Run!Killed, Run!NoStatus
<1>0. result.kind \in Run!Kinds /\ cmd.json \in BOOLEAN /\ cmd.mutating \in BOOLEAN
  BY DEF StateInv, Run!Results, Run!Kinds
<1>1. CASE NeverRan(result)
  <2>1. status # Run!Killed /\ status # Partial
        /\ (~spawned \/ (result.kind = "unavailable" /\ status = 0))
    BY <1>1 DEF RunInv, NeverRan, Run!ReportsExit, Run!ReportsDeath, Run!ReportsNoStart,
                Run!ReportsRacedExit
  <2>2. Outcome.code \in {Auth, Unavailable} /\ Outcome.opId = "none"
    BY <1>1 DEF Outcome, RunFailure, Fails, Verdict
  <2> QED BY <1>1, <2>1, <2>2 DEF OutcomeTells, Taxonomy, SaysPartial
<1>2. CASE result.kind = "signal"
  <2>1. status = Run!Killed
    BY <1>2 DEF RunInv, Run!ReportsExit, Run!ReportsDeath, Run!ReportsNoStart,
                Run!ReportsRacedExit
  <2>2. Outcome = IF cmd.mutating THEN Verdict(Partial, "backend-killed", "correlation")
                                  ELSE Fails(Unavailable, "backend-killed")
    BY <1>2, <1>0 DEF Outcome, NeverRan, BackendOutcome, PlainOutcome
  <2> QED BY <2>1, <2>2, <1>0 DEF OutcomeTells, Taxonomy, Verdict, Fails, SaysPartial
<1>3. CASE result.kind = "exit"
  <2>1. status = result.code /\ status \in ExitStatuses /\ status \in 0..255
    BY <1>3 DEF RunInv, Codes, Run!ReportsExit, Run!ReportsDeath, Run!ReportsNoStart,
                Run!ReportsRacedExit
  <2>2. CASE ~(cmd.json /\ status \in {0} \cup 2..8)
    <3>1. Outcome = IF status = 0 THEN Verdict(OK, "ok", "none")
                    ELSE Fails(IF status \in 2..8 THEN status ELSE Failed, "backend-exit")
      BY <1>3, <2>1, <2>2 DEF Outcome, NeverRan, BackendOutcome, PlainOutcome
    <3> QED BY <1>3, <2>1, <2>2, <3>1 DEF OutcomeTells, Taxonomy, Verdict, Fails, SaysUnchanged,
                                             SaysPartial
  <2>3. CASE cmd.json /\ status \in {0} \cup 2..8
    <3>1. Outcome = JSONOutcome(result)
      BY <1>3, <2>1, <2>3 DEF Outcome, NeverRan, BackendOutcome
    <3>2. \/ /\ Outcome = Fails(ContractMismatch, "BACKEND_PAYLOAD_INVALID")
             /\ ~(status # 0 /\ doc.kind = "error" /\ doc.exit = status /\ doc.corr # "other")
          \/ /\ status = 0 /\ doc.kind \in {"success", "partial"}
             /\ Outcome = Verdict(OK, "ok", "none")
          \/ /\ status # 0 /\ doc.kind = "error" /\ doc.exit = status /\ doc.corr # "other"
             /\ Outcome = Verdict(status, "BACKEND_CODE",
                                  IF status = Partial THEN "backend" ELSE "none")
      BY <2>1, <3>1 DEF JSONOutcome
    <3> QED BY <1>3, <2>1, <2>3, <3>2 DEF OutcomeTells, Taxonomy, Verdict, Fails, SaysUnchanged,
                                             SaysPartial
  <2> QED BY <2>2, <2>3
<1> QED BY <1>0, <1>1, <1>2, <1>3 DEF NeverRan, Run!Kinds

\* An entry of an accepted contract that advertises a mutating request is one
\* that does not call itself read-only (requireAdvertisedCommand).
LEMMA MutatingIsAdvertised ==
  ASSUME Vouched, cmd.mutating
  PROVE  \E i \in DOMAIN image.body.commands :
           image.body.commands[i].name = cmd.req.sub /\ ~image.body.commands[i].readOnly
<1>1. cmd.req.sub \notin ReadOnlyCommands
  BY DEF Vouched, Advertised
<1>2. PICK i \in DOMAIN image.body.commands : \E j \in DOMAIN ContractCommands :
        /\ image.body.commands[i].name = cmd.req.sub
        /\ image.body.commands[i] = ContractCommands[j]
  BY DEF Vouched, Advertised
<1>3. \A j \in DOMAIN ContractCommands :
        ContractCommands[j].readOnly = (ContractCommands[j].name \in ReadOnlyCommands)
  BY DEF ContractCommands
<1> QED BY <1>1, <1>2, <1>3

-----------------------------------------------------------------------------
(***************************************************************************)
(* The inductive invariant.                                                *)
(***************************************************************************)

\* The invariant holds before the arguments are looked at.
LEMMA InitHolds == Init => ApplianceInv
<1> SUFFICES ASSUME Init PROVE ApplianceInv
  OBVIOUS
<1>1. StateInv
  BY DEF Init, StateInv, OpDocs, NoDoc, Run!Init, Run!Statuses
<1>2. RunInv /\ TouchInv
  BY DEF Init, RunInv, TouchInv, Run!Init
<1>3. HandshakeInv /\ VerdictInv
  BY DEF Init, HandshakeInv, VerdictInv, NoVerdict, Verdict, Taxonomy, OK
<1> QED BY <1>1, <1>2, <1>3 DEF ApplianceInv

\* The clock and the running backend disturb neither the request nor what was
\* decided about it: HandshakeInv and VerdictInv stand.
LEMMA EnvironmentKeepsDecisions ==
  ASSUME ApplianceInv,
         UNCHANGED <<cmd, image, pc, hs, verdict>>,
         pc = "done" => UNCHANGED <<doc, result>>,
         hs.comp = "ok" => status' \in ExitStatuses \cup {Run!Killed, Run!NoStatus}
  PROVE  HandshakeInv' /\ VerdictInv'
<1>1. HandshakeInv'
  BY SameRequest DEF ApplianceInv, HandshakeInv, NoVerdict, Verdict, Run!Killed, Run!NoStatus
<1>2. VerdictInv'
  BY SameOutcome DEF ApplianceInv, VerdictInv, NoVerdict, Verdict, Run!NoResult
<1> QED BY <1>1, <1>2

\* Every step of the invocation, the clock and the backend keeps the invariant.
LEMMA StepKeeps == ApplianceInv /\ [Next]_vars => ApplianceInv'
<1> SUFFICES ASSUME ApplianceInv, [Next]_vars PROVE ApplianceInv'
  OBVIOUS
<1> USE DEF ApplianceInv
<1>1. CASE CheckArguments
  <2>1. StateInv' /\ RunInv' /\ TouchInv'
    BY <1>1 DEF CheckArguments, Finish, runVars, StateInv, RunInv, TouchInv,
                Run!ReportsExit, Run!ReportsDeath, Run!ReportsNoStart, Run!ReportsRacedExit,
                Run!NoResult, Run!NoStatus, Run!Statuses, Run!Killed, Run!Results,
                SaysUnchanged
  <2>2. pc = "args" /\ hs = NoVerdict /\ hs' = hs
    BY <1>1 DEF CheckArguments, HandshakeInv
  <2>3. HandshakeInv'
    BY <1>1, <2>2 DEF CheckArguments, Finish, HandshakeInv, NoVerdict, Verdict, Permitted
  <2>4. VerdictInv'
    BY <1>1, <2>2, CommandsAssumption
       DEF CheckArguments, Finish, VerdictInv, StateInv, Fails, NoVerdict, Verdict, Taxonomy,
           OK, InvalidArgument, Precondition, Partial, ContractMismatch, FeatureUnavailable
  <2> QED BY <2>1, <2>3, <2>4
<1>2. CASE DeadlinePasses
  <2>1. StateInv' /\ RunInv' /\ TouchInv'
    BY <1>2 DEF DeadlinePasses, Run!Expire, StateInv, RunInv, TouchInv,
                Run!ReportsExit, Run!ReportsDeath, Run!ReportsNoStart, Run!ReportsRacedExit,
                Run!NoResult, Run!NoStatus, Run!Statuses, Run!Killed, Run!Results,
                SaysUnchanged
  <2>2. HandshakeInv' /\ VerdictInv'
    BY <1>2, EnvironmentKeepsDecisions DEF DeadlinePasses, Run!Expire, HandshakeInv
  <2> QED BY <2>1, <2>2
<1>3. CASE SpawnBackend
  <2>1. StateInv' /\ RunInv' /\ TouchInv'
    BY <1>3 DEF SpawnBackend, Run!Spawn, StateInv, RunInv, TouchInv,
                Run!NoResult, Run!NoStatus, Run!Statuses, Run!Killed, Run!Results,
                SaysUnchanged
  <2>2. HandshakeInv' /\ VerdictInv'
    BY <1>3, EnvironmentKeepsDecisions DEF SpawnBackend, Run!Spawn, HandshakeInv
  <2> QED BY <2>1, <2>2
<1>4. CASE HandshakeEnds
  <2>1. PICK s \in {image.exit, Run!Killed} : Run!Decide(s)
    BY <1>4 DEF HandshakeEnds
  <2>2. pc = "handshake" /\ hs = NoVerdict /\ UNCHANGED <<cmd, image, pc, hs, doc, verdict>>
    BY <1>4 DEF HandshakeEnds, HandshakeInv
  <2>3. StateInv' /\ RunInv'
    BY <2>1, <2>2, ImagesAssumption, ExitAssumption
       DEF Run!Decide, StateInv, RunInv, Run!Statuses, Run!ReportsExit, Run!ReportsDeath,
           Run!ReportsNoStart, Run!ReportsRacedExit, Run!NoStatus, Run!NoResult, Run!Killed,
           Run!Results, Codes
  <2>4. TouchInv'
    BY <2>1, <2>2 DEF Run!Decide, TouchInv, NoVerdict, Verdict
  <2>5. HandshakeInv' /\ VerdictInv'
    BY <2>1, <2>2, EnvironmentKeepsDecisions DEF Run!Decide, NoVerdict, Verdict
  <2> QED BY <2>3, <2>4, <2>5
<1>5. CASE OperationEnds
  <2>1. PICK s \in ExitStatuses \cup {Run!Killed} :
          (SaysUnchanged(s) => ~touched) /\ Run!Decide(s)
    BY <1>5 DEF OperationEnds
  <2>2. pc = "operation" /\ UNCHANGED <<cmd, image, pc, hs, verdict>> /\ doc' \in OpDocs
    BY <1>5, DocsAreTyped DEF OperationEnds
  <2>3. StateInv' /\ RunInv'
    BY <2>1, <2>2, ExitAssumption
       DEF Run!Decide, StateInv, RunInv, Run!Statuses, Run!ReportsExit, Run!ReportsDeath,
           Run!ReportsNoStart, Run!ReportsRacedExit, Run!NoStatus, Run!NoResult, Run!Killed,
           Run!Results, Codes
  <2>4. TouchInv'
    BY <2>1, <2>2 DEF Run!Decide, TouchInv, SaysUnchanged
  <2>5. HandshakeInv' /\ VerdictInv'
    BY <2>1, <2>2, EnvironmentKeepsDecisions DEF Run!Decide
  <2> QED BY <2>3, <2>4, <2>5
<1>6. CASE OperationTouches
  <2>1. StateInv' /\ RunInv' /\ TouchInv'
    BY <1>6 DEF OperationTouches, Run!Touch, StateInv, RunInv, TouchInv, HandshakeInv,
                Run!ReportsExit, Run!ReportsDeath, Run!ReportsNoStart, Run!ReportsRacedExit,
                Run!NoResult, Run!NoStatus, Run!Statuses, Run!Killed, Run!Results,
                SaysUnchanged
  <2>2. HandshakeInv' /\ VerdictInv'
    BY <1>6, EnvironmentKeepsDecisions DEF OperationTouches, Run!Touch, HandshakeInv
  <2> QED BY <2>1, <2>2
<1>7. CASE RunReturns
  <2>1. PICK r \in Run!Results : Run!Return(r)
    BY <1>7 DEF RunReturns
  <2>2. pc \in {"handshake", "operation"} /\ UNCHANGED <<cmd, image, pc, hs, doc, verdict>>
    BY <1>7 DEF RunReturns
  <2>3. StateInv'
    BY <2>1, <2>2 DEF Run!Return, StateInv, Run!Statuses, Run!NoStatus
  <2>4. RunInv'
    BY <2>1, <2>2 DEF Run!Return, Run!Admissible, RunInv, Run!ReportsExit, Run!ReportsDeath,
                      Run!ReportsNoStart, Run!ReportsRacedExit, Run!NoStatus, Run!Killed
  <2>5. TouchInv'
    BY <2>1, <2>2 DEF Run!Return, TouchInv, SaysUnchanged
  <2>6. HandshakeInv' /\ VerdictInv'
    BY <2>1, <2>2, EnvironmentKeepsDecisions DEF Run!Return, HandshakeInv
  <2> QED BY <2>3, <2>4, <2>5, <2>6
<1>8. CASE HandshakeReturns
  <2> DEFINE v == HandshakeVerdict(result)
  <2>1. pc = "handshake" /\ hs = NoVerdict /\ ~touched /\ UNCHANGED <<cmd, image, doc>>
        /\ Permitted /\ verdict = NoVerdict
    BY <1>8 DEF HandshakeReturns, HandshakeInv, TouchInv, StateInv, VerdictInv, NoVerdict,
                Verdict
  <2>2. \/ v.code = OK /\ v.comp = "ok" /\ v # NoVerdict
           /\ image.kind = "contract" /\ ValidContract(image.body)
        \/ v.code \in Taxonomy \ {OK, Partial} /\ v.comp # "ok" /\ v.opId = "none"
           /\ v # NoVerdict
    BY HandshakeVerdictKinds
  <2> HIDE DEF v
  <2>3. ResetRun
    BY <1>8 DEF HandshakeReturns
  <2>4. StateInv' /\ RunInv' /\ TouchInv'
    <3>1. pc' \in {"operation", "done"}
      BY <1>8 DEF HandshakeReturns, GoOn, StopWith, Finish
    <3> QED BY <2>1, <2>3, <3>1
            DEF ResetRun, StateInv, RunInv, TouchInv, Run!Statuses, Run!NoStatus
  <2>5. CASE /\ v.code = OK /\ Advertised(image.body, cmd.req.sub, ~cmd.mutating)
             /\ GoOn(v)
    <3>1. Vouched
      BY <2>2, <2>5 DEF Vouched
    <3>2. HandshakeInv'
      BY <2>1, <2>2, <2>3, <2>5, <3>1, SameRequest
         DEF HandshakeInv, GoOn, ResetRun, NoVerdict, Verdict, Taxonomy
    <3>3. VerdictInv'
      BY <2>1, <2>5 DEF VerdictInv, GoOn, NoVerdict, Verdict
    <3> QED BY <2>4, <3>2, <3>3
  <2>6. CASE StopWith(ContractViolation)
    <3>1. HandshakeInv' /\ VerdictInv'
      BY <2>1, <2>6 DEF HandshakeInv, VerdictInv, StopWith, Finish, ContractViolation, Fails,
                        NoVerdict, Verdict, Taxonomy, OK, Partial, InvalidArgument,
                        FeatureUnavailable, ContractMismatch
    <3> QED BY <2>4, <3>1
  <2>7. CASE v.code # OK /\ ~cmd.mutating /\ GoOn(v)
    <3>1. HandshakeInv'
      BY <2>1, <2>2, <2>7, SameRequest DEF HandshakeInv, GoOn, NoVerdict, Verdict
    <3>2. VerdictInv'
      BY <2>1, <2>7 DEF VerdictInv, GoOn, NoVerdict, Verdict
    <3> QED BY <2>4, <3>1, <3>2
  <2>8. CASE v.code # OK /\ StopWith(v)
    <3>1. HandshakeInv' /\ VerdictInv'
      BY <2>1, <2>2, <2>8 DEF HandshakeInv, VerdictInv, StopWith, Finish, NoVerdict, Verdict
    <3> QED BY <2>4, <3>1
  <2> QED BY <1>8, <2>5, <2>6, <2>7, <2>8 DEF HandshakeReturns, v
<1>9. CASE OperationReturns
  <2>1. /\ pc = "operation" /\ pc' = "done" /\ result # Run!NoResult
        /\ UNCHANGED <<cmd, image, hs, doc, runVars>>
        /\ \/ verdict' = IF Degraded THEN hs ELSE Outcome
           \/ /\ (IF Degraded THEN hs ELSE Outcome).code = OK
              /\ verdict' = OutputFailed
    BY <1>9 DEF OperationReturns, Ending, Finish, Outcome
  <2>2. StateInv' /\ RunInv' /\ TouchInv'
    BY <2>1 DEF runVars, StateInv, RunInv, TouchInv, HandshakeInv,
                Run!ReportsExit, Run!ReportsDeath, Run!ReportsNoStart, Run!ReportsRacedExit,
                Run!NoResult, Run!NoStatus, Run!Statuses, Run!Killed, Run!Results,
                SaysUnchanged
  <2>3. HandshakeInv'
    BY <2>1, SameRequest DEF HandshakeInv, runVars, NoVerdict, Verdict, Run!Killed, Run!NoStatus
  <2>4. VerdictInv'
    BY <2>1, SameOutcome DEF VerdictInv, HandshakeInv, Degraded, runVars, NoVerdict, Verdict,
                             Run!NoResult
  <2> QED BY <2>2, <2>3, <2>4
<1>10. CASE UNCHANGED vars
  <2>1. StateInv' /\ RunInv' /\ TouchInv'
    BY <1>10 DEF vars, runVars, StateInv, RunInv, TouchInv,
                Run!ReportsExit, Run!ReportsDeath, Run!ReportsNoStart, Run!ReportsRacedExit,
                Run!NoResult, Run!NoStatus, Run!Statuses, Run!Killed, Run!Results,
                SaysUnchanged
  <2>2. HandshakeInv' /\ VerdictInv'
    BY <1>10, EnvironmentKeepsDecisions DEF vars, runVars, HandshakeInv
  <2> QED BY <2>1, <2>2
<1> QED BY <1>1, <1>2, <1>3, <1>4, <1>5, <1>6, <1>7, <1>8, <1>9, <1>10 DEF Next

\* Every reachable state satisfies the inductive invariant.
THEOREM ApplianceInvariant == Spec => []ApplianceInv
BY InitHolds, StepKeeps, PTL DEF Spec

-----------------------------------------------------------------------------

\* The exit code is always one of the frozen taxonomy, whatever status the
\* backend chose (backendOutcome, exitcode.go), and the variables keep types.
THEOREM ApplianceTypes == Spec => []TypeOK
<1>1. ApplianceInv => TypeOK
  <2> SUFFICES ASSUME ApplianceInv PROVE TypeOK
    OBVIOUS
  <2>1. verdict.code \in Taxonomy /\ verdict.opId \in {"none", "backend", "correlation"}
    <3>1. CASE verdict = OutputFailed
      BY <3>1 DEF OutputFailed, Fails, Verdict, Failed, Taxonomy, OK, InvalidArgument,
                  FeatureUnavailable
    <3>2. CASE verdict # OutputFailed
      BY <3>2, OutcomeMeaning DEF ApplianceInv, HandshakeInv, VerdictInv, OutcomeTells,
                                  NoVerdict, Verdict, Taxonomy
    <3> QED BY <3>1, <3>2
  <2> QED BY <2>1 DEF ApplianceInv, HandshakeInv, StateInv, TypeOK
<1> QED BY <1>1, ApplianceInvariant, PTL

\* The host is changed only by a request the allowlist passes, after this
\* invocation's own handshake returned a contract that advertises the command
\* as mutating (InvokeMutating, requireAdvertisedCommand).
THEOREM MutationAdvertised == Spec => []MutationWasAdvertised
<1>1. ApplianceInv => MutationWasAdvertised
  <2> SUFFICES ASSUME ApplianceInv, touched PROVE MutationWasAdvertised
    BY DEF MutationWasAdvertised
  <2>1. Permitted /\ Vouched /\ cmd.mutating /\ cmd.mutating \in BOOLEAN
    BY CommandsAssumption DEF ApplianceInv, TouchInv, HandshakeInv, StateInv
  <2>2. cmd.mutating = TRUE
    BY <2>1, Zenon
  <2>3. ValidRequest(cmd.req, TRUE)
    BY <2>1, <2>2, Zenon DEF Permitted
  <2>4. image.kind = "contract" /\ ValidContract(image.body)
    BY <2>1 DEF Vouched
  <2> QED BY <2>1, <2>3, <2>4, MutatingIsAdvertised, Zenon DEF MutationWasAdvertised
<1> QED BY <1>1, ApplianceInvariant, PTL

\* A finished invocation whose handshake succeeded reports what OutcomeTells.
LEMMA DoneOutcome ==
  ASSUME ApplianceInv, Done
  PROVE  \/ /\ hs.comp # "ok" /\ verdict.code \notin {OK, Partial} /\ ~touched
            /\ hs # NoVerdict => verdict = hs
         \/ /\ hs.comp = "ok" /\ OutcomeTells
            /\ verdict = Outcome \/ (Outcome.code = OK /\ verdict = OutputFailed)
<1>1. CASE hs.comp = "ok"
  BY <1>1, OutcomeMeaning DEF ApplianceInv, VerdictInv, HandshakeInv, Done, NoVerdict, Verdict
<1>2. CASE hs.comp # "ok"
  BY <1>2 DEF ApplianceInv, VerdictInv, HandshakeInv, TouchInv, StateInv, Done
<1> QED BY <1>1, <1>2

\* Exit 0 is reported only when the operation itself, not the handshake or a
\* degraded read, exited 0 and, under --json, left a success payload
\* ("Unknown is never reported as success", exit-codes.md rule 5).
THEOREM SuccessEarned == Spec => []SuccessIsEarned
<1>1. ApplianceInv => SuccessIsEarned
  BY DoneOutcome DEF SuccessIsEarned, OutcomeTells
<1> QED BY <1>1, ApplianceInvariant, PTL

\* PARTIAL is reported for a mutating operation that died, with a handle to
\* recover with, for an operation that says so itself in a way the dispatcher
\* accepts, and for nothing else; an exit 8 whose --json document does not
\* validate is a contract mismatch (backendOutcome, validateJSONOutcome).
THEOREM PartialWhenUnknown == Spec => []PartialExactlyWhenUnknown
<1>1. ApplianceInv => PartialExactlyWhenUnknown
  BY DoneOutcome DEF PartialExactlyWhenUnknown, OperationOf, OutcomeTells, SaysPartial,
                     OutputFailed, Fails, Verdict, OK, Partial, Failed, Run!Killed
<1> QED BY <1>1, ApplianceInvariant, PTL

\* A read that went on after a failed handshake ends with the handshake's own
\* failure, whatever the read returned (InvokeReadOnly).
THEOREM DegradedKeepsVerdict == Spec => []DegradedReadKeepsVerdict
<1>1. ApplianceInv => DegradedReadKeepsVerdict
  BY DoneOutcome DEF DegradedReadKeepsVerdict
<1> QED BY <1>1, ApplianceInvariant, PTL

\* A code automation may retry means the host was not changed, but for a
\* backend that exited 0, at the deadline or with an output that could not be
\* copied out (runWithStdin, backendOutcome, dispatchMutating, exit-codes.md).
THEOREM RetryIsSafe == Spec => []RetryableIsSafe
<1>1. ApplianceInv => RetryableIsSafe
  BY DoneOutcome DEF RetryableIsSafe, OutcomeTells, ApplianceInv, TouchInv, StateInv
<1> QED BY <1>1, ApplianceInvariant, PTL

-----------------------------------------------------------------------------
(***************************************************************************)
(* The command layer and the allowlist agree.                              *)
(***************************************************************************)

NotAllowlisted == "argv-not-allowlisted"

\* The command layer refuses with a code of its own, or builds a request the
\* allowlist passes.
Agrees(c) ==
  /\ c.comp # NotAllowlisted
  /\ c.code = OK => ValidRequest(c.req, c.mutating)

\* A local refusal agrees: nothing is dispatched.
LEMMA RefusalAgrees ==
  ASSUME NEW code, code # OK, NEW comp, comp # NotAllowlisted
  PROVE  Agrees(Refuse(code, comp))
BY DEF Agrees, Refuse

\* A usage error agrees.
LEMMA UsageAgrees == Agrees(Usage)
BY RefusalAgrees DEF Usage, OK, InvalidArgument, NotAllowlisted

\* A dispatched request agrees when the rule of its subcommand passes its argv.
LEMMA DispatchAgrees ==
  ASSUME NEW sub \in AllowedCommands, NEW args, NEW secret, NEW json, NEW mutating,
         RuleOf(sub).mutating = mutating, ValidArgs(RuleOf(sub), args),
         secret => RuleOf(sub).stdinSecret
  PROVE  Agrees(Dispatch(sub, args, secret, json, mutating))
<1>1. AllowedArgv[sub] = RuleOf(sub) /\ sub \in DOMAIN AllowedArgv
  BY DEF AllowedArgv
<1> QED BY <1>1 DEF Agrees, Dispatch, ValidRequest, NotAllowlisted

\* The secret-file checks end in a usage error, a failed precondition or OK.
LEMMA SecretChecksAgree ==
  ASSUME NEW path, NEW file
  PROVE  /\ CheckSecretPath(path, file).code # OK => Agrees(CheckSecretPath(path, file))
         /\ ReadSecretFile(path, file).code # OK => Agrees(ReadSecretFile(path, file))
<1>1. CheckSecretPath(path, file).code # OK => Agrees(CheckSecretPath(path, file))
  BY RefusalAgrees, UsageAgrees
     DEF CheckSecretPath, Refuse, Usage, OK, Precondition, InvalidArgument, NotAllowlisted
<1>2. Agrees(Refuse(Precondition, "secret-file-refused"))
  BY RefusalAgrees DEF OK, Precondition, NotAllowlisted
<1> QED BY <1>1, <1>2 DEF ReadSecretFile

\* Whoever knows where the positionals end and which positions the flag loop
\* looks at knows that the argv passes.
LEMMA ArgvPasses ==
  ASSUME NEW rule, NEW args, NEW first \in 1..(Len(args) + 1),
         \A k \in 1..(first - 1) : args[k] \notin FlagShaped,
         first <= Len(args) => args[first] \in FlagShaped,
         first - 1 \in rule.minPositionals..rule.positionals,
         NEW heads \in SUBSET (first..(Len(args) + 1)), first \in heads,
         \A i \in heads :
           \/ i = Len(args) + 1
           \/ i <= Len(args) /\ args[i] \in rule.flags /\ i + 1 \in heads
           \/ i < Len(args) /\ args[i] \in rule.valued /\ i + 2 \in heads
  PROVE  ValidArgs(rule, args)
BY Zenon DEF ValidArgs

\* A subcommand without mandatory positionals passes with no arguments.
LEMMA NoArguments ==
  ASSUME NEW rule, rule.minPositionals = 0, rule.positionals \in Nat
  PROVE  ValidArgs(rule, <<>>)
<1>1. /\ 1 \in 1..(Len(<<>>) + 1) /\ 1 - 1 \in rule.minPositionals..rule.positionals
      /\ 1 = Len(<<>>) + 1
  OBVIOUS
<1>2. {1} \in SUBSET (1..(Len(<<>>) + 1)) /\ \A i \in {1} : i = Len(<<>>) + 1
  BY <1>1
<1>3. \A k \in 1..(1 - 1) : <<>>[k] \notin FlagShaped
  OBVIOUS
<1> DEFINE args  == <<>>
           heads == {1}
<1>4. /\ 1 \in 1..(Len(args) + 1) /\ 1 - 1 \in rule.minPositionals..rule.positionals
      /\ 1 <= Len(args) => args[1] \in FlagShaped
      /\ \A k \in 1..(1 - 1) : args[k] \notin FlagShaped
      /\ heads \in SUBSET (1..(Len(args) + 1)) /\ 1 \in heads /\ \A i \in heads : i = Len(args) + 1
  BY <1>1, <1>2, <1>3
<1> HIDE DEF args, heads
<1>5. ValidArgs(rule, args)
  BY <1>4, ArgvPasses
<1> QED BY <1>5 DEF args

\* Leading flags: f takes no value, g takes v.
LEMMA FlagArgvs ==
  ASSUME NEW rule, rule.minPositionals = 0, rule.positionals \in Nat,
         NEW f \in rule.flags, f \in FlagShaped, NEW g \in rule.valued, g \in FlagShaped, NEW v
  PROVE  /\ ValidArgs(rule, <<f>>)
         /\ ValidArgs(rule, <<f, g, v>>)
         /\ ValidArgs(rule, <<g, v, f>>)
<1>1. ValidArgs(rule, <<f>>)
  <2> DEFINE args == <<f>>
  <2>1. Len(args) = 1 /\ args[1] = f
    OBVIOUS
  <2> HIDE DEF args
  <2> DEFINE heads == {1, 2}
  <2>2. /\ 1 \in 1..(Len(args) + 1) /\ 1 - 1 \in rule.minPositionals..rule.positionals
        /\ \A k \in 1..(1 - 1) : args[k] \notin FlagShaped
        /\ 1 <= Len(args) => args[1] \in FlagShaped
    BY <2>1
  <2>3. heads \in SUBSET (1..(Len(args) + 1)) /\ 1 \in heads
    BY <2>1
  <2>4. \A i \in heads :
          \/ i = Len(args) + 1
          \/ i <= Len(args) /\ args[i] \in rule.flags /\ i + 1 \in heads
          \/ i < Len(args) /\ args[i] \in rule.valued /\ i + 2 \in heads
    BY <2>1
  <2> HIDE DEF heads
  <2>5. ValidArgs(rule, args)
    BY <2>2, <2>3, <2>4, ArgvPasses
  <2> QED BY <2>5 DEF args
<1>2. ValidArgs(rule, <<f, g, v>>)
  <2> DEFINE args == <<f, g, v>>
  <2>1. Len(args) = 3 /\ args[1] = f /\ args[2] = g /\ args[3] = v
    OBVIOUS
  <2> HIDE DEF args
  <2> DEFINE heads == {1, 2, 4}
  <2>2. /\ 1 \in 1..(Len(args) + 1) /\ 1 - 1 \in rule.minPositionals..rule.positionals
        /\ \A k \in 1..(1 - 1) : args[k] \notin FlagShaped
        /\ 1 <= Len(args) => args[1] \in FlagShaped
    BY <2>1
  <2>3. heads \in SUBSET (1..(Len(args) + 1)) /\ 1 \in heads
    BY <2>1
  <2>4. \A i \in heads :
          \/ i = Len(args) + 1
          \/ i <= Len(args) /\ args[i] \in rule.flags /\ i + 1 \in heads
          \/ i < Len(args) /\ args[i] \in rule.valued /\ i + 2 \in heads
    BY <2>1
  <2> HIDE DEF heads
  <2>5. ValidArgs(rule, args)
    BY <2>2, <2>3, <2>4, ArgvPasses
  <2> QED BY <2>5 DEF args
<1>3. ValidArgs(rule, <<g, v, f>>)
  <2> DEFINE args == <<g, v, f>>
  <2>1. Len(args) = 3 /\ args[1] = g /\ args[2] = v /\ args[3] = f
    OBVIOUS
  <2> HIDE DEF args
  <2> DEFINE heads == {1, 3, 4}
  <2>2. /\ 1 \in 1..(Len(args) + 1) /\ 1 - 1 \in rule.minPositionals..rule.positionals
        /\ \A k \in 1..(1 - 1) : args[k] \notin FlagShaped
        /\ 1 <= Len(args) => args[1] \in FlagShaped
    BY <2>1
  <2>3. heads \in SUBSET (1..(Len(args) + 1)) /\ 1 \in heads
    BY <2>1
  <2>4. \A i \in heads :
          \/ i = Len(args) + 1
          \/ i <= Len(args) /\ args[i] \in rule.flags /\ i + 1 \in heads
          \/ i < Len(args) /\ args[i] \in rule.valued /\ i + 2 \in heads
    BY <2>1
  <2> HIDE DEF heads
  <2>5. ValidArgs(rule, args)
    BY <2>2, <2>3, <2>4, ArgvPasses
  <2> QED BY <2>5 DEF args
<1> QED BY <1>1, <1>2, <1>3

\* A flag with its value and nothing else.
LEMMA KeyArgv ==
  ASSUME NEW rule, rule.minPositionals = 0, rule.positionals \in Nat,
         NEW g \in rule.valued, g \in FlagShaped, NEW v
  PROVE  /\ ValidArgs(rule, <<g, v>>)
<1>1. ValidArgs(rule, <<g, v>>)
  <2> DEFINE args == <<g, v>>
  <2>1. Len(args) = 2 /\ args[1] = g /\ args[2] = v
    OBVIOUS
  <2> HIDE DEF args
  <2> DEFINE heads == {1, 3}
  <2>2. /\ 1 \in 1..(Len(args) + 1) /\ 1 - 1 \in rule.minPositionals..rule.positionals
        /\ \A k \in 1..(1 - 1) : args[k] \notin FlagShaped
        /\ 1 <= Len(args) => args[1] \in FlagShaped
    BY <2>1
  <2>3. heads \in SUBSET (1..(Len(args) + 1)) /\ 1 \in heads
    BY <2>1
  <2>4. \A i \in heads :
          \/ i = Len(args) + 1
          \/ i <= Len(args) /\ args[i] \in rule.flags /\ i + 1 \in heads
          \/ i < Len(args) /\ args[i] \in rule.valued /\ i + 2 \in heads
    BY <2>1
  <2> HIDE DEF heads
  <2>5. ValidArgs(rule, args)
    BY <2>2, <2>3, <2>4, ArgvPasses
  <2> QED BY <2>5 DEF args
<1> QED BY <1>1

\* A positional, then a flag with its value.
LEMMA ArchiveArgv ==
  ASSUME NEW rule, rule.minPositionals = 0, rule.positionals = 1, NEW p, p \notin FlagShaped,
         NEW g \in rule.valued, g \in FlagShaped, NEW v
  PROVE  /\ ValidArgs(rule, <<p, g, v>>)
<1>1. ValidArgs(rule, <<p, g, v>>)
  <2> DEFINE args == <<p, g, v>>
  <2>1. Len(args) = 3 /\ args[1] = p /\ args[2] = g /\ args[3] = v
    OBVIOUS
  <2> HIDE DEF args
  <2> DEFINE heads == {2, 4}
  <2>2. /\ 2 \in 1..(Len(args) + 1) /\ 2 - 1 \in rule.minPositionals..rule.positionals
        /\ \A k \in 1..(2 - 1) : args[k] \notin FlagShaped
        /\ 2 <= Len(args) => args[2] \in FlagShaped
    BY <2>1
  <2>3. heads \in SUBSET (2..(Len(args) + 1)) /\ 2 \in heads
    BY <2>1
  <2>4. \A i \in heads :
          \/ i = Len(args) + 1
          \/ i <= Len(args) /\ args[i] \in rule.flags /\ i + 1 \in heads
          \/ i < Len(args) /\ args[i] \in rule.valued /\ i + 2 \in heads
    BY <2>1
  <2> HIDE DEF heads
  <2>5. ValidArgs(rule, args)
    BY <2>2, <2>3, <2>4, ArgvPasses
  <2> QED BY <2>5 DEF args
<1> QED BY <1>1

\* A positional, with and without a flag.
LEMMA PositionalArgvs ==
  ASSUME NEW rule, rule.minPositionals = 0, rule.positionals = 1, NEW p, p \notin FlagShaped,
         NEW f \in rule.flags, f \in FlagShaped
  PROVE  /\ ValidArgs(rule, <<p>>)
         /\ ValidArgs(rule, <<p, f>>)
<1>1. ValidArgs(rule, <<p>>)
  <2> DEFINE args == <<p>>
  <2>1. Len(args) = 1 /\ args[1] = p
    OBVIOUS
  <2> HIDE DEF args
  <2> DEFINE heads == {2}
  <2>2. /\ 2 \in 1..(Len(args) + 1) /\ 2 - 1 \in rule.minPositionals..rule.positionals
        /\ \A k \in 1..(2 - 1) : args[k] \notin FlagShaped
        /\ 2 <= Len(args) => args[2] \in FlagShaped
    BY <2>1
  <2>3. heads \in SUBSET (2..(Len(args) + 1)) /\ 2 \in heads
    BY <2>1
  <2>4. \A i \in heads :
          \/ i = Len(args) + 1
          \/ i <= Len(args) /\ args[i] \in rule.flags /\ i + 1 \in heads
          \/ i < Len(args) /\ args[i] \in rule.valued /\ i + 2 \in heads
    BY <2>1
  <2> HIDE DEF heads
  <2>5. ValidArgs(rule, args)
    BY <2>2, <2>3, <2>4, ArgvPasses
  <2> QED BY <2>5 DEF args
<1>2. ValidArgs(rule, <<p, f>>)
  <2> DEFINE args == <<p, f>>
  <2>1. Len(args) = 2 /\ args[1] = p /\ args[2] = f
    OBVIOUS
  <2> HIDE DEF args
  <2> DEFINE heads == {2, 3}
  <2>2. /\ 2 \in 1..(Len(args) + 1) /\ 2 - 1 \in rule.minPositionals..rule.positionals
        /\ \A k \in 1..(2 - 1) : args[k] \notin FlagShaped
        /\ 2 <= Len(args) => args[2] \in FlagShaped
    BY <2>1
  <2>3. heads \in SUBSET (2..(Len(args) + 1)) /\ 2 \in heads
    BY <2>1
  <2>4. \A i \in heads :
          \/ i = Len(args) + 1
          \/ i <= Len(args) /\ args[i] \in rule.flags /\ i + 1 \in heads
          \/ i < Len(args) /\ args[i] \in rule.valued /\ i + 2 \in heads
    BY <2>1
  <2> HIDE DEF heads
  <2>5. ValidArgs(rule, args)
    BY <2>2, <2>3, <2>4, ArgvPasses
  <2> QED BY <2>5 DEF args
<1> QED BY <1>1, <1>2

\* A positional, a flag, and flags with their values.
LEMMA LogArgvs ==
  ASSUME NEW rule, rule.minPositionals = 0, rule.positionals = 1, NEW p, p \notin FlagShaped,
         NEW f \in rule.flags, f \in FlagShaped, NEW g \in rule.valued, NEW h \in rule.valued,
         NEW v, NEW w
  PROVE  /\ ValidArgs(rule, <<p, f, g, v>>)
         /\ ValidArgs(rule, <<p, f, g, v, h, w>>)
<1>1. ValidArgs(rule, <<p, f, g, v>>)
  <2> DEFINE args == <<p, f, g, v>>
  <2>1. Len(args) = 4 /\ args[1] = p /\ args[2] = f /\ args[3] = g /\ args[4] = v
    OBVIOUS
  <2> HIDE DEF args
  <2> DEFINE heads == {2, 3, 5}
  <2>2. /\ 2 \in 1..(Len(args) + 1) /\ 2 - 1 \in rule.minPositionals..rule.positionals
        /\ \A k \in 1..(2 - 1) : args[k] \notin FlagShaped
        /\ 2 <= Len(args) => args[2] \in FlagShaped
    BY <2>1
  <2>3. heads \in SUBSET (2..(Len(args) + 1)) /\ 2 \in heads
    BY <2>1
  <2>4. \A i \in heads :
          \/ i = Len(args) + 1
          \/ i <= Len(args) /\ args[i] \in rule.flags /\ i + 1 \in heads
          \/ i < Len(args) /\ args[i] \in rule.valued /\ i + 2 \in heads
    BY <2>1
  <2> HIDE DEF heads
  <2>5. ValidArgs(rule, args)
    BY <2>2, <2>3, <2>4, ArgvPasses
  <2> QED BY <2>5 DEF args
<1>2. ValidArgs(rule, <<p, f, g, v, h, w>>)
  <2> DEFINE args == <<p, f, g, v, h, w>>
  <2>1. /\ Len(args) = 6 /\ args[1] = p /\ args[2] = f /\ args[3] = g /\ args[4] = v
        /\ args[5] = h /\ args[6] = w
    OBVIOUS
  <2> HIDE DEF args
  <2> DEFINE heads == {2, 3, 5, 7}
  <2>2. /\ 2 \in 1..(Len(args) + 1) /\ 2 - 1 \in rule.minPositionals..rule.positionals
        /\ \A k \in 1..(2 - 1) : args[k] \notin FlagShaped
        /\ 2 <= Len(args) => args[2] \in FlagShaped
    BY <2>1
  <2>3. heads \in SUBSET (2..(Len(args) + 1)) /\ 2 \in heads
    BY <2>1
  <2>4. \A i \in heads :
          \/ i = Len(args) + 1
          \/ i <= Len(args) /\ args[i] \in rule.flags /\ i + 1 \in heads
          \/ i < Len(args) /\ args[i] \in rule.valued /\ i + 2 \in heads
    BY <2>1
  <2> HIDE DEF heads
  <2>5. ValidArgs(rule, args)
    BY <2>2, <2>3, <2>4, ArgvPasses
  <2> QED BY <2>5 DEF args
<1> QED BY <1>1, <1>2

-----------------------------------------------------------------------------

\* A sequence that has the elements of two others in turn is their concatenation.
LEMMA Join ==
  ASSUME NEW X, NEW s \in Seq(X), NEW t \in Seq(X), NEW w \in Seq(X),
         Len(w) = Len(s) + Len(t),
         \A i \in 1..Len(s) : w[i] = s[i],
         \A i \in 1..Len(t) : w[Len(s) + i] = t[i]
  PROVE  s \o t = w
<1> DEFINE r == s \o t
<1>1. /\ r \in Seq(X) /\ Len(r) = Len(s) + Len(t)
      /\ \A i \in 1..(Len(s) + Len(t)) : r[i] = IF i <= Len(s) THEN s[i] ELSE t[i - Len(s)]
  BY ConcatProperties, Zenon
<1> HIDE DEF r
<1>2. ASSUME NEW i \in 1..Len(r) PROVE r[i] = w[i]
  <2>1. CASE i <= Len(s)
    BY <1>1, <2>1
  <2>2. CASE ~(i <= Len(s))
    <3>1. i - Len(s) \in 1..Len(t) /\ Len(s) + (i - Len(s)) = i
      BY <1>1, <2>2
    <3> QED BY <1>1, <2>2, <3>1
  <2> QED BY <2>1, <2>2
<1>3. r = w
  BY <1>1, <1>2, SeqEqual
<1> QED BY <1>3 DEF r

\* Short tuples, joined.
LEMMA JoinedTuples ==
  /\ \A a, b : <<a>> \o <<b>> = <<a, b>>
  /\ \A a, b, c : <<a>> \o <<b, c>> = <<a, b, c>>
  /\ \A a, b, c, d : <<a, b>> \o <<c, d>> = <<a, b, c, d>>
  /\ \A a, b, c, d, e, f : <<a, b, c, d>> \o <<e, f>> = <<a, b, c, d, e, f>>
<1>1. ASSUME NEW a, NEW b
      PROVE  <<a>> \o <<b>> = <<a, b>>
  <2> DEFINE X == {a, b}
             s == <<a>>
             t == <<b>>
             w == <<a, b>>
  <2>1. s \in Seq(X) /\ t \in Seq(X) /\ w \in Seq(X)
    OBVIOUS
  <2>2. Len(s) = 1 /\ s[1] = a
    OBVIOUS
  <2>3. Len(t) = 1 /\ t[1] = b
    OBVIOUS
  <2>4. Len(w) = 2 /\ w[1] = a /\ w[2] = b
    OBVIOUS
  <2> HIDE DEF X, s, t, w
  <2>5. Len(w) = Len(s) + Len(t) /\ \A i \in 1..Len(s) : w[i] = s[i]
    BY <2>2, <2>3, <2>4
  <2>6. \A i \in 1..Len(t) : w[Len(s) + i] = t[i]
    BY <2>2, <2>3, <2>4
  <2>7. s \o t = w
    BY <2>1, <2>5, <2>6, Join, Zenon
  <2> QED BY <2>7 DEF s, t, w
<1>2. ASSUME NEW a, NEW b, NEW c
      PROVE  <<a>> \o <<b, c>> = <<a, b, c>>
  <2> DEFINE X == {a, b, c}
             s == <<a>>
             t == <<b, c>>
             w == <<a, b, c>>
  <2>1. s \in Seq(X) /\ t \in Seq(X) /\ w \in Seq(X)
    OBVIOUS
  <2>2. Len(s) = 1 /\ s[1] = a
    OBVIOUS
  <2>3. Len(t) = 2 /\ t[1] = b /\ t[2] = c
    OBVIOUS
  <2>4. Len(w) = 3 /\ w[1] = a /\ w[2] = b /\ w[3] = c
    OBVIOUS
  <2> HIDE DEF X, s, t, w
  <2>5. Len(w) = Len(s) + Len(t) /\ \A i \in 1..Len(s) : w[i] = s[i]
    BY <2>2, <2>3, <2>4
  <2>6. \A i \in 1..Len(t) : w[Len(s) + i] = t[i]
    BY <2>2, <2>3, <2>4
  <2>7. s \o t = w
    BY <2>1, <2>5, <2>6, Join, Zenon
  <2> QED BY <2>7 DEF s, t, w
<1>3. ASSUME NEW a, NEW b, NEW c, NEW d
      PROVE  <<a, b>> \o <<c, d>> = <<a, b, c, d>>
  <2> DEFINE X == {a, b, c, d}
             s == <<a, b>>
             t == <<c, d>>
             w == <<a, b, c, d>>
  <2>1. s \in Seq(X) /\ t \in Seq(X) /\ w \in Seq(X)
    OBVIOUS
  <2>2. Len(s) = 2 /\ s[1] = a /\ s[2] = b
    OBVIOUS
  <2>3. Len(t) = 2 /\ t[1] = c /\ t[2] = d
    OBVIOUS
  <2>4. Len(w) = 4 /\ w[1] = a /\ w[2] = b /\ w[3] = c /\ w[4] = d
    OBVIOUS
  <2> HIDE DEF X, s, t, w
  <2>5. Len(w) = Len(s) + Len(t) /\ \A i \in 1..Len(s) : w[i] = s[i]
    BY <2>2, <2>3, <2>4
  <2>6. \A i \in 1..Len(t) : w[Len(s) + i] = t[i]
    BY <2>2, <2>3, <2>4
  <2>7. s \o t = w
    BY <2>1, <2>5, <2>6, Join, Zenon
  <2> QED BY <2>7 DEF s, t, w
<1>4. ASSUME NEW a, NEW b, NEW c, NEW d, NEW e, NEW f
      PROVE  <<a, b, c, d>> \o <<e, f>> = <<a, b, c, d, e, f>>
  <2> DEFINE X == {a, b, c, d, e, f}
             s == <<a, b, c, d>>
             t == <<e, f>>
             w == <<a, b, c, d, e, f>>
  <2>1. s \in Seq(X) /\ t \in Seq(X) /\ w \in Seq(X)
    OBVIOUS
  <2>2. Len(s) = 4 /\ s[1] = a /\ s[2] = b /\ s[3] = c /\ s[4] = d
    OBVIOUS
  <2>3. Len(t) = 2 /\ t[1] = e /\ t[2] = f
    OBVIOUS
  <2>4. Len(w) = 6 /\ w[1] = a /\ w[2] = b /\ w[3] = c /\ w[4] = d /\ w[5] = e /\ w[6] = f
    OBVIOUS
  <2> HIDE DEF X, s, t, w
  <2>5. Len(w) = Len(s) + Len(t) /\ \A i \in 1..Len(s) : w[i] = s[i]
    BY <2>2, <2>3, <2>4
  <2>6. \A i \in 1..Len(t) : w[Len(s) + i] = t[i]
    BY <2>2, <2>3, <2>4
  <2>7. s \o t = w
    BY <2>1, <2>5, <2>6, Join, Zenon
  <2> QED BY <2>7 DEF s, t, w
<1> QED BY <1>1, <1>2, <1>3, <1>4, Zenon

\* The rule of a subcommand, field by field.
HasRule(sub, max, flags, valued, mutating, stdinSecret) ==
  /\ sub \in AllowedCommands
  /\ RuleOf(sub).minPositionals = 0 /\ RuleOf(sub).positionals = max
  /\ RuleOf(sub).flags = flags /\ RuleOf(sub).valued = valued
  /\ RuleOf(sub).mutating = mutating /\ RuleOf(sub).stdinSecret = stdinSecret

\* The rows of allowedArgv that the public commands use.
LEMMA PublicRules ==
  /\ HasRule("status", 0, {}, {}, FALSE, FALSE)
  /\ HasRule("network validate", 0, {}, {}, FALSE, FALSE)
  /\ HasRule("public-address configure", 1, {"--no-restart"}, {}, TRUE, FALSE)
  /\ HasRule("gateway register-local", 0, {"--password-stdin"}, {"--username"}, TRUE, TRUE)
  /\ HasRule("credentials bootstrap", 0, {}, {}, TRUE, FALSE)
  /\ HasRule("diagnostics create", 0, {"--redact"}, {"--output"}, TRUE, FALSE)
  /\ HasRule("logs", 1, {"--redact"}, {"--since", "--lines"}, TRUE, FALSE)
  /\ HasRule("backup key-create", 0, {}, {"--key-file"}, TRUE, FALSE)
  /\ HasRule("backup create", 1, {}, {"--key-file"}, TRUE, FALSE)
  /\ HasRule("backup verify", 1, {}, {"--key-file"}, TRUE, FALSE)
<1>1. ASSUME NEW sub \in AllowedCommands, NEW max, NEW flags, NEW valued, NEW mutating,
             NEW stdinSecret, RuleOf(sub) = Rule(0, max, flags, valued, mutating, stdinSecret)
      PROVE  HasRule(sub, max, flags, valued, mutating, stdinSecret)
  <2>1. /\ RuleOf(sub).minPositionals = 0 /\ RuleOf(sub).positionals = max
        /\ RuleOf(sub).flags = flags /\ RuleOf(sub).valued = valued
        /\ RuleOf(sub).mutating = mutating /\ RuleOf(sub).stdinSecret = stdinSecret
    BY <1>1 DEF Rule
  <2> QED BY <2>1, Zenon DEF HasRule
<1>2. HasRule("status", 0, {}, {}, FALSE, FALSE)
  <2>1. /\ "status" \in AllowedCommands
        /\ RuleOf("status") = Rule(0, 0, {}, {}, FALSE, FALSE)
    BY Zenon DEF AllowedCommands, RuleOf
  <2> QED BY <1>1, <2>1, Zenon
<1>3. HasRule("network validate", 0, {}, {}, FALSE, FALSE)
  <2>1. /\ "network validate" \in AllowedCommands
        /\ RuleOf("network validate") = Rule(0, 0, {}, {}, FALSE, FALSE)
    BY Zenon DEF AllowedCommands, RuleOf
  <2> QED BY <1>1, <2>1, Zenon
<1>4. HasRule("public-address configure", 1, {"--no-restart"}, {}, TRUE, FALSE)
  <2>1. /\ "public-address configure" \in AllowedCommands
        /\ RuleOf("public-address configure") = Rule(0, 1, {"--no-restart"}, {}, TRUE, FALSE)
    BY Zenon DEF AllowedCommands, RuleOf
  <2> QED BY <1>1, <2>1, Zenon
<1>5. HasRule("gateway register-local", 0, {"--password-stdin"}, {"--username"}, TRUE, TRUE)
  <2>1. /\ "gateway register-local" \in AllowedCommands
        /\ RuleOf("gateway register-local") = Rule(0, 0, {"--password-stdin"}, {"--username"}, TRUE, TRUE)
    BY Zenon DEF AllowedCommands, RuleOf
  <2> QED BY <1>1, <2>1, Zenon
<1>6. HasRule("credentials bootstrap", 0, {}, {}, TRUE, FALSE)
  <2>1. /\ "credentials bootstrap" \in AllowedCommands
        /\ RuleOf("credentials bootstrap") = Rule(0, 0, {}, {}, TRUE, FALSE)
    BY Zenon DEF AllowedCommands, RuleOf
  <2> QED BY <1>1, <2>1, Zenon
<1>7. HasRule("diagnostics create", 0, {"--redact"}, {"--output"}, TRUE, FALSE)
  <2>1. /\ "diagnostics create" \in AllowedCommands
        /\ RuleOf("diagnostics create") = Rule(0, 0, {"--redact"}, {"--output"}, TRUE, FALSE)
    BY Zenon DEF AllowedCommands, RuleOf
  <2> QED BY <1>1, <2>1, Zenon
<1>8. HasRule("logs", 1, {"--redact"}, {"--since", "--lines"}, TRUE, FALSE)
  <2>1. /\ "logs" \in AllowedCommands
        /\ RuleOf("logs") = Rule(0, 1, {"--redact"}, {"--since", "--lines"}, TRUE, FALSE)
    BY Zenon DEF AllowedCommands, RuleOf
  <2> QED BY <1>1, <2>1, Zenon
<1>9. HasRule("backup key-create", 0, {}, {"--key-file"}, TRUE, FALSE)
  <2>1. /\ "backup key-create" \in AllowedCommands
        /\ RuleOf("backup key-create") = Rule(0, 0, {}, {"--key-file"}, TRUE, FALSE)
    BY Zenon DEF AllowedCommands, RuleOf
  <2> QED BY <1>1, <2>1, Zenon
<1>10. HasRule("backup create", 1, {}, {"--key-file"}, TRUE, FALSE)
  <2>1. /\ "backup create" \in AllowedCommands
        /\ RuleOf("backup create") = Rule(0, 1, {}, {"--key-file"}, TRUE, FALSE)
    BY Zenon DEF AllowedCommands, RuleOf
  <2> QED BY <1>1, <2>1, Zenon
<1>11. HasRule("backup verify", 1, {}, {"--key-file"}, TRUE, FALSE)
  <2>1. /\ "backup verify" \in AllowedCommands
        /\ RuleOf("backup verify") = Rule(0, 1, {}, {"--key-file"}, TRUE, FALSE)
    BY Zenon DEF AllowedCommands, RuleOf
  <2> QED BY <1>1, <2>1, Zenon
<1> QED BY <1>2, <1>3, <1>4, <1>5, <1>6, <1>7, <1>8, <1>9, <1>10, <1>11, Zenon

\* status and network validate dispatch no arguments.
LEMMA ReadsAgree ==
  ASSUME NEW json
  PROVE  Agrees(StatusCmd(json)) /\ Agrees(NetworkValidateCmd(json))
<1>1. ASSUME NEW sub, HasRule(sub, 0, {}, {}, FALSE, FALSE)
      PROVE  Agrees(Dispatch(sub, <<>>, FALSE, json, FALSE))
  <2>1. ValidArgs(RuleOf(sub), <<>>)
    BY <1>1, NoArguments DEF HasRule
  <2> QED BY <1>1, <2>1, DispatchAgrees, Zenon DEF HasRule
<1> QED BY <1>1, PublicRules, Zenon DEF StatusCmd, NetworkValidateCmd

\* public-address configure dispatches a canonical address and --no-restart.
LEMMA PublicAddressAgrees ==
  ASSUME NEW addr, NEW noRestart, NEW json
  PROVE  Agrees(PublicAddressCmd(addr, noRestart, json))
<1> DEFINE sub  == "public-address configure"
           args == <<addr>> \o (IF noRestart THEN <<"--no-restart">> ELSE <<>>)
<1>1. HasRule(sub, 1, {"--no-restart"}, {}, TRUE, FALSE)
  BY PublicRules, Zenon
<1> HIDE DEF sub
<1>2. CASE addr \notin CanonicalIPv4
  BY <1>2, UsageAgrees, Zenon DEF PublicAddressCmd
<1>3. CASE addr \in CanonicalIPv4
  <2>1. addr \notin FlagShaped /\ "--no-restart" \in FlagShaped
    BY <1>3 DEF CanonicalIPv4, FlagShaped
  <2>2. ValidArgs(RuleOf(sub), <<addr>>) /\ ValidArgs(RuleOf(sub), <<addr, "--no-restart">>)
    BY <1>1, <2>1, PositionalArgvs DEF HasRule
  <2>3. args \in {<<addr>>, <<addr, "--no-restart">>}
    <3>1. <<addr>> \o <<>> = <<addr>>
      OBVIOUS
    <3>2. <<addr>> \o <<"--no-restart">> = <<addr, "--no-restart">>
      BY JoinedTuples, Zenon
    <3> QED BY <3>1, <3>2, Zenon
  <2>4. ValidArgs(RuleOf(sub), args)
    BY <2>2, <2>3, Zenon
  <2>5. Agrees(Dispatch(sub, args, FALSE, json, TRUE))
    BY <1>1, <2>4, DispatchAgrees, Zenon DEF HasRule
  <2> QED BY <1>3, <2>5, Zenon DEF PublicAddressCmd, sub
<1> QED BY <1>2, <1>3

\* gateway register-local hands the password over on stdin.
LEMMA GatewayRegisterAgrees ==
  ASSUME NEW username, NEW passwordFile, NEW file, NEW json
  PROVE  Agrees(GatewayRegisterCmd(username, passwordFile, file, json))
<1> DEFINE sub  == "gateway register-local"
           args == <<"--username", username, "--password-stdin">>
<1>1. HasRule(sub, 0, {"--password-stdin"}, {"--username"}, TRUE, TRUE)
  BY PublicRules, Zenon
<1> HIDE DEF sub
<1>2. "--password-stdin" \in FlagShaped /\ "--username" \in FlagShaped
  BY DEF FlagShaped
<1>3. ValidArgs(RuleOf(sub), args)
  <2>1. /\ RuleOf(sub).minPositionals = 0 /\ RuleOf(sub).positionals \in Nat
        /\ "--password-stdin" \in RuleOf(sub).flags /\ "--username" \in RuleOf(sub).valued
    BY <1>1 DEF HasRule
  <2> QED BY <1>2, <2>1, FlagArgvs, Zenon
<1>4. Agrees(Dispatch(sub, args, TRUE, json, TRUE))
  BY <1>1, <1>3, DispatchAgrees, Zenon DEF HasRule
<1> QED BY <1>4, UsageAgrees, SecretChecksAgree, Zenon DEF GatewayRegisterCmd, sub

\* credentials bootstrap dispatches no arguments.
LEMMA CredentialsAgrees ==
  ASSUME NEW terminal, NEW json
  PROVE  Agrees(CredentialsCmd(terminal, json))
<1> DEFINE sub == "credentials bootstrap"
<1>1. HasRule(sub, 0, {}, {}, TRUE, FALSE)
  BY PublicRules, Zenon
<1> HIDE DEF sub
<1>2. ValidArgs(RuleOf(sub), <<>>)
  BY <1>1, NoArguments DEF HasRule
<1>3. Agrees(Dispatch(sub, <<>>, FALSE, FALSE, TRUE))
  BY <1>1, <1>2, DispatchAgrees, Zenon DEF HasRule
<1>4. Agrees(Refuse(Precondition, "console-required"))
  BY RefusalAgrees DEF OK, Precondition, NotAllowlisted
<1> QED BY <1>3, <1>4, UsageAgrees, Zenon DEF CredentialsCmd, sub

\* diagnostics create dispatches --redact and, if given, the archive path.
LEMMA DiagnosticsAgrees ==
  ASSUME NEW redact, NEW output, NEW json
  PROVE  Agrees(DiagnosticsCmd(redact, output, json))
<1> DEFINE sub    == "diagnostics create"
           format == output = "json"
           path   == IF format THEN Unset ELSE output
           args   == <<"--redact">> \o (IF path = Unset THEN <<>> ELSE <<"--output", path>>)
<1>1. HasRule(sub, 0, {"--redact"}, {"--output"}, TRUE, FALSE)
  BY PublicRules, Zenon
<1> HIDE DEF sub, path
<1>2. "--redact" \in FlagShaped /\ "--output" \in FlagShaped
  BY DEF FlagShaped
<1>3. /\ ValidArgs(RuleOf(sub), <<"--redact">>)
      /\ ValidArgs(RuleOf(sub), <<"--redact", "--output", path>>)
  <2>1. /\ RuleOf(sub).minPositionals = 0 /\ RuleOf(sub).positionals \in Nat
        /\ "--redact" \in RuleOf(sub).flags /\ "--output" \in RuleOf(sub).valued
    BY <1>1 DEF HasRule
  <2> QED BY <1>2, <2>1, FlagArgvs, Zenon
<1>4. args \in {<<"--redact">>, <<"--redact", "--output", path>>}
  <2>1. <<"--redact">> \o <<>> = <<"--redact">>
    OBVIOUS
  <2>2. <<"--redact">> \o <<"--output", path>> = <<"--redact", "--output", path>>
    BY JoinedTuples, Zenon
  <2> QED BY <2>1, <2>2, Zenon
<1>5. ValidArgs(RuleOf(sub), args)
  BY <1>3, <1>4, Zenon
<1>6. Agrees(Dispatch(sub, args, FALSE, json \/ format, TRUE))
  BY <1>1, <1>5, DispatchAgrees, Zenon DEF HasRule
<1> QED BY <1>6, UsageAgrees, Zenon DEF DiagnosticsCmd, sub, path

\* logs dispatches its component, --redact and the bounds that were given.
LEMMA LogsAgrees ==
  ASSUME NEW component, NEW redact, NEW since, NEW lines, NEW json
  PROVE  Agrees(LogsCmd(component, redact, since, lines, json))
<1> DEFINE sub  == "logs"
           args == <<component, "--redact">>
                     \o (IF since = "absent" THEN <<>> ELSE <<"--since", since>>)
                     \o (IF lines = 0 THEN <<>> ELSE <<"--lines", "n">>)
<1>1. HasRule(sub, 1, {"--redact"}, {"--since", "--lines"}, TRUE, FALSE)
  BY PublicRules, Zenon
<1> HIDE DEF sub
<1>2. CASE component \in LogComponents
  <2>1. component \notin FlagShaped /\ "--redact" \in FlagShaped
    BY <1>2 DEF LogComponents, FlagShaped
  <2>2. /\ ValidArgs(RuleOf(sub), <<component, "--redact">>)
        /\ ValidArgs(RuleOf(sub), <<component, "--redact", "--since", since>>)
        /\ ValidArgs(RuleOf(sub), <<component, "--redact", "--lines", "n">>)
        /\ ValidArgs(RuleOf(sub), <<component, "--redact", "--since", since, "--lines", "n">>)
    BY <1>1, <2>1, PositionalArgvs, LogArgvs DEF HasRule
  <2>3. args \in {<<component, "--redact">>,
                  <<component, "--redact", "--since", since>>,
                  <<component, "--redact", "--lines", "n">>,
                  <<component, "--redact", "--since", since, "--lines", "n">>}
    <3> DEFINE front == <<component, "--redact">>
    <3>1. front \o <<>> = front
      OBVIOUS
    <3>2. front \o <<"--since", since>> = <<component, "--redact", "--since", since>>
      BY JoinedTuples, Zenon
    <3>3. front \o <<"--lines", "n">> = <<component, "--redact", "--lines", "n">>
      BY JoinedTuples, Zenon
    <3>4. <<component, "--redact", "--since", since>> \o <<>>
            = <<component, "--redact", "--since", since>>
      OBVIOUS
    <3>5. <<component, "--redact", "--since", since>> \o <<"--lines", "n">>
            = <<component, "--redact", "--since", since, "--lines", "n">>
      BY JoinedTuples
    <3> QED BY <3>1, <3>2, <3>3, <3>4, <3>5, Zenon
  <2>4. ValidArgs(RuleOf(sub), args)
    BY <2>2, <2>3, Zenon
  <2>5. Agrees(Dispatch(sub, args, FALSE, json, TRUE))
    BY <1>1, <2>4, DispatchAgrees, Zenon DEF HasRule
  <2> QED BY <2>5, UsageAgrees, Zenon DEF LogsCmd, sub
<1>3. CASE component \notin LogComponents
  BY <1>3, UsageAgrees, Zenon DEF LogsCmd
<1> QED BY <1>2, <1>3

\* backup key-create dispatches the key file.
LEMMA BackupKeyCreateAgrees ==
  ASSUME NEW keyFile, NEW file, NEW json
  PROVE  Agrees(BackupKeyCreateCmd(keyFile, file, json))
<1> DEFINE sub == "backup key-create"
<1>1. HasRule(sub, 0, {}, {"--key-file"}, TRUE, FALSE)
  BY PublicRules, Zenon
<1> HIDE DEF sub
<1>2. "--key-file" \in FlagShaped
  BY DEF FlagShaped
<1>3. ValidArgs(RuleOf(sub), <<"--key-file", keyFile>>)
  BY <1>1, <1>2, KeyArgv DEF HasRule
<1>4. Agrees(Dispatch(sub, <<"--key-file", keyFile>>, FALSE, json, TRUE))
  BY <1>1, <1>3, DispatchAgrees, Zenon DEF HasRule
<1>5. Agrees(Refuse(Precondition, "secret-file-refused"))
  BY RefusalAgrees DEF OK, Precondition, NotAllowlisted
<1> QED BY <1>4, <1>5, UsageAgrees, Zenon DEF BackupKeyCreateCmd, sub

\* backup create and backup verify dispatch the archive and the key file.
LEMMA BackupArchiveAgrees ==
  ASSUME NEW sub, HasRule(sub, 1, {}, {"--key-file"}, TRUE, FALSE),
         NEW archive, NEW keyFile, NEW file, NEW json
  PROVE  Agrees(BackupArchiveCmd(sub, archive, keyFile, file, json))
<1>1. CASE archive \in Absolute
  <2>1. archive \notin FlagShaped /\ "--key-file" \in FlagShaped
    BY <1>1 DEF Absolute, FlagShaped
  <2>2. ValidArgs(RuleOf(sub), <<archive, "--key-file", keyFile>>)
    BY <2>1, ArchiveArgv DEF HasRule
  <2>3. Agrees(Dispatch(sub, <<archive, "--key-file", keyFile>>, FALSE, json, TRUE))
    BY <2>2, DispatchAgrees, Zenon DEF HasRule
  <2> QED BY <2>3, UsageAgrees, SecretChecksAgree, Zenon DEF BackupArchiveCmd
<1>2. CASE archive \notin Absolute
  BY <1>2, UsageAgrees, Zenon DEF BackupArchiveCmd
<1> QED BY <1>1, <1>2

\* backup create and backup verify have the same rule.
LEMMA ArchivesHaveRule ==
  \A sub \in ArchiveCommands : HasRule(sub, 1, {}, {"--key-file"}, TRUE, FALSE)
BY PublicRules, Zenon DEF ArchiveCommands

\* Every public command refuses by itself or builds an argv the allowlist
\* passes, whatever its arguments and files are (cmd/appliance, allowedArgv).
LEMMA PublicCommandsAgree == \A c \in PublicCommands : Agrees(c)
<1> SUFFICES ASSUME NEW c \in PublicCommands PROVE Agrees(c)
  OBVIOUS
<1>1. PICK j \in BOOLEAN :
        \/ c \in {StatusCmd(j), NetworkValidateCmd(j)}
        \/ c \in {PublicAddressCmd(a, n, j) : a \in Tokens, n \in BOOLEAN}
        \/ c \in {GatewayRegisterCmd(u, p, f, j) : u, p \in Tokens, f \in FileStates}
        \/ c \in {CredentialsCmd(t, j) : t \in BOOLEAN}
        \/ c \in {DiagnosticsCmd(r, o, j) : r \in BOOLEAN, o \in Tokens}
        \/ c \in {LogsCmd(l, r, s, n, j) : l \in Tokens, r \in BOOLEAN,
                   s \in {"absent", "1h", "invalid"},
                   n \in {-1, 0, 1, MaxLogLines, MaxLogLines + 1}}
        \/ c \in {BackupKeyCreateCmd(k, f, j) : k \in Tokens, f \in FileStates}
        \/ c \in {BackupArchiveCmd(s, a, k, f, j) : s \in ArchiveCommands,
                   a, k \in Tokens, f \in FileStates}
  BY DEF PublicCommands
<1>2. CASE c \in {StatusCmd(j), NetworkValidateCmd(j)}
  BY <1>2, ReadsAgree
<1>3. CASE c \in {PublicAddressCmd(a, n, j) : a \in Tokens, n \in BOOLEAN}
  BY <1>3, PublicAddressAgrees
<1>4. CASE c \in {GatewayRegisterCmd(u, p, f, j) : u, p \in Tokens, f \in FileStates}
  BY <1>4, GatewayRegisterAgrees
<1>5. CASE c \in {CredentialsCmd(t, j) : t \in BOOLEAN}
  BY <1>5, CredentialsAgrees
<1>6. CASE c \in {DiagnosticsCmd(r, o, j) : r \in BOOLEAN, o \in Tokens}
  BY <1>6, DiagnosticsAgrees
<1>7. CASE c \in {LogsCmd(l, r, s, n, j) : l \in Tokens, r \in BOOLEAN,
                   s \in {"absent", "1h", "invalid"},
                   n \in {-1, 0, 1, MaxLogLines, MaxLogLines + 1}}
  BY <1>7, LogsAgrees
<1>8. CASE c \in {BackupKeyCreateCmd(k, f, j) : k \in Tokens, f \in FileStates}
  BY <1>8, BackupKeyCreateAgrees
<1>9. CASE c \in {BackupArchiveCmd(s, a, k, f, j) : s \in ArchiveCommands,
                   a, k \in Tokens, f \in FileStates}
  <2>1. PICK s \in ArchiveCommands, a \in Tokens, k \in Tokens, f \in FileStates :
          c = BackupArchiveCmd(s, a, k, f, j)
    BY <1>9
  <2> QED BY <2>1, ArchivesHaveRule, BackupArchiveAgrees, Zenon
<1> QED BY <1>1, <1>2, <1>3, <1>4, <1>5, <1>6, <1>7, <1>8, <1>9

\* Only the allowlist says that an argv is not allowlisted.
ArgvInv ==
  /\ hs.comp # NotAllowlisted
  /\ verdict.comp = NotAllowlisted => ~Agrees(cmd)

\* Neither the handshake nor the operation ends with the verdict of the allowlist.
LEMMA VerdictsAreNotRefusals ==
  ASSUME NEW r
  PROVE  /\ HandshakeVerdict(r).comp # NotAllowlisted
         /\ RunFailure(r).comp # NotAllowlisted
         /\ BackendOutcome(r).comp # NotAllowlisted
<1>1. RunFailure(r).comp # NotAllowlisted
  BY DEF RunFailure, Fails, Verdict, NotAllowlisted
<1>2. HandshakeVerdict(r).comp # NotAllowlisted
  BY <1>1 DEF HandshakeVerdict, ApprovedContractErrors, ContractViolation, Fails, Verdict,
              NotAllowlisted
<1>3. BackendOutcome(r).comp # NotAllowlisted
  BY DEF BackendOutcome, JSONOutcome, PlainOutcome, Fails, Verdict, NotAllowlisted
<1> QED BY <1>1, <1>2, <1>3

\* Every argv a public command builds passes the adapter's allowlist: exit 6
\* for an argv is never the answer to a command the operator can type
\* (mutating.go, allowedArgv, validateRequest).
THEOREM PublicAllowed == Spec => []PublicCommandsStayInAllowlist
<1>1. Init => ArgvInv
  BY DEF Init, ArgvInv, NoVerdict, Verdict, NotAllowlisted
<1>2. ArgvInv /\ [Next]_vars => ArgvInv'
  <2> SUFFICES ASSUME ArgvInv, [Next]_vars PROVE ArgvInv'
    OBVIOUS
  <2>1. cmd' = cmd /\ (Agrees(cmd)' <=> Agrees(cmd))
    BY Zenon DEF Next, vars, runVars, Agrees, CheckArguments, DeadlinePasses, SpawnBackend,
       HandshakeEnds, OperationEnds, OperationTouches, RunReturns, HandshakeReturns,
       OperationReturns
  <2>2. CASE CheckArguments
    BY <2>1, <2>2 DEF CheckArguments, Finish, Fails, Verdict, ArgvInv, Agrees, NotAllowlisted
  <2>3. CASE HandshakeReturns
    BY <2>1, <2>3, VerdictsAreNotRefusals
       DEF HandshakeReturns, GoOn, StopWith, Finish, ContractViolation, Fails, Verdict, ArgvInv, NotAllowlisted
  <2>4. CASE OperationReturns
    BY <2>1, <2>4, VerdictsAreNotRefusals DEF OperationReturns, Ending, OutputFailed,
       Fails, Verdict, Finish, ArgvInv, NotAllowlisted
  <2>5. CASE UNCHANGED <<hs, verdict>>
    BY <2>1, <2>5 DEF ArgvInv
  <2> QED BY <2>2, <2>3, <2>4, <2>5
          DEF Next, vars, DeadlinePasses, SpawnBackend, HandshakeEnds, OperationEnds,
              OperationTouches, RunReturns
<1>3. ArgvInv => PublicCommandsStayInAllowlist
  BY PublicCommandsAgree DEF ArgvInv, PublicCommandsStayInAllowlist, NotAllowlisted
<1> QED BY <1>1, <1>2, <1>3, PTL DEF Spec

=============================================================================
