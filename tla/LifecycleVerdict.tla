-------------------------- MODULE LifecycleVerdict --------------------------
(***************************************************************************)
(* How the config-lifecycle commands read a gateway answer: the verdicts   *)
(* of pkg/api/configlifecycle.go and pkg/api/lifecyclereport.go and the    *)
(* decoding of cmd/lifecycle.  An answer is a status and a body; a body is *)
(* reduced to the fields a verdict reads.                                  *)
(***************************************************************************)
EXTENDS ExitCode

\* "garbage" does not parse.  "object" is JSON that is not the documented
\* body: every field the CLI looks for is absent, except that an error
\* envelope may carry a text of its own in `result'.
Garbage        == [kind |-> "garbage"]
Object(result) == [kind |-> "object", result |-> result]

PersistBody(result, identity) ==
  [kind |-> "persist", result |-> result, identity |-> identity]

\* A failed dependency is reduced to `deps', the plan to `schema'.
RestoreBody(mode, schema, deps, compatible, result, persisted, errors) ==
  [kind |-> "restore", mode |-> mode, schema |-> schema, deps |-> deps,
   compatible |-> compatible, result |-> result, persisted |-> persisted, errors |-> errors]

MaintenanceBody == [kind |-> "maintenance"]
NoContent       == [kind |-> "nocontent"]

Answer(status, body) == [status |-> status, body |-> body]

-----------------------------------------------------------------------------

\* Mutant: a reason of its own, unknown to the taxonomy, for a proxy's answer.
ReasonForStatusProxy(status) ==
  CASE status = 401        -> "unauthorized"
    [] status = 409        -> "operation-in-progress"
    [] status = 503        -> "maintenance-mode"
    [] status = 502        -> "proxy-error"
    [] OTHER               -> "bad-request"

ReasonForStatus(status) ==
  CASE status = 401                    -> "unauthorized"
    [] status = 409                    -> "operation-in-progress"
    [] status = 503                    -> "maintenance-mode"
    [] status >= 500 /\ status # 503   -> "server-error"
    [] OTHER                           -> "bad-request"

\* PersistResult.Verdict.  `identity' stands for schema version, generation,
\* path and checksum, which --strict requires together.
PersistVerdict(r, strict) ==
  IF r.result # "ok" THEN "result-not-ok"
  ELSE IF strict /\ ~r.identity THEN "contract-legacy"
  ELSE "ok"

DecodePersist(body) ==
  IF body.kind = "persist" THEN body ELSE PersistBody(body.result, FALSE)

\* doPersist after the body is read.
PersistReason(a, strict) ==
  IF a.status # 200 THEN ReasonForStatus(a.status)
  ELSE IF a.body = Garbage THEN "decode-failed"
  ELSE PersistVerdict(DecodePersist(a.body), strict)

\* RestoreResult.Capabilities
Durable(r) ==
  IF r.mode = "commit" /\ r.result = "ok"
  THEN r.persisted # "absent"
  ELSE r.schema /\ r.compatible # "absent"

\* Mutant: the errors are judged before the write-through.
RestoreVerdictErrorsFirst(r, strict) ==
  IF r.deps THEN "dependency-failed"
  ELSE IF r.compatible = "no" THEN "incompatible-snapshot"
  ELSE IF r.result = "ROLLBACK-FAILED" THEN "rollback-failed"
  ELSE IF r.result = "rolled-back" THEN "rolled-back"
  ELSE IF r.errors THEN "validation-failed"
  ELSE IF r.mode = "commit" /\ r.result # "ok" THEN "result-not-ok"
  ELSE IF r.mode = "commit" /\ r.persisted = "no" THEN "not-persisted"
  ELSE IF strict /\ ~Durable(r) THEN "contract-legacy"
  ELSE "ok"

\* Mutant: a failed write-through is not looked at.
RestoreVerdictApplied(r, strict) ==
  IF r.deps THEN "dependency-failed"
  ELSE IF r.compatible = "no" THEN "incompatible-snapshot"
  ELSE IF r.result = "ROLLBACK-FAILED" THEN "rollback-failed"
  ELSE IF r.result = "rolled-back" THEN "rolled-back"
  ELSE IF r.mode = "commit" THEN (IF r.result # "ok" THEN "result-not-ok" ELSE "ok")
  ELSE IF r.errors THEN "validation-failed"
  ELSE IF strict /\ ~Durable(r) THEN "contract-legacy"
  ELSE "ok"

\* RestoreResult.Verdict
RestoreVerdict(r, strict) ==
  IF r.deps THEN "dependency-failed"
  ELSE IF r.compatible = "no" THEN "incompatible-snapshot"
  ELSE IF r.result = "ROLLBACK-FAILED" THEN "rollback-failed"
  ELSE IF r.result = "rolled-back" THEN "rolled-back"
  ELSE IF r.mode = "commit" /\ r.result # "ok" THEN "result-not-ok"
  ELSE IF r.mode = "commit" /\ r.persisted = "no" THEN "not-persisted"
  ELSE IF r.errors THEN "validation-failed"
  ELSE IF strict /\ ~Durable(r) THEN "contract-legacy"
  ELSE "ok"

DecodeRestore(body) ==
  IF body.kind = "restore" THEN body
  ELSE RestoreBody("absent", FALSE, FALSE, "absent", body.result, "absent", FALSE)

\* Mutant: whatever decodes is a restore result.
LooksLikeAnything(r) == TRUE

LooksLikeRestoreResult(r) ==
  \/ r.mode # "absent" \/ r.result # "absent" \/ r.schema
  \/ r.compatible # "absent" \/ r.errors

\* doRestore after the body is read: the body decides first, and a non-2xx
\* never becomes a success.
RestoreReason(a, commit, strict) ==
  LET notResult == a.body = Garbage \/ ~LooksLikeRestoreResult(DecodeRestore(a.body))
      r         == DecodeRestore(a.body)
      judged    == [r EXCEPT !.mode = IF @ # "absent" THEN @ ELSE IF commit THEN "commit" ELSE "dry-run"]
      ok2xx     == a.status \in 200..299
  IN  IF notResult
      THEN IF ok2xx THEN "decode-failed" ELSE ReasonForStatus(a.status)
      ELSE IF RestoreVerdict(judged, strict) = "ok" /\ ~ok2xx
           THEN ReasonForStatus(a.status)
           ELSE RestoreVerdict(judged, strict)

\* decodeMaintenance
MaintenanceReason(a) ==
  IF a.status # 200 THEN ReasonForStatus(a.status)
  ELSE IF a.body.kind # "maintenance" THEN "decode-failed"
  ELSE "ok"

\* Mutant: 200 is expected where the endpoint answers 204.
SinkReasonOK(a) == IF a.status # 200 THEN ReasonForStatus(a.status) ELSE "ok"

\* AuditSinkSet, AuditNamedSinkSet and AuditNamedSinkDelete
SinkReason(a) == IF a.status # 204 THEN ReasonForStatus(a.status) ELSE "ok"

=============================================================================
