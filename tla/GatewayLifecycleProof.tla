----------------------- MODULE GatewayLifecycleProof -----------------------
(***************************************************************************)
(* The config-lifecycle commands, for any set of concurrent invocations:   *)
(* what a client reports agrees with what the gateway did for it.          *)
(***************************************************************************)
EXTENDS GatewayLifecycle, TLAPS

\* The effects that a reported success stands for.
Confirmed(o) ==
  CASE o.cmd = "persist"                   -> {"saved"}
    [] o.cmd = "restore" /\ ~Commit(o)     -> {"planned"}
    [] Commit(o)                           -> {"durable", "volatile"}
    [] OTHER                               -> {"set"}

Refusals ==
  {"invalid-arguments", "file-read-failed", "invalid-json", "unauthorized",
   "operation-in-progress", "maintenance-mode", "bad-request", "rolled-back",
   "dependency-failed", "incompatible-snapshot", "validation-failed"}

HalfApplied(a, e) ==
  /\ a.body.kind = "restore"
  /\ e = "mixed" \/ (e = "volatile" /\ a.body.persisted = "no")

\* The reason r read off answer a is one that effect e of invocation o allows.
Allows(o, a, e, r) ==
  /\ r \in Reasons \ {"none"}
  /\ r = "ok" => e \in Confirmed(o)
  /\ r \in Refusals => e = "none"
  /\ HalfApplied(a, e) => r \in ReasonsOf(Partial)
  /\ r = "ok" /\ Commit(o) /\ (o.strict \/ a.body.persisted # "absent") => e = "durable"

\* An answer fits the effect it reports when every reading of it does.
Fits(o, a, e) == Allows(o, a, e, AnswerReason(o, a))

\* One invocation: nothing is done before its request arrives or after its
\* answer leaves, and what it reports was read off that answer.
ClientInv(i) ==
  /\ pc[i] = "local" => i \notin inflight /\ wire[i] = NoAnswer /\ reason[i] = "none"
  /\ i \in inflight => wire[i] = NoAnswer /\ pc[i] \in {"sent", "lost"}
  /\ wire[i] = NoAnswer => effect[i] = "none"
  /\ wire[i] # NoAnswer => Fits(op[i], wire[i], effect[i])
  /\ pc[i] = "sent" => reason[i] = "none"
  /\ pc[i] = "read" =>
       \/ /\ wire[i] = NoAnswer /\ i \notin inflight
          /\ reason[i] = LocalReason(op[i]) /\ reason[i] # "ok"
       \/ wire[i] # NoAnswer /\ reason[i] = AnswerReason(op[i], wire[i])
  /\ pc[i] = "cut" => reason[i] = "request-failed"
  /\ pc[i] = "lost" => reason[i] = TransportReason(op[i])

\* The last change applied is running, and on disk too when it was written
\* through.
LastInv ==
  \A i \in Clients : last = i /\ effect[i] = "durable" => running = i /\ durable = i

LifecycleInv ==
  /\ TypeOK
  /\ wire = [i \in Clients |-> wire[i]]
  /\ \A i \in Clients : ClientInv(i)
  /\ LastInv

-----------------------------------------------------------------------------
(***************************************************************************)
(* What the verdicts make of each answer the gateway can give.             *)
(***************************************************************************)

\* The reasons the taxonomy and its fallback know.
LEMMA KnownReasons ==
  Reasons = {"ok", "invalid-arguments", "invalid-json", "unauthorized", "file-read-failed",
             "maintenance-mode", "dependency-failed", "not-ready", "request-failed",
             "operation-in-progress", "bad-request", "decode-failed",
             "incompatible-snapshot", "validation-failed", "checksum-mismatch",
             "contract-legacy", "rollback-failed", "not-persisted", "recovery-required",
             "none", "server-error", "result-not-ok", "rolled-back"}
<1> DEFINE All == UNION {ReasonsOf(c) : c \in Taxonomy}
<1>1. All = UNION {ReasonsOf(0), ReasonsOf(2), ReasonsOf(3), ReasonsOf(4), ReasonsOf(5),
                   ReasonsOf(6), ReasonsOf(7), ReasonsOf(8), ReasonsOf(9)}
  <2>1. Taxonomy = {0, 2, 3, 4, 5, 6, 7, 8, 9}
    BY DEF Taxonomy, OK, InvalidArgument, FeatureUnavailable
  <2> QED  BY <2>1
<1> QED
  BY <1>1
  DEF Reasons, ReasonsOf, OK, InvalidArgument, Auth, Precondition, Unavailable,
      ContractMismatch, Partial

\* Classify sends the three half-applied reasons, and only them, to Partial.
LEMMA PartialReasons ==
  ASSUME NEW r \in ReasonsOf(Partial)
  PROVE  Classify(r) = Partial
<1>1. Partial \in Taxonomy
  BY DEF Taxonomy, Partial, InvalidArgument, FeatureUnavailable
<1>2. \A c \in Taxonomy : r \in ReasonsOf(c) => c = Partial
  BY DEF Taxonomy, ReasonsOf, OK, InvalidArgument, Auth, Precondition, Unavailable,
         ContractMismatch, Partial, FeatureUnavailable
<1> QED  BY <1>1, <1>2 DEF Classify

\* The commands by the fields their verdicts read.
LEMMA OpsFields ==
  ASSUME NEW o \in Ops
  PROVE  /\ o.cmd \in {"persist", "restore", "maintenance", "sink"}
         /\ o.cmd \in {"persist", "restore"} => o.strict \in BOOLEAN
         /\ o.cmd = "restore" => o.commit \in BOOLEAN
                                 /\ o.file \in {"unnamed", "absent", "invalid", "valid"}
  BY DEF Ops, SinkOps

\* The reasons for a status alone never read as a success.
LEMMA StatusReasons ==
  ASSUME NEW s \in {200, 204, 400, 401, 409, 500, 502, 503}
  PROVE  ReasonForStatus(s) \in {"bad-request", "unauthorized", "operation-in-progress",
                                 "maintenance-mode", "server-error"}
  BY DEF ReasonForStatus

\* The two parts of an answer.
LEMMA AnswerParts ==
  ASSUME NEW s, NEW b
  PROVE  Answer(s, b).status = s /\ Answer(s, b).body = b
  BY DEF Answer

\* A body that does not parse is told from every other by its kind.
LEMMA GarbageKind == Garbage.kind = "garbage"
  BY DEF Garbage

\* The body decodeMaintenance accepts.
LEMMA MaintenanceKind == MaintenanceBody.kind = "maintenance"
  BY DEF MaintenanceBody

\* A stray JSON object has at most a text of its own in `result'.
LEMMA ObjectKind == \A t : Object(t).kind = "object" /\ Object(t).result = t
  BY DEF Object

\* An object is not the body any of the commands waits for.
LEMMA ObjectIsStray ==
  ASSUME NEW t
  PROVE  Object(t) # Garbage
  BY ObjectKind, GarbageKind

\* Decoded as a restore result, a stray object has no field of one but that text.
LEMMA StrayFields ==
  ASSUME NEW t
  PROVE  LET r == DecodeRestore(Object(t))
         IN  /\ r.mode = "absent" /\ r.schema = FALSE /\ r.deps = FALSE
             /\ r.compatible = "absent" /\ r.result = t /\ r.errors = FALSE
  BY ObjectKind DEF DecodeRestore, RestoreBody

\* doPersist on an answer.
LEMMA PersistReads ==
  ASSUME NEW s, NEW b, NEW strict
  PROVE  PersistReason(Answer(s, b), strict) =
           IF s # 200 THEN ReasonForStatus(s)
           ELSE IF b = Garbage THEN "decode-failed"
           ELSE PersistVerdict(DecodePersist(b), strict)
  BY AnswerParts DEF PersistReason

\* decodeMaintenance and the audit-sink commands on an answer.
LEMMA SwitchReads ==
  ASSUME NEW s, NEW b
  PROVE  /\ MaintenanceReason(Answer(s, b)) =
              IF s # 200 THEN ReasonForStatus(s)
              ELSE IF b.kind # "maintenance" THEN "decode-failed" ELSE "ok"
         /\ SinkReason(Answer(s, b)) = IF s # 204 THEN ReasonForStatus(s) ELSE "ok"
  BY AnswerParts DEF MaintenanceReason, SinkReason

\* doRestore on an answer that is no restore result.
LEMMA StrayRestoreReads ==
  ASSUME NEW s, NEW b, NEW commit, NEW strict,
         b = Garbage \/ ~LooksLikeRestoreResult(DecodeRestore(b))
  PROVE  RestoreReason(Answer(s, b), commit, strict) =
           IF s \in 200..299 THEN "decode-failed" ELSE ReasonForStatus(s)
<1>1. Answer(s, b).status = s /\ Answer(s, b).body = b
  BY AnswerParts
<1>2. LET a == Answer(s, b)
      IN  a.body = Garbage \/ ~LooksLikeRestoreResult(DecodeRestore(a.body))
  BY <1>1
<1> QED  BY <1>1, <1>2 DEF RestoreReason

\* The mode a restore result is judged in.
ModeOf(m, commit) == IF m # "absent" THEN m ELSE IF commit THEN "commit" ELSE "dry-run"

\* A result with its mode filled in.
Judged(r, commit) == [r EXCEPT !.mode = ModeOf(@, commit)]

\* doRestore on a restore result.
LEMMA RestoreReads ==
  ASSUME NEW s, NEW b, NEW commit, NEW strict, NEW v,
         b # Garbage, LooksLikeRestoreResult(DecodeRestore(b)),
         v = RestoreVerdict(Judged(DecodeRestore(b), commit), strict)
  PROVE  RestoreReason(Answer(s, b), commit, strict) =
           IF v = "ok" /\ s \notin 200..299 THEN ReasonForStatus(s) ELSE v
<1>1. v = RestoreVerdict([DecodeRestore(b) EXCEPT !.mode =
                            IF @ # "absent" THEN @ ELSE IF commit THEN "commit" ELSE "dry-run"],
                         strict)
  BY DEF ModeOf, Judged
<1>2. Answer(s, b).status = s /\ Answer(s, b).body = b
  BY AnswerParts
<1> QED  BY <1>1, <1>2 DEF RestoreReason

\* The reading of an answer by command.
LEMMA ReadsByCommand ==
  ASSUME NEW o \in Ops, NEW a
  PROVE  /\ o.cmd = "persist" => AnswerReason(o, a) = PersistReason(a, o.strict)
         /\ o.cmd = "restore" => AnswerReason(o, a) = RestoreReason(a, o.commit, o.strict)
         /\ o.cmd = "maintenance" => AnswerReason(o, a) = MaintenanceReason(a)
         /\ o.cmd = "sink" => AnswerReason(o, a) = SinkReason(a)
  BY DEF AnswerReason

\* An answer that nothing was done for, read as anything but a success.
LEMMA UntouchedFits ==
  ASSUME NEW o, NEW a, NEW r, AnswerReason(o, a) = r,
         r \in Reasons \ {"none", "ok"}
  PROVE  Fits(o, a, "none")
  BY DEF Fits, Allows, HalfApplied

\* A refusal: its envelope is not the documented body.
LEMMA RefusalFits ==
  ASSUME NEW o \in Ops, NEW s \in {400, 401, 409, 503}, NEW t \in {"absent", "refused"}
  PROVE  Fits(o, Answer(s, Object(t)), "none")
<1>1. ReasonForStatus(s) \in Reasons \ {"none", "ok"}
  BY StatusReasons, KnownReasons
<1>2. ASSUME AnswerReason(o, Answer(s, Object(t))) \in
               {ReasonForStatus(s), "result-not-ok", "contract-legacy"}
      PROVE  Fits(o, Answer(s, Object(t)), "none")
  <2>1. {"result-not-ok", "contract-legacy"} \subseteq Reasons \ {"none", "ok"}
    BY KnownReasons
  <2> QED  BY <1>1, <1>2, <2>1, UntouchedFits
<1>3. CASE o.cmd = "persist"
  <2>1. PersistReason(Answer(s, Object(t)), o.strict) = ReasonForStatus(s)
    BY PersistReads
  <2> QED  BY <1>2, <1>3, <2>1, ReadsByCommand
<1>4. CASE o.cmd = "restore"
  <2>1. CASE t = "absent"
    <3>1. ~LooksLikeRestoreResult(DecodeRestore(Object(t)))
      BY <2>1, StrayFields DEF LooksLikeRestoreResult
    <3>2. RestoreReason(Answer(s, Object(t)), o.commit, o.strict) = ReasonForStatus(s)
      BY <2>1, <3>1, StrayRestoreReads
    <3> QED  BY <1>2, <1>4, <3>2, ReadsByCommand
  <2>2. CASE t = "refused"
    <3>1. LooksLikeRestoreResult(DecodeRestore(Object(t)))
      BY <2>2, StrayFields DEF LooksLikeRestoreResult
    <3> DEFINE v == RestoreVerdict(Judged(DecodeRestore(Object(t)), o.commit), o.strict)
    <3>2. v \in {"ok", "result-not-ok", "contract-legacy"}
      BY <1>4, <2>2, OpsFields, ObjectKind
      DEF RestoreVerdict, Judged, DecodeRestore, RestoreBody, Durable
    <3> HIDE DEF v
    <3>3. RestoreReason(Answer(s, Object(t)), o.commit, o.strict) =
            IF v = "ok" /\ s \notin 200..299 THEN ReasonForStatus(s) ELSE v
      BY <3>1, ObjectIsStray, RestoreReads DEF v
    <3> QED  BY <1>2, <1>4, <3>2, <3>3, ReadsByCommand
  <2> QED  BY <2>1, <2>2
<1>5. CASE o.cmd \in {"maintenance", "sink"}
  <2>1. /\ MaintenanceReason(Answer(s, Object(t))) = ReasonForStatus(s)
        /\ SinkReason(Answer(s, Object(t))) = ReasonForStatus(s)
    BY SwitchReads
  <2> QED  BY <1>2, <1>5, <2>1, ReadsByCommand
<1> QED  BY <1>3, <1>4, <1>5, OpsFields

\* A proxy's page or a stray object.
LEMMA InterceptedFits ==
  ASSUME NEW o \in Ops, NEW s \in {200, 502}, NEW b, b = Garbage \/ b = Object("absent")
  PROVE  Fits(o, Answer(s, b), "none")
<1>1. ReasonForStatus(s) \in Reasons \ {"none", "ok"}
  BY StatusReasons, KnownReasons
<1>2. ASSUME AnswerReason(o, Answer(s, b)) \in
               {ReasonForStatus(s), "decode-failed", "result-not-ok"}
      PROVE  Fits(o, Answer(s, b), "none")
  <2>1. {"decode-failed", "result-not-ok"} \subseteq Reasons \ {"none", "ok"}
    BY KnownReasons
  <2> QED  BY <1>1, <1>2, <2>1, UntouchedFits
<1>3. CASE o.cmd = "persist"
  <2>1. PersistVerdict(DecodePersist(Object("absent")), o.strict) = "result-not-ok"
    BY ObjectKind DEF PersistVerdict, DecodePersist, PersistBody
  <2>2. PersistReason(Answer(s, b), o.strict) \in
          {ReasonForStatus(s), "decode-failed", "result-not-ok"}
    BY <2>1, PersistReads
  <2> QED  BY <1>2, <1>3, <2>2, ReadsByCommand
<1>4. CASE o.cmd = "restore"
  <2>1. ~LooksLikeRestoreResult(DecodeRestore(Object("absent")))
    BY StrayFields DEF LooksLikeRestoreResult
  <2>2. RestoreReason(Answer(s, b), o.commit, o.strict) \in
          {ReasonForStatus(s), "decode-failed"}
    BY <2>1, StrayRestoreReads
  <2> QED  BY <1>2, <1>4, <2>2, ReadsByCommand
<1>5. CASE o.cmd \in {"maintenance", "sink"}
  <2>1. b.kind # "maintenance"
    BY GarbageKind, ObjectKind
  <2>2. /\ MaintenanceReason(Answer(s, b)) \in {ReasonForStatus(s), "decode-failed"}
        /\ SinkReason(Answer(s, b)) = ReasonForStatus(s)
    BY <2>1, SwitchReads
  <2> QED  BY <1>2, <1>5, <2>2, ReadsByCommand
<1> QED  BY <1>3, <1>4, <1>5, OpsFields

\* A proxy's error says nothing of what was done, and is not taken to.
LEMMA ReplacedFits ==
  ASSUME NEW o \in Ops, NEW e
  PROVE  Fits(o, Answer(502, Garbage), e)
<1> DEFINE a == Answer(502, Garbage)
<1>1. a.status = 502 /\ a.body = Garbage
  BY AnswerParts
<1>2. ReasonForStatus(502) = "server-error"
  BY DEF ReasonForStatus
<1>3. AnswerReason(o, a) = "server-error"
  <2> HIDE DEF a
  <2>1. /\ PersistReason(a, o.strict) = "server-error"
        /\ RestoreReason(a, o.commit, o.strict) = "server-error"
        /\ MaintenanceReason(a) = "server-error" /\ SinkReason(a) = "server-error"
    BY <1>1, <1>2 DEF PersistReason, RestoreReason, MaintenanceReason, SinkReason
  <2> QED  BY <2>1, OpsFields DEF AnswerReason
<1>4. a.body.kind # "restore"
  BY <1>1, GarbageKind
<1>5. "server-error" \in Reasons
  BY KnownReasons
<1> HIDE DEF a
<1>6. Fits(o, a, e)
  BY <1>3, <1>4, <1>5 DEF Fits, Allows, HalfApplied, Refusals
<1> QED  BY <1>6 DEF a

\* A persist that was done and one that failed.
LEMMA PersistFits ==
  ASSUME NEW o \in Ops, o.cmd = "persist"
  PROVE  /\ \A id \in BOOLEAN : Fits(o, Answer(200, PersistBody("ok", id)), "saved")
         /\ Fits(o, Answer(200, PersistBody("failed", FALSE)), "none")
<1> DEFINE B(r, id) == PersistBody(r, id)
           v(r, id) == PersistVerdict(DecodePersist(B(r, id)), o.strict)
<1>1. ASSUME NEW r, NEW id
      PROVE  AnswerReason(o, Answer(200, B(r, id))) = v(r, id)
  <2>1. B(r, id) # Garbage
    <3>1. B(r, id).kind = "persist"  BY DEF PersistBody
    <3> QED  BY <3>1, GarbageKind
  <2> QED  BY <2>1, PersistReads, ReadsByCommand
<1>2. ASSUME NEW id \in BOOLEAN
      PROVE  Fits(o, Answer(200, B("ok", id)), "saved")
  <2>1. v("ok", id) \in {"ok", "contract-legacy"}
    BY OpsFields DEF PersistVerdict, DecodePersist, PersistBody
  <2>2. ~Commit(o) /\ "saved" \in Confirmed(o)
    BY DEF Commit, Confirmed
  <2> HIDE DEF v, B
  <2>3. AnswerReason(o, Answer(200, B("ok", id))) \in {"ok", "contract-legacy"}
    BY <1>1, <2>1, Zenon
  <2> QED  BY <2>2, <2>3, KnownReasons DEF Fits, Allows, HalfApplied, Refusals
<1>3. Fits(o, Answer(200, B("failed", FALSE)), "none")
  <2>1. v("failed", FALSE) = "result-not-ok"
    BY DEF PersistVerdict, DecodePersist, PersistBody
  <2> HIDE DEF v, B
  <2>2. AnswerReason(o, Answer(200, B("failed", FALSE))) = "result-not-ok"
    BY <1>1, <2>1, Zenon
  <2>3. "result-not-ok" \in Reasons \ {"none", "ok"}
    BY KnownReasons
  <2> QED  BY <2>2, <2>3, UntouchedFits, Zenon
<1> QED  BY <1>2, <1>3, Zenon

\* A restore result of the gateway's own: it carries a plan.
IsResult(b) ==
  /\ b = RestoreBody(b.mode, b.schema, b.deps, b.compatible, b.result, b.persisted, b.errors)
  /\ b.kind = "restore" /\ b.schema = TRUE /\ b.deps \in BOOLEAN /\ b.errors \in BOOLEAN

\* It is judged by its fields alone.
LEMMA ResultReads ==
  ASSUME NEW o \in Ops, o.cmd = "restore", NEW s, NEW b, IsResult(b)
  PROVE  AnswerReason(o, Answer(s, b)) =
           LET commits == ModeOf(b.mode, o.commit) = "commit"
               v == IF b.deps THEN "dependency-failed"
                    ELSE IF b.compatible = "no" THEN "incompatible-snapshot"
                    ELSE IF b.result = "ROLLBACK-FAILED" THEN "rollback-failed"
                    ELSE IF b.result = "rolled-back" THEN "rolled-back"
                    ELSE IF commits /\ b.result # "ok" THEN "result-not-ok"
                    ELSE IF commits /\ b.persisted = "no" THEN "not-persisted"
                    ELSE IF b.errors THEN "validation-failed"
                    ELSE IF o.strict /\ ~(IF commits /\ b.result = "ok"
                                          THEN b.persisted # "absent"
                                          ELSE b.compatible # "absent")
                         THEN "contract-legacy"
                    ELSE "ok"
           IN  IF v = "ok" /\ s \notin 200..299 THEN ReasonForStatus(s) ELSE v
<1>1. DecodeRestore(b) = b
  BY DEF DecodeRestore, IsResult
<1>2. LooksLikeRestoreResult(b)
  BY DEF LooksLikeRestoreResult, IsResult
<1>3. b # Garbage
  BY GarbageKind DEF IsResult
<1> DEFINE j == Judged(b, o.commit)
           v == RestoreVerdict(j, o.strict)
<1>4. AnswerReason(o, Answer(s, b)) =
        IF v = "ok" /\ s \notin 200..299 THEN ReasonForStatus(s) ELSE v
  BY <1>1, <1>2, <1>3, RestoreReads, ReadsByCommand
<1>5. /\ j.mode = ModeOf(b.mode, o.commit)
      /\ j.schema = b.schema /\ j.deps = b.deps /\ j.compatible = b.compatible
      /\ j.result = b.result /\ j.persisted = b.persisted /\ j.errors = b.errors
  BY DEF IsResult, RestoreBody, Judged
<1> HIDE DEF j
<1>6. o.strict \in BOOLEAN
  BY OpsFields
<1> QED  BY <1>4, <1>5, <1>6 DEF RestoreVerdict, Durable, IsResult

\* The results of a pipeline that VALIDATE stopped, of a plan, of a commit with
\* write-through report p, and of a rollback r.
Stopped(b) ==
  IsResult(b) /\ b.compatible \in {"yes", "no"} /\ b.result = "absent" /\ b.errors

Planned(b) ==
  /\ IsResult(b) /\ b.mode \in {"absent", "dry-run"} /\ ~b.deps
  /\ b.compatible \in {"yes", "absent"} /\ b.result = "absent" /\ ~b.errors

Applied(b, p) ==
  /\ IsResult(b) /\ b.mode \in {"absent", "commit"} /\ ~b.deps /\ b.compatible = "yes"
  /\ b.result = "ok" /\ b.persisted = p /\ (b.errors <=> p = "no")

Undone(b, r) ==
  IsResult(b) /\ ~b.deps /\ b.compatible = "yes" /\ b.result = r

\* The answers of RestoreStops.
LEMMA StoppedBodies ==
  \A m : /\ Stopped(RestoreBody(m, TRUE, TRUE, "yes", "absent", "absent", TRUE))
         /\ Stopped(RestoreBody(m, TRUE, FALSE, "no", "absent", "absent", TRUE))
         /\ Stopped(RestoreBody(m, TRUE, FALSE, "yes", "absent", "absent", TRUE))
  BY DEF RestoreBody, IsResult, Stopped

\* The answers of RestorePlans.
LEMMA PlannedBodies ==
  \A m \in {"absent", "dry-run"}, c \in {"yes", "absent"} :
    Planned(RestoreBody(m, TRUE, FALSE, c, "absent", "absent", FALSE))
  BY DEF RestoreBody, IsResult, Planned

\* The answers of RestoreApplies.
LEMMA AppliedBodies ==
  \A m \in {"absent", "commit"} :
    /\ Applied(RestoreBody(m, TRUE, FALSE, "yes", "ok", "yes", FALSE), "yes")
    /\ Applied(RestoreBody(m, TRUE, FALSE, "yes", "ok", "no", TRUE), "no")
    /\ Applied(RestoreBody(m, TRUE, FALSE, "yes", "ok", "absent", FALSE), "absent")
  BY DEF RestoreBody, IsResult, Applied

\* The answers of RestoreRollsBack.
LEMMA UndoneBodies ==
  \A m, r : Undone(RestoreBody(m, TRUE, FALSE, "yes", r, "absent", TRUE), r)
  BY DEF RestoreBody, IsResult, Undone

\* A pipeline that VALIDATE stopped.
LEMMA StopFits ==
  ASSUME NEW o \in Ops, o.cmd = "restore", NEW b, Stopped(b)
  PROVE  Fits(o, Answer(400, b), "none")
<1>1. AnswerReason(o, Answer(400, b)) \in
        {"dependency-failed", "incompatible-snapshot", "result-not-ok", "validation-failed"}
  BY ResultReads DEF Stopped
<1>2. {"dependency-failed", "incompatible-snapshot", "result-not-ok", "validation-failed"}
        \subseteq Reasons \ {"none", "ok"}
  BY KnownReasons
<1> QED  BY <1>1, <1>2, UntouchedFits

\* A plan.
LEMMA PlanFits ==
  ASSUME NEW o \in Ops, o.cmd = "restore", ~Commit(o), NEW b, Planned(b)
  PROVE  Fits(o, Answer(200, b), "planned")
<1>1. ModeOf(b.mode, o.commit) = "dry-run"
  BY OpsFields DEF ModeOf, Planned, Commit
<1>2. AnswerReason(o, Answer(200, b)) \in {"ok", "contract-legacy"}
  BY <1>1, ResultReads DEF Planned
<1>3. "planned" \in Confirmed(o)
  BY DEF Confirmed
<1> QED  BY <1>2, <1>3, KnownReasons DEF Fits, Allows, HalfApplied, Refusals

\* A commit written through, one whose write-through failed, and one of a
\* gateway that reports none.
LEMMA AppliedFits ==
  ASSUME NEW o \in Ops, Commit(o), NEW s \in {200, 500}, NEW p \in {"yes", "no", "absent"},
         NEW b, Applied(b, p), p # "no" => s = 200
  PROVE  Fits(o, Answer(s, b), IF p = "yes" THEN "durable" ELSE "volatile")
<1>0. o.cmd = "restore"
  BY DEF Commit
<1>1. ModeOf(b.mode, o.commit) = "commit"
  BY DEF ModeOf, Commit, Applied
<1>2. AnswerReason(o, Answer(s, b)) =
        IF p = "no" THEN "not-persisted"
        ELSE IF o.strict /\ p = "absent" THEN "contract-legacy" ELSE "ok"
  BY <1>0, <1>1, ResultReads DEF Applied
<1>3. Confirmed(o) = {"durable", "volatile"}
  BY DEF Commit, Confirmed
<1>4. Answer(s, b).body.persisted = p
  BY AnswerParts DEF Applied
<1>5. "not-persisted" \in ReasonsOf(Partial)
  BY DEF ReasonsOf, Partial, OK, InvalidArgument, Auth, Precondition, Unavailable,
         ContractMismatch
<1> QED
  BY <1>2, <1>3, <1>4, <1>5, KnownReasons DEF Fits, Allows, HalfApplied, Refusals

\* A commit undone, and one that could not be.
LEMMA RollbackFits ==
  ASSUME NEW o \in Ops, Commit(o), NEW r \in {"rolled-back", "ROLLBACK-FAILED"},
         NEW b, Undone(b, r)
  PROVE  Fits(o, Answer(500, b), IF r = "rolled-back" THEN "none" ELSE "mixed")
<1>0. o.cmd = "restore"
  BY DEF Commit
<1>1. AnswerReason(o, Answer(500, b)) =
        IF r = "rolled-back" THEN "rolled-back" ELSE "rollback-failed"
  BY <1>0, ResultReads DEF Undone
<1>2. "rollback-failed" \in ReasonsOf(Partial)
  BY DEF ReasonsOf, Partial, OK, InvalidArgument, Auth, Precondition, Unavailable,
         ContractMismatch
<1> QED  BY <1>1, <1>2, KnownReasons DEF Fits, Allows, HalfApplied, Refusals

\* The maintenance switch and the audit sinks.
LEMMA SwitchFits ==
  ASSUME NEW o \in Ops, o.cmd \in {"maintenance", "sink"}
  PROVE  Fits(o, IF o.cmd = "sink" THEN Answer(204, NoContent) ELSE Answer(200, MaintenanceBody),
              "set")
<1> DEFINE a == IF o.cmd = "sink" THEN Answer(204, NoContent) ELSE Answer(200, MaintenanceBody)
<1>1. AnswerReason(o, a) = "ok"
  BY SwitchReads, ReadsByCommand, MaintenanceKind
<1>2. ~Commit(o) /\ "set" \in Confirmed(o)
  BY DEF Commit, Confirmed
<1> QED  BY <1>1, <1>2, KnownReasons DEF Fits, Allows, HalfApplied, Refusals

-----------------------------------------------------------------------------
(***************************************************************************)
(* The inductive invariant.                                                *)
(***************************************************************************)

\* No invocation has sent anything yet.
LEMMA InitLifecycleInv == Init => LifecycleInv
<1> SUFFICES ASSUME Init
             PROVE  LifecycleInv
  OBVIOUS
<1>1. TypeOK
  BY KnownReasons DEF Init, TypeOK
<1>2. wire = [i \in Clients |-> wire[i]]
  BY DEF Init
<1>3. ASSUME NEW i \in Clients
      PROVE  ClientInv(i)
  BY DEF Init, ClientInv
<1>4. LastInv
  BY ConfigsAssumption DEF Init, LastInv
<1> QED  BY <1>1, <1>2, <1>3, <1>4 DEF LifecycleInv

\* Refused, Send, ReadAnswer, Lose and CutOff: the client reports what it
\* decided locally, what it read, or that it does not know.
LEMMA ClientKeepsInv ==
  ASSUME LifecycleInv, NEW i \in Clients, Client(i)
  PROVE  LifecycleInv'
<1> USE DEF gatewayVars
<1>0. TypeOK /\ wire = [k \in Clients |-> wire[k]] /\ LastInv
      /\ \A k \in Clients : ClientInv(k)
  BY DEF LifecycleInv
<1>1. UNCHANGED <<gatewayVars, op, wire>>
  BY DEF Client, Refused, Send, ReadAnswer, Lose, CutOff
<1>2. LastInv'
  BY <1>0, <1>1 DEF LastInv
<1>3. wire' = [k \in Clients |-> wire'[k]]
  BY <1>0, <1>1
<1>4. op[i] \in Ops
  BY <1>0 DEF TypeOK
<1>5. CASE Refused(i)
  <2>1. LocalReason(op[i]) \in {"invalid-arguments", "file-read-failed", "invalid-json"}
    BY <1>4, <1>5, OpsFields DEF Refused, LocalReason, RestoreFileReason
  <2>2. TypeOK'
    BY <1>0, <1>5, <2>1, KnownReasons DEF TypeOK, Refused
  <2>3. ASSUME NEW k \in Clients
        PROVE  ClientInv(k)'
    BY <1>0, <1>5 DEF TypeOK, ClientInv, Refused
  <2> QED  BY <1>2, <1>3, <2>2, <2>3 DEF LifecycleInv
<1>6. CASE Send(i)
  <2>1. TypeOK'
    BY <1>0, <1>6 DEF TypeOK, Send
  <2>2. ASSUME NEW k \in Clients
        PROVE  ClientInv(k)'
    BY <1>0, <1>6 DEF TypeOK, ClientInv, Send
  <2> QED  BY <1>2, <1>3, <2>1, <2>2 DEF LifecycleInv
<1>7. CASE ReadAnswer(i)
  <2>1. AnswerReason(op[i], wire[i]) \in Reasons
    BY <1>0, <1>7 DEF ReadAnswer, ClientInv, Fits, Allows
  <2>2. TypeOK'
    BY <1>0, <1>7, <2>1 DEF TypeOK, ReadAnswer
  <2>3. ASSUME NEW k \in Clients
        PROVE  ClientInv(k)'
    BY <1>0, <1>7 DEF TypeOK, ClientInv, ReadAnswer
  <2> QED  BY <1>2, <1>3, <2>2, <2>3 DEF LifecycleInv
<1>8. CASE Lose(i)
  <2>1. TransportReason(op[i]) \in Reasons
    BY KnownReasons DEF TransportReason
  <2>2. TypeOK'
    BY <1>0, <1>8, <2>1 DEF TypeOK, Lose
  <2>3. ASSUME NEW k \in Clients
        PROVE  ClientInv(k)'
    BY <1>0, <1>8 DEF TypeOK, ClientInv, Lose
  <2> QED  BY <1>2, <1>3, <2>2, <2>3 DEF LifecycleInv
<1>9. CASE CutOff(i)
  <2>1. TypeOK'
    BY <1>0, <1>9, KnownReasons DEF TypeOK, CutOff
  <2>2. ASSUME NEW k \in Clients
        PROVE  ClientInv(k)'
    BY <1>0, <1>9 DEF TypeOK, ClientInv, CutOff
  <2> QED  BY <1>2, <1>3, <2>1, <2>2 DEF LifecycleInv
<1> QED  BY <1>5, <1>6, <1>7, <1>8, <1>9 DEF Client

Effects == {"none", "saved", "planned", "durable", "volatile", "mixed", "set"}

\* Whatever a status carries, it is an answer.
LEMMA AnswerIsReal ==
  ASSUME NEW s \in {200, 204, 400, 401, 409, 500, 502, 503}, NEW b
  PROVE  Answer(s, b) # NoAnswer
<1>1. Answer(s, b).status # 0 /\ NoAnswer.status = 0
  BY AnswerParts DEF NoAnswer
<1> QED  BY <1>1

\* A gateway's step: one request is taken, and its answer fits what was done.
LEMMA ReplyKeepsInv ==
  ASSUME LifecycleInv, NEW i \in Clients, NEW a, NEW e \in Effects,
         Reply(i, a), Did(i, e), a # NoAnswer, Fits(op[i], a, e),
         running' \in Clients \cup {Initial, Mixed}, durable' \in Clients \cup {Initial, Mixed},
         last' \in Clients \cup {Initial},
         \/ /\ UNCHANGED <<running, last>> /\ e # "durable"
            /\ durable' \in {durable, running}
         \/ last' = i /\ (e = "durable" => running' = i /\ durable' = i)
  PROVE  LifecycleInv'
<1>0. TypeOK /\ wire = [k \in Clients |-> wire[k]] /\ LastInv
      /\ \A k \in Clients : ClientInv(k)
  BY DEF LifecycleInv
<1>1. TypeOK'
  BY <1>0 DEF TypeOK, Reply, Did, Effects
<1>2. wire' = [k \in Clients |-> wire'[k]]
  BY <1>0 DEF Reply
<1>3. ASSUME NEW k \in Clients
      PROVE  ClientInv(k)'
  BY <1>0 DEF ClientInv, Reply, Did, TypeOK
<1>4. LastInv'
  BY <1>0 DEF LastInv, Did, TypeOK
<1> QED  BY <1>1, <1>2, <1>3, <1>4 DEF LifecycleInv

\* Every step of the gateway answers one request with what it did for it.
LEMMA GatewayKeepsInv ==
  ASSUME LifecycleInv, NEW i \in Clients, Gateway(i)
  PROVE  LifecycleInv'
<1>0. /\ op[i] \in Ops
      /\ running \in Clients \cup {Initial, Mixed} /\ durable \in Clients \cup {Initial, Mixed}
      /\ last \in Clients \cup {Initial}
      /\ effect \in [Clients -> Effects]
      /\ i \in inflight => effect[i] = "none"
  BY DEF LifecycleInv, TypeOK, ClientInv, Effects
<1>1. ASSUME NEW a, NEW e \in Effects, Reply(i, a), Did(i, e), a # NoAnswer,
             Fits(op[i], a, e), e # "durable", UNCHANGED <<running, last>>,
             durable' \in {durable, running}
      PROVE  LifecycleInv'
  BY <1>0, <1>1, ReplyKeepsInv
<1>2. ASSUME NEW a, Reply(i, a), UNCHANGED gatewayVars, a # NoAnswer, Fits(op[i], a, "none")
      PROVE  LifecycleInv'
  <2>1. i \in inflight
    BY <1>2 DEF Reply
  <2>2. Did(i, "none")
    BY <1>0, <1>2, <2>1 DEF Did, gatewayVars
  <2>3. UNCHANGED <<running, last, durable>>
    BY <1>2 DEF gatewayVars
  <2> QED  BY <1>1, <1>2, <2>2, <2>3 DEF Effects
<1>3. CASE GatewayRefuses(i)
  <2>1. PICK s \in {400, 401, 409, 503}, t \in {"absent", "refused"} :
          Reply(i, Answer(s, Object(t)))
    BY <1>3 DEF GatewayRefuses
  <2> QED  BY <1>0, <1>2, <1>3, <2>1, RefusalFits, AnswerIsReal DEF GatewayRefuses
<1>4. CASE Intercepted(i)
  <2>1. PICK s \in {200, 502}, b \in {Garbage, Object("absent")} : Reply(i, Answer(s, b))
    BY <1>4 DEF Intercepted
  <2> QED  BY <1>0, <1>2, <1>4, <2>1, InterceptedFits, AnswerIsReal DEF Intercepted
<1>11. CASE AnswerReplaced(i)
  <2>1. /\ pc[i] = "sent" /\ wire[i] # NoAnswer
        /\ wire' = [wire EXCEPT ![i] = Answer(502, Garbage)]
        /\ UNCHANGED <<running, durable, last, effect, inflight, op, pc, reason>>
    BY <1>11 DEF AnswerReplaced, gatewayVars
  <2>2. Answer(502, Garbage) # NoAnswer /\ Fits(op[i], Answer(502, Garbage), effect[i])
    BY <1>0, ReplacedFits, AnswerIsReal
  <2>3. TypeOK' /\ LastInv'
    BY <2>1 DEF LifecycleInv, TypeOK, LastInv
  <2>4. wire' = [k \in Clients |-> wire'[k]] /\ wire'[i] = Answer(502, Garbage)
        /\ \A k \in Clients \ {i} : wire'[k] = wire[k]
    BY <2>1 DEF LifecycleInv
  <2>5. ASSUME NEW k \in Clients PROVE ClientInv(k)'
    <3>1. ClientInv(k)
      BY DEF LifecycleInv
    <3>2. CASE k = i
      BY <2>1, <2>2, <2>4, <3>1, <3>2 DEF ClientInv
    <3>3. CASE k # i
      BY <2>1, <2>4, <3>1, <3>3 DEF ClientInv
    <3> QED  BY <3>2, <3>3
  <2> QED  BY <2>3, <2>4, <2>5 DEF LifecycleInv
<1>5. CASE HandlePersist(i)
  <2>0. op[i].cmd = "persist" /\ UNCHANGED <<running, last>>
    BY <1>5 DEF HandlePersist
  <2>1. \A b : Answer(200, b) # NoAnswer
    BY AnswerIsReal
  <2>2. ASSUME NEW b, Reply(i, Answer(200, b)), Fits(op[i], Answer(200, b), "saved"),
               durable' = running, Did(i, "saved")
        PROVE  LifecycleInv'
    BY <1>1, <2>0, <2>1, <2>2 DEF Effects
  <2>3. ASSUME NEW b, Reply(i, Answer(200, b)), Fits(op[i], Answer(200, b), "none"),
               UNCHANGED <<durable, effect>>
        PROVE  LifecycleInv'
    BY <1>2, <2>0, <2>1, <2>3 DEF gatewayVars
  <2>4. /\ \A id \in BOOLEAN : Fits(op[i], Answer(200, PersistBody("ok", id)), "saved")
        /\ Fits(op[i], Answer(200, PersistBody("failed", FALSE)), "none")
    BY <1>0, <2>0, PersistFits
  <2> QED  BY <1>5, <2>2, <2>3, <2>4, Zenon DEF HandlePersist
<1>6. CASE RestoreStops(i)
  <2>1. op[i].cmd = "restore" /\ UNCHANGED gatewayVars
    BY <1>6 DEF RestoreStops
  <2>2. ASSUME NEW b, Stopped(b), Reply(i, Answer(400, b))
        PROVE  LifecycleInv'
    BY <1>0, <1>2, <2>1, <2>2, StopFits, AnswerIsReal
  <2>3. PICK m :
          \/ Reply(i, Answer(400, RestoreBody(m, TRUE, TRUE, "yes", "absent", "absent", TRUE)))
          \/ Reply(i, Answer(400, RestoreBody(m, TRUE, FALSE, "no", "absent", "absent", TRUE)))
          \/ Reply(i, Answer(400, RestoreBody(m, TRUE, FALSE, "yes", "absent", "absent", TRUE)))
    BY <1>6, Zenon DEF RestoreStops
  <2> QED  BY <2>2, <2>3, StoppedBodies, Zenon
<1>7. CASE RestorePlans(i)
  <2>1. /\ op[i].cmd = "restore" /\ ~Commit(op[i])
        /\ Did(i, "planned") /\ UNCHANGED <<running, durable, last>>
    BY <1>7 DEF RestorePlans, Commit
  <2>2. ASSUME NEW b, Planned(b), Reply(i, Answer(200, b))
        PROVE  LifecycleInv'
    BY <1>0, <1>1, <2>1, <2>2, PlanFits, AnswerIsReal DEF Effects
  <2> QED  BY <1>7, <2>2, PlannedBodies, Zenon DEF RestorePlans
<1>8. CASE RestoreApplies(i)
  <2>1. Commit(op[i]) /\ running' = i /\ last' = i
    BY <1>8 DEF RestoreApplies
  <2>2. ASSUME NEW s \in {200, 500}, NEW p \in {"yes", "no", "absent"}, NEW b, Applied(b, p),
               Reply(i, Answer(s, b)), p # "no" => s = 200,
               Did(i, IF p = "yes" THEN "durable" ELSE "volatile"),
               durable' = IF p = "yes" THEN i ELSE durable
        PROVE  LifecycleInv'
    <3>1. Fits(op[i], Answer(s, b), IF p = "yes" THEN "durable" ELSE "volatile")
      BY <1>0, <2>1, <2>2, AppliedFits
    <3>2. Answer(s, b) # NoAnswer
      BY AnswerIsReal
    <3> QED  BY <1>0, <2>1, <2>2, <3>1, <3>2, ReplyKeepsInv DEF Effects
  <2>3. ASSUME NEW b, Applied(b, "yes"), Reply(i, Answer(200, b)), durable' = i,
               Did(i, "durable")
        PROVE  LifecycleInv'
    BY <2>2, <2>3
  <2>4. ASSUME NEW b, Applied(b, "absent"), Reply(i, Answer(200, b)), Did(i, "volatile"),
               UNCHANGED durable
        PROVE  LifecycleInv'
    BY <2>2, <2>4
  <2>5. PICK m \in {"absent", "commit"} :
          \/ /\ Reply(i, Answer(200, RestoreBody(m, TRUE, FALSE, "yes", "ok", "yes", FALSE)))
             /\ durable' = i /\ Did(i, "durable")
          \/ /\ \E s \in {200, 500} :
                  Reply(i, Answer(s, RestoreBody(m, TRUE, FALSE, "yes", "ok", "no", TRUE)))
             /\ Did(i, "volatile") /\ UNCHANGED durable
          \/ /\ Reply(i, Answer(200, RestoreBody(m, TRUE, FALSE, "yes", "ok", "absent", FALSE)))
             /\ Did(i, "volatile") /\ UNCHANGED durable
    BY <1>8, Zenon DEF RestoreApplies
  <2>6. /\ Applied(RestoreBody(m, TRUE, FALSE, "yes", "ok", "yes", FALSE), "yes")
        /\ Applied(RestoreBody(m, TRUE, FALSE, "yes", "ok", "no", TRUE), "no")
        /\ Applied(RestoreBody(m, TRUE, FALSE, "yes", "ok", "absent", FALSE), "absent")
    BY AppliedBodies, Zenon
  <2>7. ASSUME NEW s \in {200, 500}, Did(i, "volatile"), UNCHANGED durable,
               Reply(i, Answer(s, RestoreBody(m, TRUE, FALSE, "yes", "ok", "no", TRUE)))
        PROVE  LifecycleInv'
    <3>1. \A b : Applied(b, "no") /\ Reply(i, Answer(s, b)) => LifecycleInv'
      BY <2>2, <2>7
    <3> QED  BY <2>6, <2>7, <3>1, Zenon
  <2>8. ASSUME Reply(i, Answer(200, RestoreBody(m, TRUE, FALSE, "yes", "ok", "yes", FALSE))),
               durable' = i, Did(i, "durable")
        PROVE  LifecycleInv'
    BY <2>3, <2>6, <2>8, Zenon
  <2>9. ASSUME Did(i, "volatile"), UNCHANGED durable,
               Reply(i, Answer(200, RestoreBody(m, TRUE, FALSE, "yes", "ok", "absent", FALSE)))
        PROVE  LifecycleInv'
    BY <2>4, <2>6, <2>9, Zenon
  <2> QED  BY <2>5, <2>7, <2>8, <2>9, Zenon
<1>9. CASE RestoreRollsBack(i)
  <2>0. Commit(op[i])
    BY <1>9 DEF RestoreRollsBack
  <2>1. ASSUME NEW b, Undone(b, "rolled-back"), Reply(i, Answer(500, b)), UNCHANGED gatewayVars
        PROVE  LifecycleInv'
    <3>1. Fits(op[i], Answer(500, b), "none")
      BY <1>0, <2>0, <2>1, RollbackFits
    <3> QED  BY <1>2, <2>1, <3>1, AnswerIsReal
  <2>2. ASSUME NEW b, Undone(b, "ROLLBACK-FAILED"), Reply(i, Answer(500, b)),
               running' = Mixed, last' = i, Did(i, "mixed"), UNCHANGED durable
        PROVE  LifecycleInv'
    <3>1. Fits(op[i], Answer(500, b), "mixed")
      BY <1>0, <2>0, <2>2, RollbackFits
    <3>2. Answer(500, b) # NoAnswer
      BY AnswerIsReal
    <3> QED  BY <1>0, <2>2, <3>1, <3>2, ReplyKeepsInv DEF Effects
  <2> QED  BY <1>9, <2>1, <2>2, UndoneBodies, Zenon DEF RestoreRollsBack
<1>10. CASE HandleSwitch(i)
  <2> DEFINE a == IF op[i].cmd = "sink" THEN Answer(204, NoContent)
                  ELSE Answer(200, MaintenanceBody)
  <2>1. Fits(op[i], a, "set") /\ a # NoAnswer
    BY <1>0, <1>10, SwitchFits, AnswerIsReal DEF HandleSwitch
  <2>2. Reply(i, a) /\ Did(i, "set") /\ UNCHANGED <<running, durable, last>>
    BY <1>10 DEF HandleSwitch
  <2> HIDE DEF a
  <2> QED  BY <1>1, <2>1, <2>2 DEF Effects
<1> QED
  BY <1>3, <1>4, <1>5, <1>6, <1>7, <1>8, <1>9, <1>10, <1>11 DEF Gateway

\* No step of a client or of the gateway and no restart breaks the invariant.
LEMMA NextLifecycleInv == LifecycleInv /\ [Next]_vars => LifecycleInv'
<1> SUFFICES ASSUME LifecycleInv, [Next]_vars
             PROVE  LifecycleInv'
  OBVIOUS
<1>1. CASE GatewayRestarts
  <2>1. UNCHANGED <<durable, last, effect, inflight, op, pc, wire, reason>> /\ running' = durable
    BY <1>1 DEF GatewayRestarts
  <2>2. TypeOK' /\ LastInv' /\ wire' = [i \in Clients |-> wire'[i]]
    BY <2>1 DEF LifecycleInv, TypeOK, LastInv
  <2>3. \A i \in Clients : ClientInv(i)'
    BY <2>1 DEF LifecycleInv, ClientInv
  <2> QED  BY <2>2, <2>3 DEF LifecycleInv
<1>2. CASE UNCHANGED vars
  <2>1. UNCHANGED <<running, durable, last, effect, inflight, op, pc, wire, reason>>
    BY <1>2 DEF vars, gatewayVars
  <2>2. TypeOK' /\ LastInv' /\ wire' = [i \in Clients |-> wire'[i]]
    BY <2>1 DEF LifecycleInv, TypeOK, LastInv
  <2>3. \A i \in Clients : ClientInv(i)'
    BY <2>1 DEF LifecycleInv, ClientInv
  <2> QED  BY <2>2, <2>3 DEF LifecycleInv
<1> QED  BY <1>1, <1>2, ClientKeepsInv, GatewayKeepsInv DEF Next

-----------------------------------------------------------------------------

\* The inductive invariant of every invocation and of the gateway they share.
THEOREM LifecycleInvariant == Spec => []LifecycleInv
  BY InitLifecycleInv, NextLifecycleInv, PTL DEF Spec

\* Every reason reported is one the taxonomy or its fallback classifies.
THEOREM LifecycleTypes == Spec => []TypeOK
<1>1. LifecycleInv => TypeOK  BY DEF LifecycleInv
<1> QED  BY <1>1, LifecycleInvariant, PTL

\* No answer that a gateway, a proxy or a broken body can give is read as the
\* success of something that was not done (looksLikeRestoreResult, the result
\* checks, decodeMaintenance, the 204).
THEOREM SuccessWasConfirmed == Spec => []SuccessIsConfirmed
<1>1. ASSUME LifecycleInv, NEW i \in Clients, reason[i] = "ok"
      PROVE  pc[i] = "read" /\ wire[i] # NoAnswer /\ AnswerReason(op[i], wire[i]) = "ok"
             /\ Fits(op[i], wire[i], effect[i])
  BY <1>1 DEF LifecycleInv, TypeOK, ClientInv, TransportReason
<1>2. LifecycleInv => SuccessIsConfirmed
  BY <1>1 DEF SuccessIsConfirmed, Fits, Allows, Confirmed
<1> QED  BY <1>2, LifecycleInvariant, PTL

\* A committed restore reported durable survives every restart, until another
\* commit takes its place (RestoreResult.Verdict).
THEOREM CommitSurvivesRestart == Spec => []CommittedSurvivesRestart
<1>1. ASSUME LifecycleInv, NEW i \in Clients, reason[i] = "ok"
      PROVE  AnswerReason(op[i], wire[i]) = "ok" /\ Fits(op[i], wire[i], effect[i])
  BY <1>1 DEF LifecycleInv, TypeOK, ClientInv, TransportReason
<1>2. LifecycleInv => CommittedSurvivesRestart
  BY <1>1 DEF CommittedSurvivesRestart, Fits, Allows, LifecycleInv, LastInv
<1> QED  BY <1>2, LifecycleInvariant, PTL

\* A gateway left half applied is reported PARTIAL (Verdict's order of
\* judgement, reasonCodes).
THEOREM HalfAppliedReported == Spec => []HalfAppliedIsPartial
<1>1. ASSUME LifecycleInv, NEW i \in Clients, pc[i] = "read",
             HalfApplied(wire[i], effect[i])
      PROVE  reason[i] \in ReasonsOf(Partial)
  BY <1>1 DEF LifecycleInv, ClientInv, HalfApplied, Fits, Allows
<1>2. LifecycleInv => HalfAppliedIsPartial
  BY <1>1, PartialReasons DEF HalfAppliedIsPartial, HalfApplied
<1> QED  BY <1>2, LifecycleInvariant, PTL

\* A refusal is only reported when nothing was changed and nothing is still to
\* come (reasonForStatus, doRestore's local checks).
THEOREM RefusalIsHarmless == Spec => []RefusalChangedNothing
<1>1. ASSUME LifecycleInv, NEW i \in Clients, reason[i] \in Refusals
      PROVE  effect[i] = "none" /\ i \notin inflight
  BY <1>1
  DEF LifecycleInv, TypeOK, ClientInv, TransportReason, Refusals, Fits, Allows
<1>2. LifecycleInv => RefusalChangedNothing
  BY <1>1 DEF RefusalChangedNothing, Refusals
<1> QED  BY <1>2, LifecycleInvariant, PTL

=============================================================================
