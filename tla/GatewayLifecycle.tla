-------------------------- MODULE GatewayLifecycle --------------------------
(***************************************************************************)
(* The state-changing config-lifecycle commands (cmd/lifecycle: persist,   *)
(* restore, set maintenance, the audit sinks) of several operators against *)
(* one gateway, over a network that loses, delays and cuts off answers.    *)
(*                                                                         *)
(* The gateway is external.  It is modelled from what the CLI's decoders   *)
(* and their comments say of it: a running configuration, the document on  *)
(* its disk that a restart replays, and the staged restore pipeline.       *)
(***************************************************************************)
EXTENDS LifecycleVerdict, FiniteSets

CONSTANTS
  Clients,    \* concurrent invocations; each restores a document of its own
  Initial,    \* the configuration before any of them
  Mixed       \* neither the old nor the new one: a failed rollback

ASSUME ConfigsAssumption ==
  Initial \notin Clients /\ Mixed \notin Clients /\ Initial # Mixed

VARIABLES
  running,    \* the configuration the gateway runs
  durable,    \* the configuration its disk holds
  last,       \* the client whose change the running configuration is
  effect,     \* what the gateway did for each client
  inflight,   \* requests the gateway has yet to see
  op,         \* what each client invoked
  pc,         \* "local", "sent", "read", "cut" or "lost"
  wire,       \* the answer on its way to each client
  reason      \* the lifecycle reason each client reports

gatewayVars == <<running, durable, last, effect>>
vars        == <<gatewayVars, inflight, op, pc, wire, reason>>

-----------------------------------------------------------------------------

\* The audit-sink flags as their checks tell them apart: given or not, and
\* whether the ranges, the name and the secondary sink's own flags pass.
SinkOptions ==
  [address : BOOLEAN, caBundle : BOOLEAN, cert : BOOLEAN, key : BOOLEAN, ranges : BOOLEAN,
   disable : BOOLEAN, name : BOOLEAN, secondary : {"absent", "valid", "invalid"}]

AuditSinkTransport(so) ==
  so.address /\ so.caBundle /\ (so.cert = so.key) /\ so.ranges

AuditSinkRequest(so) ==
  so.secondary = "absent" /\ (so.disable \/ AuditSinkTransport(so))

AuditNamedSinkRequest(so) ==
  so.name /\ ~so.disable /\ AuditSinkTransport(so) /\ so.secondary = "valid"

AuditNamedSinkDelete(so) == so.name

\* Set, named set and named delete: all that is left of the flags is whether
\* they pass.
SinkOps ==
  {[cmd |-> "sink", accepted |-> a] :
     a \in {AuditSinkRequest(so) : so \in SinkOptions}
          \cup {AuditNamedSinkRequest(so) : so \in SinkOptions}
          \cup {AuditNamedSinkDelete(so) : so \in SinkOptions}}

Ops ==
  [cmd : {"persist"}, strict : BOOLEAN]
    \cup [cmd : {"restore"}, commit : BOOLEAN, strict : BOOLEAN,
          file : {"unnamed", "absent", "invalid", "valid"}]
    \cup [cmd : {"maintenance"}]
    \cup SinkOps

Commit(o) == o.cmd = "restore" /\ o.commit

NoAnswer == Answer(0, NoContent)

Init ==
  /\ running = Initial /\ durable = Initial /\ last = Initial
  /\ effect = [i \in Clients |-> "none"]
  /\ inflight = {}
  /\ op \in [Clients -> Ops]
  /\ pc = [i \in Clients |-> "local"]
  /\ wire = [i \in Clients |-> NoAnswer]
  /\ reason = [i \in Clients |-> "none"]

-----------------------------------------------------------------------------
(***************************************************************************)
(* The client: local refusals, then one request.                           *)
(***************************************************************************)

\* doRestore before the request.
RestoreFileReason(file) ==
  CASE file = "unnamed" -> "invalid-arguments"
    [] file = "absent"  -> "file-read-failed"
    [] file = "invalid" -> "invalid-json"
    [] file = "valid"   -> "ok"

LocalReason(o) ==
  CASE o.cmd = "restore" -> RestoreFileReason(o.file)
    [] o.cmd = "sink"    -> IF o.accepted THEN "ok" ELSE "invalid-arguments"
    [] OTHER             -> "ok"

Refused(i) ==
  /\ pc[i] = "local"
  /\ LocalReason(op[i]) # "ok"
  /\ reason' = [reason EXCEPT ![i] = LocalReason(op[i])]
  /\ pc' = [pc EXCEPT ![i] = "read"]
  /\ UNCHANGED <<gatewayVars, inflight, op, wire>>

Send(i) ==
  /\ pc[i] = "local"
  /\ LocalReason(op[i]) = "ok"
  /\ inflight' = inflight \cup {i}
  /\ pc' = [pc EXCEPT ![i] = "sent"]
  /\ UNCHANGED <<gatewayVars, op, wire, reason>>

AnswerReason(o, a) ==
  CASE o.cmd = "persist"     -> PersistReason(a, o.strict)
    [] o.cmd = "restore"     -> RestoreReason(a, o.commit, o.strict)
    [] o.cmd = "maintenance" -> MaintenanceReason(a)
    [] o.cmd = "sink"        -> SinkReason(a)

ReadAnswer(i) ==
  /\ pc[i] = "sent"
  /\ wire[i] # NoAnswer
  /\ pc' = [pc EXCEPT ![i] = "read"]
  /\ reason' = [reason EXCEPT ![i] = AnswerReason(op[i], wire[i])]
  /\ UNCHANGED <<gatewayVars, inflight, op, wire>>

\* No response: the deadline, a refused or broken connection.  A request
\* already sent may still be on its way.
TransportReason(o) ==
  IF o.cmd \in {"maintenance", "sink"} THEN "recovery-required" ELSE "request-failed"

Lose(i) ==
  /\ pc[i] = "sent"
  /\ pc' = [pc EXCEPT ![i] = "lost"]
  /\ reason' = [reason EXCEPT ![i] = TransportReason(op[i])]
  /\ UNCHANGED <<gatewayVars, inflight, op, wire>>

\* The header arrived, the body broke off (readBody).
CutOff(i) ==
  /\ pc[i] = "sent"
  /\ wire[i] # NoAnswer /\ wire[i].body # NoContent
  /\ pc' = [pc EXCEPT ![i] = "cut"]
  /\ reason' = [reason EXCEPT ![i] = "request-failed"]
  /\ UNCHANGED <<gatewayVars, inflight, op, wire>>

-----------------------------------------------------------------------------
(***************************************************************************)
(* The gateway and what stands before it (external).                       *)
(***************************************************************************)

Reply(i, a) ==
  /\ i \in inflight
  /\ inflight' = inflight \ {i}
  /\ wire' = [wire EXCEPT ![i] = a]
  /\ UNCHANGED <<op, pc, reason>>

Did(i, what) == effect' = [effect EXCEPT ![i] = what]

\* Refused by the gateway, or answered by something that is not one.
GatewayRefuses(i) ==
  /\ \E s \in {400, 401, 409, 503}, t \in {"absent", "refused"} : Reply(i, Answer(s, Object(t)))
  /\ UNCHANGED gatewayVars

Intercepted(i) ==
  /\ \E s \in {200, 502}, b \in {Garbage, Object("absent")} : Reply(i, Answer(s, b))
  /\ UNCHANGED gatewayVars

\* A proxy gives up on the answer, whatever the gateway did.
AnswerReplaced(i) ==
  /\ pc[i] = "sent" /\ wire[i] # NoAnswer
  /\ wire' = [wire EXCEPT ![i] = Answer(502, Garbage)]
  /\ UNCHANGED <<gatewayVars, inflight, op, pc, reason>>

HandlePersist(i) ==
  /\ op[i].cmd = "persist"
  /\ \/ /\ \E id \in BOOLEAN : Reply(i, Answer(200, PersistBody("ok", id)))
        /\ durable' = running
        /\ Did(i, "saved")
     \/ /\ Reply(i, Answer(200, PersistBody("failed", FALSE)))
        /\ UNCHANGED <<durable, effect>>
  /\ UNCHANGED <<running, last>>

\* VALIDATE stops the pipeline before anything is mutated.
RestoreStops(i) ==
  /\ op[i].cmd = "restore"
  /\ \E m \in {"absent", IF op[i].commit THEN "commit" ELSE "dry-run"} :
       \/ Reply(i, Answer(400, RestoreBody(m, TRUE, TRUE, "yes", "absent", "absent", TRUE)))
       \/ Reply(i, Answer(400, RestoreBody(m, TRUE, FALSE, "no", "absent", "absent", TRUE)))
       \/ Reply(i, Answer(400, RestoreBody(m, TRUE, FALSE, "yes", "absent", "absent", TRUE)))
  /\ UNCHANGED gatewayVars

\* PLAN; an older gateway reports no compatibility.
RestorePlans(i) ==
  /\ op[i].cmd = "restore" /\ ~op[i].commit
  /\ \E m \in {"absent", "dry-run"}, c \in {"yes", "absent"} :
       Reply(i, Answer(200, RestoreBody(m, TRUE, FALSE, c, "absent", "absent", FALSE)))
  /\ Did(i, "planned")
  /\ UNCHANGED <<running, durable, last>>

\* APPLY and its write-through; an older gateway has none and reports none.
RestoreApplies(i) ==
  /\ Commit(op[i])
  /\ \E m \in {"absent", "commit"} :
       \/ /\ Reply(i, Answer(200, RestoreBody(m, TRUE, FALSE, "yes", "ok", "yes", FALSE)))
          /\ durable' = i
          /\ Did(i, "durable")
       \/ /\ \E s \in {200, 500} :
               Reply(i, Answer(s, RestoreBody(m, TRUE, FALSE, "yes", "ok", "no", TRUE)))
          /\ Did(i, "volatile") /\ UNCHANGED durable
       \/ /\ Reply(i, Answer(200, RestoreBody(m, TRUE, FALSE, "yes", "ok", "absent", FALSE)))
          /\ Did(i, "volatile") /\ UNCHANGED durable
  /\ running' = i /\ last' = i

RestoreRollsBack(i) ==
  /\ Commit(op[i])
  /\ \E m \in {"absent", "commit"} :
       \/ /\ Reply(i, Answer(500, RestoreBody(m, TRUE, FALSE, "yes", "rolled-back", "absent", TRUE)))
          /\ UNCHANGED gatewayVars
       \/ /\ Reply(i, Answer(500, RestoreBody(m, TRUE, FALSE, "yes", "ROLLBACK-FAILED", "absent", TRUE)))
          /\ running' = Mixed /\ last' = i
          /\ Did(i, "mixed") /\ UNCHANGED durable

HandleSwitch(i) ==
  /\ op[i].cmd \in {"maintenance", "sink"}
  /\ Reply(i, IF op[i].cmd = "sink" THEN Answer(204, NoContent) ELSE Answer(200, MaintenanceBody))
  /\ Did(i, "set")
  /\ UNCHANGED <<running, durable, last>>

\* A restart replays the document on disk.
GatewayRestarts ==
  /\ running' = durable
  /\ UNCHANGED <<durable, last, effect, inflight, op, pc, wire, reason>>

-----------------------------------------------------------------------------

Client(i) ==
  \/ Refused(i)
  \/ Send(i)
  \/ ReadAnswer(i)
  \/ Lose(i)
  \/ CutOff(i)

Gateway(i) ==
  \/ GatewayRefuses(i)
  \/ Intercepted(i)
  \/ AnswerReplaced(i)
  \/ HandlePersist(i)
  \/ RestoreStops(i)
  \/ RestorePlans(i)
  \/ RestoreApplies(i)
  \/ RestoreRollsBack(i)
  \/ HandleSwitch(i)

Next == GatewayRestarts \/ \E i \in Clients : Client(i) \/ Gateway(i)

Spec == Init /\ [][Next]_vars

-----------------------------------------------------------------------------

Reasons == (UNION {ReasonsOf(c) : c \in Taxonomy})
             \cup {"none", "server-error", "result-not-ok", "rolled-back"}

\* The variables' types; every reason is one the taxonomy or its fallback
\* classifies (LifecycleError.Reason).
TypeOK ==
  /\ running \in Clients \cup {Initial, Mixed}
  /\ durable \in Clients \cup {Initial, Mixed}
  /\ last \in Clients \cup {Initial}
  /\ effect \in [Clients -> {"none", "saved", "planned", "durable", "volatile", "mixed", "set"}]
  /\ inflight \subseteq Clients
  /\ op \in [Clients -> Ops]
  /\ pc \in [Clients -> {"local", "sent", "read", "cut", "lost"}]
  /\ reason \in [Clients -> Reasons]

\* A committed restore reported as a success by a gateway that reports its
\* write-through, or under --strict, is what the gateway runs and what it runs
\* again after any number of restarts, until another commit takes its place
\* (RestoreResult.Verdict: "the next restart loses it").
CommittedSurvivesRestart ==
  \A i \in Clients :
    /\ reason[i] = "ok" /\ Commit(op[i]) /\ last = i
    /\ op[i].strict \/ wire[i].body.persisted # "absent"
    => running = i /\ durable = i

\* The gateway did what the command asked, for every success reported: no
\* stray object, no error envelope and no proxy's page is read as one
\* (looksLikeRestoreResult, the result checks, decodeMaintenance, the 204).
SuccessIsConfirmed ==
  \A i \in Clients : reason[i] = "ok" =>
    effect[i] \in CASE op[i].cmd = "persist"                        -> {"saved"}
                    [] op[i].cmd = "restore" /\ ~Commit(op[i])      -> {"planned"}
                    [] Commit(op[i])                                -> {"durable", "volatile"}
                    [] OTHER                                        -> {"set"}

\* A gateway left with a configuration that is neither the old nor a durable
\* new one is reported PARTIAL, once its own answer is read (Verdict's order of
\* judgement, reasonCodes); one too old to report its write-through has no way
\* to say so.
HalfAppliedIsPartial ==
  \A i \in Clients :
    /\ pc[i] = "read" /\ wire[i].body.kind = "restore"
    /\ effect[i] = "mixed" \/ (effect[i] = "volatile" /\ wire[i].body.persisted = "no")
    => Classify(reason[i]) = Partial

\* A reason that says the gateway refused or undid the change is only given
\* when nothing of it is left and nothing of it is still to come.
RefusalChangedNothing ==
  \A i \in Clients :
    reason[i] \in {"invalid-arguments", "file-read-failed", "invalid-json", "unauthorized",
                   "operation-in-progress", "maintenance-mode", "bad-request", "rolled-back",
                   "dependency-failed", "incompatible-snapshot", "validation-failed"}
    => effect[i] = "none" /\ i \notin inflight

Untouched(i) == effect[i] \in {"none", "planned"} /\ i \notin inflight

\* MaintenanceSet's comment: an outcome this process cannot know ("the
\* connection broke, the response never arrived") is never reported "as a plain
\* request failure that automation might retry blindly".
UnknownSwitchIsNeverPlain ==
  \A i \in Clients :
    op[i].cmd = "maintenance" /\ reason[i] = "request-failed" => Untouched(i)

\* exit-codes.md, rule 5: 5 and 7 "only when it is confirmed that no state
\* changed"; here for a committed restore.
RetryableRestoreIsSafe ==
  \A i \in Clients :
    Commit(op[i]) /\ Classify(reason[i]) \in {Unavailable, Failed} /\ reason[i] # "none"
      => Untouched(i)

=============================================================================
