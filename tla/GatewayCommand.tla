--------------------------- MODULE GatewayCommand ---------------------------
(***************************************************************************)
(* One create, delete, set or apply -f command against a gateway: the      *)
(* feature gate, the requests of its plan one after the other, the answers *)
(* that come, come late or never come, and the operator who runs the same  *)
(* line again.  The gateway and the network are external: a request that   *)
(* gets no answer may have been applied, may still be, or is lost, and the *)
(* gateway may be replaced by another build at any time.                   *)
(***************************************************************************)
EXTENDS CrudCommands

CONSTANTS
  Lines,        \* the command lines explored
  Builds,       \* the peers: [gateway, tokens, serves]
  StoredFields, \* the numbers a load-balancer rule already has
  MaxAttempts   \* how often the operator runs the line

ASSUME MaxAttemptsAssumption == MaxAttempts \in Nat \ {0}
\* The verb of a line is the first word of its command; a flag is given a
\* finite number of times.
ASSUME LinesAssumption ==
  \A l \in Lines :
    /\ l.cmd \in {"create lb", "create apikey"} => l.verb = "create"
    /\ l.verb \notin {"create", "delete", "set"} => l.cmd = "apply -f"
    /\ l.items \in Nat
    /\ IsFiniteSet(DOMAIN l.lb.ports) /\ l.lb.roles \in Seq(STRING)
\* A gateway serves what it advertises.
ASSUME BuildsAssumption == \A b \in Builds : b.tokens \subseteq b.serves

VARIABLES
  line,     \* the command line
  attempt,  \* the number of this run of it
  pc,       \* "gate", "send", "wait" (for an answer) or "done"
  gates,    \* the features still to be looked for
  version,  \* what /version answered in this invocation, or Unread
  plan,     \* the requests of the command
  next,     \* the one to send, or being sent
  exit,     \* the exit code, or Running
  warned,   \* the features whose token was missed on stderr
  peer,     \* the gateway
  replaced, \* whether it was replaced since the invocation began
  changed,  \* the requests of this attempt the gateway applied
  dropped,  \* the features whose fields it left out of them
  late,     \* requests still on their way: [attempt, index, request]
  stored    \* the numbers of the load-balancer rule

command == <<gates, version, plan, next, exit, warned>>
gateway == <<peer, replaced, changed, dropped, late, stored>>
vars == <<line, attempt, pc, command, gateway>>

Running == -1
Unread  == [gateway |-> FALSE, tokens |-> {"unread"}]
Busy    == pc # "done"
Current == plan[next]

Init ==
  /\ line \in Lines /\ attempt = 1 /\ pc = "gate"
  /\ gates = Verdict(line).gates /\ version = Unread
  /\ plan = <<>> /\ next = 1 /\ exit = Running /\ warned = {}
  /\ peer \in Builds /\ replaced = FALSE
  /\ changed = {} /\ dropped = {} /\ late = {}
  /\ stored = StoredFields

End(code) == pc' = "done" /\ exit' = code

-----------------------------------------------------------------------------
(* The feature gate                                                        *)

\* read: one /version request per invocation; a failure ends the command.
ReadFails(code) ==
  /\ pc = "gate" /\ gates # <<>> /\ version = Unread
  /\ End(code)
  /\ UNCHANGED <<line, attempt, gates, version, plan, next, warned, gateway>>
ReadVersion ==
  /\ pc = "gate" /\ gates # <<>> /\ version = Unread
  /\ version' = [gateway |-> peer.gateway, tokens |-> peer.tokens]
  /\ UNCHANGED <<line, attempt, pc, gates, plan, next, exit, warned, gateway>>
ReadFailures == {Unavailable, ContractMismatch} \cup {FromHTTPStatus(s) : s \in {401, 404, 500}}

\* Require warns about a missing token and goes on, RequireAdvertised refuses.
Require(gate) ==
  /\ warned' = IF gate.feature \in version.tokens THEN warned ELSE warned \cup {gate.feature}
  /\ gates' = Tail(gates) /\ UNCHANGED <<pc, exit>>
\* Mutant: a strict gate lets a missing token through.
RequireAdvertisedLoosely(gate) == gates' = Tail(gates) /\ UNCHANGED <<pc, exit, warned>>
RequireAdvertised(gate) ==
  /\ IF gate.feature \in version.tokens
     THEN gates' = Tail(gates) /\ UNCHANGED <<pc, exit>>
     ELSE UNCHANGED gates /\ End(FeatureUnavailable)
  /\ UNCHANGED warned
NotAGateway == ~version.gateway
PassGate ==
  /\ pc = "gate" /\ gates # <<>> /\ version # Unread
  /\ IF NotAGateway THEN End(FeatureUnavailable) /\ UNCHANGED <<gates, warned>>
     ELSE IF Head(gates).strict THEN RequireAdvertised(Head(gates))
     ELSE Require(Head(gates))
  /\ UNCHANGED <<line, attempt, version, plan, next, gateway>>

\* Every gate passed: refuse the line or send the first request.
Decide ==
  /\ pc = "gate" /\ gates = <<>>
  /\ IF Verdict(line).code # OK
     THEN End(Verdict(line).code) /\ UNCHANGED plan
     ELSE /\ plan' \in Verdict(line).plans
          /\ IF plan' = <<>> THEN End(OK) ELSE pc' = "send" /\ UNCHANGED exit
  /\ UNCHANGED <<line, attempt, gates, version, next, warned, gateway>>

-----------------------------------------------------------------------------
(* The gateway                                                             *)

\* A path of a feature that this peer does not serve.
Unserved(r) == r.path # "none" /\ (~peer.gateway \/ r.path \notin peer.serves)
Succeeds(r) == r.ok \cap {200, 201, 204}
Refusals    == {400, 401, 404, 409, 503}
Unclear     == {500, 504}

\* A number that is not on the wire: a pointer field keeps the rule's value, a
\* plain one keeps it or falls back to the gateway's default.
Default == 0
StoredAfter(r, keeps) ==
  [f \in DOMAIN stored |->
     IF f \in DOMAIN r.nums THEN r.nums[f]
     ELSE IF f \in SentWhenGiven \/ keeps THEN stored[f] ELSE Default]
\* Fields of a feature the peer lacks are left out and the rest is applied.
Apply(of, i, r) ==
  /\ changed' = IF of = attempt THEN changed \cup {i} ELSE changed
  /\ dropped' = IF of = attempt THEN dropped \cup (r.fields \ peer.serves) ELSE dropped
  /\ \E keeps \in BOOLEAN :
       (line.cmd # "create lb" => keeps) /\ stored' = StoredAfter(r, keeps)
Ignore == UNCHANGED <<changed, dropped, stored>>

\* A request left behind by an attempt reaches the gateway, or never does.
ArriveLate ==
  \E m \in late :
    /\ late' = late \ {m}
    /\ \/ ~Unserved(m.request) /\ Apply(m.attempt, m.index, m.request)
       \/ Ignore
    /\ UNCHANGED <<line, attempt, pc, command, peer, replaced>>

Replace ==
  /\ Busy /\ ~replaced
  /\ peer' \in Builds \ {peer} /\ replaced' = TRUE
  /\ UNCHANGED <<line, attempt, pc, command, changed, dropped, late, stored>>

-----------------------------------------------------------------------------
(* Sending and answers                                                     *)

\* A value that is parsed only now ends the command in the middle of its plan.
Send ==
  /\ pc = "send"
  /\ IF Current.method = "none" THEN End(InvalidArgument) ELSE pc' = "wait" /\ UNCHANGED exit
  /\ UNCHANGED <<line, attempt, gates, version, plan, next, warned, gateway>>

\* Mutant: a refused request does not end the loop.
ProceedAnyway(r, status, decodable) ==
  /\ next' = next + 1
  /\ IF next = Len(plan)
     THEN End(IF status \in r.ok THEN OK ELSE FromHTTPStatus(status))
     ELSE pc' = "send" /\ UNCHANGED exit

\* Classify: a 404 for the path itself is the feature's, not the item's.
PathNotFound(r, status) == status = 404 /\ Unserved(r)
\* Mutant: every refusal exits 1, the code of an unclassified error.
ClassifyAsOne(r, status) == 1
\* Mutant: any failure on a feature's path is a missing feature.
ClassifyAsMissing(r, status) ==
  IF r.path # "none" THEN FeatureUnavailable ELSE FromHTTPStatus(status)
ClassifyAnswer(r, status) ==
  IF PathNotFound(r, status) THEN FeatureUnavailable ELSE FromHTTPStatus(status)

\* The next request after a success; a body that has to be decoded and cannot
\* be ends the command though the request was applied.
Proceed(r, status, decodable) ==
  IF status \notin r.ok THEN End(ClassifyAnswer(r, status)) /\ UNCHANGED next
  ELSE IF r.reads = "decoded" /\ ~decodable THEN End(ContractMismatch) /\ UNCHANGED next
  ELSE /\ next' = next + 1
       /\ IF next = Len(plan) THEN End(OK) ELSE pc' = "send" /\ UNCHANGED exit

Answer ==
  /\ pc = "wait"
  /\ \E decodable \in BOOLEAN :
       \/ Unserved(Current) /\ Ignore /\ Proceed(Current, 404, decodable)
       \/ \E status \in Succeeds(Current) :
            ~Unserved(Current) /\ Apply(attempt, next, Current) /\ Proceed(Current, status, decodable)
       \/ \E status \in Refusals : Ignore /\ Proceed(Current, status, decodable)
       \/ \E status \in Unclear :
            /\ Apply(attempt, next, Current) \/ Ignore
            /\ Proceed(Current, status, decodable)
  /\ UNCHANGED <<line, attempt, gates, version, plan, warned, peer, replaced, late>>

\* Mutant: a request without a deadline.
TimeoutNever == FALSE
\* No answer within the deadline, whatever became of the request.
Timeout ==
  /\ pc = "wait"
  /\ \/ Ignore /\ UNCHANGED late
     \/ ~Unserved(Current) /\ Apply(attempt, next, Current) /\ UNCHANGED late
     \/ /\ late' = late \cup {[attempt |-> attempt, index |-> next, request |-> Current]}
        /\ Ignore
  /\ End(Current.lost)
  /\ UNCHANGED <<line, attempt, gates, version, plan, next, warned, peer, replaced>>

\* The operator runs a failed line again: a new process, an empty cache.
Again ==
  /\ pc = "done" /\ exit # OK /\ attempt < MaxAttempts
  /\ attempt' = attempt + 1 /\ pc' = "gate"
  /\ gates' = Verdict(line).gates /\ version' = Unread
  /\ plan' = <<>> /\ next' = 1 /\ exit' = Running /\ warned' = {}
  /\ replaced' = FALSE /\ changed' = {} /\ dropped' = {}
  /\ UNCHANGED <<line, peer, late, stored>>

Rest == pc = "done" /\ UNCHANGED vars

Step == \/ \E code \in ReadFailures : ReadFails(code)
        \/ PassGate \/ Decide \/ Send \/ Timeout
Next == Step \/ ReadVersion \/ Answer \/ ArriveLate \/ Replace \/ Again \/ Rest

\* The command takes its own steps and every request has a deadline
\* (--timeout); nothing is assumed of the network, the gateway or the operator.
Spec == Init /\ [][Next]_vars /\ WF_vars(Step)

-----------------------------------------------------------------------------
(* Properties                                                              *)

\* Every variable has its type; an attempt that ended has an exit code of the
\* frozen table (pkg/cli/exitcode).
TypeOK ==
  /\ line \in Lines /\ attempt \in 1..MaxAttempts
  /\ pc \in {"gate", "send", "wait", "done"}
  /\ exit \in Taxonomy \cup {Running} /\ (exit = Running) = Busy
  /\ next \in 1..Len(plan) + 1 /\ changed \subseteq DOMAIN plan
  /\ peer \in Builds /\ replaced \in BOOLEAN
  /\ \A m \in late : m.attempt <= attempt
  /\ DOMAIN stored = DOMAIN StoredFields

FileCommands == {"apply -f", "delete -f"}

\* Exit 0 is earned: every request of the command was applied by the gateway.
\* The file commands are left out: they do not look at the status they get.
SuccessIsEarned ==
  exit = OK /\ line.cmd \notin FileCommands => changed = DOMAIN plan

\* A command of one request that ends with AUTH, PRECONDITION,
\* INVALID_ARGUMENT or FEATURE_UNAVAILABLE changed nothing, whatever the
\* answers were and however late its request arrives.
RefusalChangedNothing ==
  exit \in {InvalidArgument, Auth, Precondition, FeatureUnavailable} /\ Len(plan) <= 1
    => changed = {} /\ \A m \in late : m.attempt < attempt

\* A feature's fields the gateway dropped were warned about on stderr, and the
\* endpoint picker's are never dropped, unless the gateway was replaced after
\* its /version was read (the answer is cached for the invocation).
DroppedFieldWasWarned ==
  ~replaced => dropped \subseteq warned /\ "epp" \notin dropped

\* A load balancer that was created or replaced has every queue and band number
\* that was given, a zero too, and keeps the stored value of those that were not
\* (the pointer fields of applyAIServiceOptions); of the plain numbers it has
\* every one that was given and is not zero.
GivenNumbersAreStored ==
  exit = OK /\ line.cmd = "create lb" /\ plan # <<>> =>
    \A f \in DOMAIN stored :
      IF f \in SentWhenGiven
      THEN stored[f] = IF f \in DOMAIN line.lb.num THEN line.lb.num[f] ELSE StoredFields[f]
      ELSE Num(line.lb, f) # 0 => stored[f] = Num(line.lb, f)

\* The ports the KV ranks of an engine publish on, one after the other.
RankPorts(o) == ZmqBase(o)..(ZmqBase(o) + Max({1, Num(o, "ranks")}) - 1)
\* A rule that reaches the gateway with exact KV routing has a port for every
\* data-parallel rank, and a disaggregated one has an endpoint of each role.
RanksAndRolesExist ==
  line.cmd = "create lb" /\ plan # <<>> =>
    /\ Num(line.lb, "kvmode") # 0 => RankPorts(line.lb) \subseteq 1..MaxPort
    /\ Disaggregated(line.lb) =>
         \A role \in {"prefill", "decode"} :
           \E i \in 1..line.lb.endpoints : line.lb.roles[i] = role

\* A request goes out only after every earlier one of the plan was applied:
\* a failure in the middle of several requests stops the command.
StopsAtFirstFailure ==
  [][pc' = "wait" /\ pc = "send" => 1..(next - 1) \subseteq changed]_vars

\* Every command ends: no answer, no gate and no loop holds it for ever.
CommandEnds == <>[](pc = "done")

\* contracts/exit-codes.md, rule 5: UNAVAILABLE and FAILED are reported only
\* when it is confirmed that no state changed, PARTIAL when it may have.
RetryableChangedNothing ==
  exit \in {Unavailable, Failed} => changed = {}

=============================================================================
