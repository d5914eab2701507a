# TLA+ models of loxicmd (inference gateway)

`loxicmd` is the operator's command line for the loxilb inference gateway and for
the appliance it runs on. It keeps almost no state of its own; what makes it hard
is that every command acts on something it does not control (a process tree on
the host, a gateway behind a network, a file system that may lose power) and must
then tell automation, in one exit code of a frozen taxonomy
(`src/contracts/exit-codes.md`), whether the change happened. The models are about
that: who may be asked to change what, what is left behind when a step fails,
races or is lost, and whether the exit code says so.

## 1. Inventory

| Part | Source | State | Operations | What makes it correct |
|---|---|---|---|---|
| Backend process runner | `pkg/backend/backend.go` `runWithStdin` | process tree, pipes, context, os/exec goroutines | start, cancel the group, wait delay, reap, classify | the caller gets the leader's own status; the run returns; nothing survives a cancel in the group |
| Argv allowlist, handshake | `pkg/backend/backend.go` | static tables, the advertised contract | `validateRequest`, `Handshake`, `requireAdvertisedCommand` | nothing is spawned that is not allowlisted; nothing mutates unless advertised |
| Appliance commands | `cmd/appliance` | none | one cobra command each | local refusals; the argv built passes the allowlist |
| Appliance dispatcher | `cmd/appliance/appliance.go` | the invocation: handshake, operation, verdict | `dispatchReadOnly`, `dispatchMutating`, `backendOutcome` | success is earned, unknown is PARTIAL, a degraded read is never a success |
| Payload validation | `pkg/backend/payload.go` | none | one validator per subcommand | an exit status and its document agree |
| Secret files | `pkg/backend/secretfile.go` | files | `CheckSecretPath`, `ReadSecretFile` | only private regular files are read |
| Exit-code taxonomy | `pkg/cli/exitcode` | none | `FromHTTPStatus`, `Classify` | every failure has exactly one code |
| Download storage | `pkg/api/snapshotfile.go`, `cmd/lifecycle/{snapshot,logs}.go` | destination, temporary files, directory | `VerifySnapshotChecksum`, `WriteFileAtomic` | the path always holds one whole verified document |
| Config lifecycle | `cmd/lifecycle`, `pkg/api/{configlifecycle,lifecyclereport}.go` | the gateway's running and stored configuration (external) | persist, restore, set maintenance, audit sinks | a reported success happened and is durable where it says so; a refusal changed nothing |
| Session token | `cmd/root.go`, `cmd/set/set_login.go` | two token files in `/tmp` | login, logout, refresh, token resolution | a failed login does not lock the operator out |
| Save and apply, file configuration | `cmd/dump`, `cmd/create/create_file.go`, `cmd/delete/delete_file.go` | dump files and their `.bk`, gateway objects | sequential dump, sequential apply | a fault leaves a good copy; what was saved comes back |
| CRUD commands, API keys | `cmd/create`, `cmd/delete`, `cmd/set` | gateway objects (external) | a plan of requests, an answer each | success is earned, a refusal changed nothing, nothing is sent after a failure |
| Feature gate | `pkg/cli/featuregate` | `/version` answer cached per invocation | `Require`, `RequireAdvertised`, `Classify` | no gated request to a gateway that would ignore it |
| Load-balancer options | `cmd/create/create_loadbalancer.go` | none | validation and building of a rule | accepted combinations are coherent |
| Netlink dump | `cmd/get/get_netlink.go` | a directory per link | dump, apply per interface | a topology the directory can express comes back whole |
| REST client, TLS, envelope, get commands | `pkg/api`, `pkg/cli/envelope`, `cmd/get` | none | I/O and rendering | not modelled |

Interaction: the appliance commands build a request, the adapter checks it against
the allowlist, spawns the backend for the handshake and, if the answer allows it,
spawns it again for the operation; both spawns share one deadline. The lifecycle
commands talk to the gateway over HTTP; downloads go from the answer through the
checksum to `WriteFileAtomic`. Every command first takes its token from a flag or
from the session file `set login` left. create, delete and set commands refuse
locally, ask `/version` for the features they need, and send their requests in
turn. `save` reads domains from the gateway or the kernel into files and `apply`
sends them back. Every failure ends in `exitcode`.

The hazards, each at its line, are listed in `PROJECT.json`; they fall into four
groups: the deadline racing the end of the backend; a crash, a kill or a power
loss between two system calls; an answer that is lost, late or cut off; and one
step of several failing while the command goes on.

## 2. Modules

| Module | Models | Uses |
|---|---|---|
| `RunOutcome` | abstract: what one spawn promises its caller | |
| `BackendRun` | `runWithStdin`, os/exec, the process tree | refines `RunOutcome` |
| `BackendRunProof` | theorems about `BackendRun` | |
| `ExitCode` | the taxonomy and its classifiers | |
| `BackendContract` | allowlist, contract validation | `ExitCode` |
| `ApplianceCommands` | local refusals and argv of every public command | `BackendContract` |
| `Appliance` | one appliance invocation from arguments to exit code | `ApplianceCommands`, two spawns of `RunOutcome` |
| `ApplianceProof` | theorems about `Appliance` and its tables | |
| `AtomicFile` | abstract: a path that holds one whole document | |
| `SnapshotFile` | doSnapshot, LogArchiveDownload, WriteFileAtomic, the disk | refines `AtomicFile` |
| `SnapshotFileProof` | theorems about `SnapshotFile` | |
| `LifecycleVerdict` | how an answer of the gateway is judged | `ExitCode` |
| `GatewayLifecycle` | several operators, one gateway, a lossy network | `LifecycleVerdict` |
| `GatewayLifecycleProof` | theorems about `GatewayLifecycle` | |
| `LbOptions` | the option checks of `create lb` and what goes on the wire | |
| `CrudCommands` | every create, delete, set and file command line: refusal, gates, requests | `LbOptions`, `ExitCode` |
| `GatewayCommand` | one such command run, and run again, against a gateway | `CrudCommands` |
| `GatewayCommandProof` | theorems about `GatewayCommand` and every verdict of `CrudCommands` | |
| `SessionToken` | invocations in a row and the session they share | `ExitCode` |
| `IpConfig` | the interface dump as a directory and what applying it brings back | |
| `SaveApply` | `save` and `apply` between logins, restarts and kills | `SessionToken`, `IpConfig` |
| `SaveApplyProof` | theorems about the session, the saved files and the rules that come back | |
| `InterfaceProof` | theorems about the interfaces that come back, and the types | `SaveApplyProof` |
| `MC*` | instances for TLC | |

### BackendRun

`pc` is the progress of `cmd.Run` (`start`, `wait` for the process, `handoff` from
the watcher goroutine, `drain` of the pipes, `classify`, `done`), `watch` the
goroutine that waits for the context. The tree is adversarial: any process may
fork, leave the group, close its pipes, change the host, exit or die at any time,
and a killed process dies only eventually (a write in progress completes). os/exec
is not under `src/`; it is modelled from its documented behaviour as `runWithStdin`
configures it, in particular that `Wait` prefers the process's own error and
otherwise returns the context's, and that it does so whenever `Cancel` returned
nil. `Cancel` maps ESRCH to nil, and a zombie accepts the signal, which together
give the race of finding 1.

`Outcome` is the classification after `cmd.Run`: `ErrWaitDelay` is not a failure,
an `ExitError` is the backend's status, anything else is "never ran".

### Appliance and its tables

`ApplianceCommands` gives, for each command line, either a local refusal with its
code or the request it dispatches. Operator values are tokens; a shape check is
membership. `Appliance` runs the request: `CheckArguments`, then a spawn for the
handshake, `HandshakeReturns` (allowed, degraded read, or stop), then a spawn for
the operation, `OperationReturns`. The spawns are steps of `RunOutcome`, which
`BackendRun` is shown to implement, so the composition needs no process tree. The
backend that runs the operation need not be the build that shook hands. It is
trusted in one thing only (`SaysUnchanged`): a status of its own other than 0 and
PARTIAL is its word that nothing changed. What a backend prints under `--json` is
a success payload, a partial one (backup create only), an operation error with its
own exit and correlation ID, or something that validates as neither. After a
successful operation the copying of its output may fail (`OutputFailed`): the write
error is returned raw and becomes exit 7, whatever the operation did.

### SnapshotFile

One action per system call of `WriteFileAtomic`, any of which may fail
(`StepFails`), be the last one before a kill (`Killed`) or before a power loss.
The disk keeps no order by itself: `flushed` are the files whose contents survive,
`mayName` the files the path may name after a power loss. A directory flush makes
the current name the only one. `era` and `clock` are history variables that number
the publications. The checksum is modelled by what `VerifySnapshotChecksum`
distinguishes: field present, canonical, matching the contents, agreeing with the
header. `GetRefused` is a request without an answer or with a status other than 200:
nothing is written. The second caller, `LogArchiveDownload`, streams: its body may
break off while it is being written.

### LifecycleVerdict and GatewayLifecycle

The verdict operators are the decision chains of `PersistResult.Verdict`,
`RestoreResult.Verdict`, `doRestore`, `decodeMaintenance` and the audit-sink
commands, over bodies reduced to the fields they read. The gateway (external) is
what the decoders and their comments say of it: a running configuration, the
document on disk that a restart replays, a restore pipeline that validates, plans,
applies, writes through, rolls back, and may fail to roll back. Requests stay in
`inflight` after the client gave up, so a late one may still be applied; answers
may be lost, or cut off after their header; a proxy may answer instead, also with a
502 in the place of an answer to a request that was applied (`AnswerReplaced`).

### LbOptions, CrudCommands and GatewayCommand

`CrudCommands!Verdict` maps a command line (verb, command, the flags given, for
`create lb` its option record) to what the command does before it talks to the
gateway: a local refusal, or the features to look for and the list of requests.
A request names the exit codes its answers may become and the fields the
properties are about. `LbOptions` is the validation of `create lb` and the optional
numbers it sends; the order of its checks decides only the message, so it is a
conjunction. The numbers are of two sorts: the queue and band numbers are pointers
(`u32IfGiven`, `tripleIfGiven`), on the wire whenever their flag was given, a zero
too; the others are plain `omitempty` numbers, whose zero is never on the wire
(`OmitEmpty`), so that what the gateway does with such a zero is its own choice
(`StoredAfter`: the value it had, or its default).

`GatewayCommand` runs the plan: `ReadFails` and `PassGate` are the feature gate
over the `/version` answer, which is read once and kept; `Decide`, `Send` and
`Proceed` the loop over the requests; `ClassifyAnswer` the common classification.
The peer may be any build (a gateway with some features, an older one, not a
gateway at all), applies or refuses, leaves out fields it does not know, and may be
replaced at any time. A request whose answer does not come stays in `late` and may
still be applied, also during the next attempt of the same line.

### SessionToken, IpConfig and SaveApply

`SessionToken` has the invocations: `Invoke` picks a command, `PersistentPreRunE`
decides which token it sends or refuses it, and the login commands follow. A token
file is written as `os.WriteFile` does, truncated and then filled, so that a kill
between `FileStep` and `FillFile` leaves an empty file. A body that could not be
read after its context was cancelled is an answer without a token. `damaged`
remembers the two legitimate causes of an empty session file. A login waits at its
prompts (`Prompting`) until the operator answers or standard input ends
(`OperatorStep`).

`IpConfig` is pure: a topology, the directory `Nlpdump` writes for it (bridges,
then bonds, then the rest by index; one master file per link; VLANs listed under
the link they are on), and the effect of `apply --per-intf` on one interface.
A route is over a gateway, of the device alone, or over several next hops: the
second is dumped with the next hop `<nil>` and refused by `ip` on apply (`NilHop`),
the third has no link index and is not dumped. A VXLAN on no link ends `AddLink`
before its directory is made (`Baseless`), unless a VXLAN on it makes one; one
without a local address is dumped with `<nil>` for it and not brought back.
`Expressible` names the topologies the directory can hold; it is where the limits
of the format are stated (a link with a VXLAN and a bridge, VLANs on a bridge,
routes of a bridge member or of the VLANs on it, memberless bridges, bridges that
are members, VXLANs without an underlay or a local address are not), and
`Recoverable` what comes back of them: all but the routes of the last two kinds.
VLANs are the links with a dotted name, as in the code. The kernel is external:
`ip link set down` flushes the routes of a link and of its VLANs, and `Stacked` says
which topologies it admits (unique names, VLANs on a link, VXLANs on a link or on
none, masters that are bridges or bonds, no link below itself).

`SaveApply` runs `save` as fetch, backup (`mv`), copy (`cp`), per domain, and
`apply` as one request per rule. Each of these may fail or be the last before a
kill; `faults` counts what went wrong since the last good dump of a domain. `Good`
tells a dump of the gateway's own answer from an error body or a cut file.

## 3. Runs

| Run | Instance | Shows |
|---|---|---|
| `backend_run` | leader and two children, exit statuses 0 and 4, with and without a deadline; 32 thousand states | types; status is the leader's; cancelled group is gone; liveness; refinement of `RunOutcome` |
| `backend_run_race` | one child | **violation**, finding 1 |
| `appliance` | every command line over 8 tokens and 6 file states, 6 lifecycle requests, 7 backend builds, statuses 0, 5, 7, 8, 42; 110 thousand states | allowlist agreement, advertised mutations only, earned success, PARTIAL exactly when unknown, degraded reads, retryable codes |
| `appliance_backup` | same | **violation**, finding 2 |
| `snapshot_file` | two overlapping invocations, each a snapshot, a strict snapshot or an archive, all 18 answers and the refusals; 655 thousand states | whole, verified, failure-free path; flushed means flushed; refinement of `AtomicFile` |
| `gateway_lifecycle` | two operators, every command and flag, any number of restarts; 676 thousand states | durability, confirmed success, half-applied is PARTIAL, refusals changed nothing |
| `gateway_maintenance` | same | **violation**, finding 3 |
| `gateway_restore` | same | **violation**, finding 4 |
| `crud` | every command line of `MCGatewayCommand` (each command with its accepted and refused forms), two attempts, four peers; 88 thousand states | earned success, refusals, dropped fields are warned about, numbers stored as given, ranks and roles exist, stop at the first failure, termination |
| `crud_retry` | same | **violation**, finding 5 |
| `save_apply` | eight operators: one logs in and out (3 invocations), one saves single domains (3), one saves and applies all four (2), five have hosts of 4 to 6 links (a save and an apply per link, 3 for the host the directory cannot express); 494 thousand states | no lockout without a cause, the session file follows the gateway, one fault leaves a good dump, round trips of rules and interfaces, termination |
| `save_exit` | same | **violation**, finding 6 |

Why the bounds are enough. Two children show every relation between members of the
tree (in the group or not, holding a pipe or not, alive after the leader or not),
and the proofs cover the rest. The exit statuses of `appliance` are one inside the
taxonomy for each class (retryable, failed, partial), success, and one outside it.
The backend builds cover full, legacy, truncated, wrong-major and drifted
contracts and typed errors that agree and disagree with their exit. Two downloads
are enough for one to publish while the other is anywhere, and the proof covers any
number. Two operators are enough for a change to be superseded between a commit and
its report.

Two attempts of a line are enough for a request of the first to arrive during the
second. A host needs one invocation to save and one per interface to apply; the
operators are kept apart because the session, the dumps of the gateway's domains
and the interfaces do not influence one another beyond the token, which the login
operator also uses for a save. `TwoFaults` caps the fault counter at the point
where the property no longer claims anything.

Where an invocation ends and the model stops with it (`CHECK_DEADLOCK FALSE`)
deadlock is not checked; `crud` and `save_apply` rest explicitly in their final
states and are checked for it.

**Fairness.** In `crud` and `save_apply` it is weak fairness of the command's own
steps: the process is scheduled, its local commands end, and a request's deadline
passes (10 seconds unless `--timeout` changes it; `--timeout 0` removes the deadline
and with it both termination properties). Nothing is assumed of the gateway, the
network or the operator: `set login` waits at its prompts without a deadline, its
`OperatorStep` has no fairness, and `EveryInvocationEnds` says that an invocation
ends or stays at such a prompt for ever. In `backend_run` the Go runtime schedules `cmd.Run`
and the watcher, timers fire (the deadline, `WaitDelay`), and the kernel completes
the death of a killed leader. Nothing is assumed of the tree: it may ignore its
pipes, outlive the leader, and hang. A leader in uninterruptible sleep for ever
would hang the real run as well; that is the one thing the kernel's fairness
excludes.

## 4. What the violations show

1. **A completed mutation reported as "could not be executed"** (`backend_run_race`).
   The backend changes the host and exits 0 as the deadline passes; `Cancel` reports
   success, os/exec returns the context's error, and `runWithStdin` reports
   UNAVAILABLE. `RetryableIsSafe` states the retry rule with two cases excepted, so
   any other way to break it would be seen: this one, and a mutation that succeeded
   and whose output could not be written (`mutating.go:114-119`, exit 7).
2. **A partial backup with exit 0 is a success** (`appliance_backup`): the payload
   validator accepts `PARTIAL`/`INCOMPLETE` and nothing turns it into exit 8.
3. **A cut-off answer to `set maintenance` is a plain request failure**
   (`gateway_maintenance`), against the comment on `MaintenanceSet`.
4. **A committed restore whose answer is lost is retryable** (`gateway_restore`),
   against rule 5 of the exit codes; maintenance and the audit sinks handle the
   same case as `recovery-required`.
5. **A create whose answer is lost is retryable** (`crud_retry`), against the same
   rule and for the same reason, in every create, delete and set command: they all
   report a request without an answer through `Unavailablef`.
6. **A refused save exits 0** (`save_exit`): `BFDdump` returns no error for any
   status but 200; the other dumps store what an error body decodes to.
   `SaveKeepsAGoodCopy` shows that the previous dump survives one such save, in the
   `.bk`, and not a second.

Five things are worth knowing beside the runs. An empty
session file refuses every command, `set login` included, although its message
says to run that (`NoLockoutWithoutCause` states when such a file can come to be).
`apply` exits 0 whatever its requests became. And `apply --per-intf X --ipv4route`
returns after the routes (`apply.go:75-79`), so that the files of other domains
given on the same line are skipped with exit 0: `RoutesOnly` in
`RoundTripKeepsCore`. A backend that exits 8 under `--json` with a document that
does not validate (`payload.go:74-98`, `appliance.go:222-267`) is reported as a
contract mismatch (6), where `host-backend-contract.md:70-74` leaves the choice of 6
or 8 to the ambiguity rule and has an outcome that indicates partial application
yield 8, and that rule (5 of `exit-codes.md`) says 8 when the state may have changed; `PartialExactlyWhenUnknown` states this case as the
code has it, beside those that are PARTIAL. And the same rule is missed by the
second exception of `RetryableIsSafe` above, a change reported as exit 7 because
its output could not be written.

## 5. What is proved

TLAPS proves every safety invariant, the action property and both refinements
that the passing runs check, for every value of the constants that satisfies the
named assumptions. TLC evaluates the assumptions on the instances, and checked the
inductive invariants there before they were proved.

**`BackendRunProof`**, from `TreeAssumption` (the leader is not one of its
children) and `CodesAssumption` (statuses are naturals and 0 is one). `RunInv` adds
to the types and `NoSurvivorInGroup` the conjuncts of `Progress`: the leader is
alive exactly while its status is undecided, the error `cmd.Run` carries agrees with
that status (`ErrAgrees`), and so does the result (`ResultAgrees`).
`ReportedStatusIsTheLeaders` alone is not inductive: the status is decided several
steps, and two goroutines, before it is reported. From it: the types, the two safety
properties, and that `BackendRun` implements `RunOutcome` (every tree step is a
touch, a decision or a stutter; `Classify` is a `Return` of an admissible result).

**`SnapshotFileProof`**, from `FilesAssumption` (the old file, no file and the
temporary files differ). `FileInv` adds to the safety properties what holds between
two system calls (`StepsInOrder`: not published before the rename, whole before the
sync, flushed before the close) and `PublicationsInOrder`. From it the types, the
four safety properties, and that `SnapshotFile` implements
`AtomicFile`, for any number of concurrent invocations.

**`ApplianceProof`**, from `ExitAssumption`, `CommandsAssumption` (a local refusal
is a usage error or a failed precondition) and `ImagesAssumption`; the command
lines, operator values and backend builds are otherwise arbitrary. `ApplianceInv`
says of each phase where its facts came from: what a Result says stays true of the
process (`RunInv`), a handshake that is over was vouched for or failed with a code
of its own and only a read goes on after one that failed (`HandshakeInv`), the host
is changed only by a mutating operation that did not end by saying it changed
nothing (`TouchInv`), and the final verdict is the local refusal, the handshake's or
the operation's (`VerdictInv`). The properties relate the exit code to an earlier
spawn, so none is inductive by itself. `PublicAllowed` rests on `ArgvInv` and on a
lemma per command: every argv a public command builds passes the allowlist.

**`GatewayLifecycleProof`**, from `ConfigsAssumption`, for any number of operators.
`LifecycleInv`: what is on the wire fits what the gateway did for that request
(`ClientInv`), and the last change applied is running, and on disk when it was
written through (`LastInv`). A lemma per verdict operator says what it makes of
every answer that fits. From it the types, `SuccessIsConfirmed`,
`CommittedSurvivesRestart`, `HalfAppliedIsPartial` and `RefusalChangedNothing`.

**`GatewayCommandProof`**, from `MaxAttemptsAssumption`, `LinesAssumption` (a flag
is given finitely often; the verb is the command's) and `BuildsAssumption` (a
gateway serves what it advertises). `EveryVerdictFits` goes through every create,
delete, set and file command: which requests a line may send, behind which gates,
ending in which codes. `CommandInv` then follows a plan: the requests before the
current one were applied (`EarnedInv`), nothing of this attempt is in flight while a
refusal is possible (`HarmlessInv`), what is late is a request of an attempt of this
line (`LateInv`), every field that will be sent is still behind a gate, advertised,
or warned about (`GateInv`), and the numbers stored (`NumInv`).
From it the types, the five safety properties and `StopsAtFirstFailure`, for any
lines, plans and number of attempts.

**`SaveApplyProof`**, from `AccountsAssumption`, `MenusAssumption`,
`DomainsAssumption`, `ConfigAssumption` (only load balancers are managed) and
`ApplyAssumption` (apply has no EndPoint flag), for any accounts, operators, domains
and number of invocations. `LockoutInv` follows a blank token through the queue of
files to be written; `FollowInv` says that the last file still to be written will
agree with the gateway. `CopyInv` counts, at each step of a replacement, which of
saved file, backup and temporary file are good; `SaveKeepsAGoodCopy` speaks of idle
states only and says nothing about the middle of a save. `RoundInv` says that after
a restart the gateway has only what apply sent, and that every domain of an apply is
still to come or complete.

**`InterfaceProof`** adds `HostsAssumption` (every host is `Stacked`, which admits
VXLANs on no link and routes of every kind), for any topology of any size.
`HostInv`: a whole directory is the dump of something the host had, and the host has
nothing its topology does not have, nor, once restarted, a route that is not
`Recoverable`. `MendInv`: after a restart the host is whole, or every interface
applied so far is `Mended` (its routes over a gateway, its bridge or bond, and the
VLANs and VXLANs on it are there). `ApplySound`,
`ApplyGrows` and `ApplyMends` are what one `ApplyIpConfigPerInterface` does;
`ApplyGrows` is where `Expressible` forbids routes on members. When every interface
present was applied, the host is whole (`AllMended`): a missing link of least height
would be physical, on an interface that was applied (an expressible topology has no
VXLAN on none), or a bridge or bond with a member that was. The order of the interfaces plays no part. From these
`InterfacesRoundTrip` and, with the exit codes, `SaveApply`'s `TypeOK`.

What the proofs changed in the models. Some `CASE` expressions had overlapping arms,
whose order means something to TLC and nothing in TLA+; they are disjoint now. The
parser of flags in the allowlist is stated without recursion.
`RoundTripKeepsCore` did not except `RoutesOnly`, which its instance could not
reach. `HostsAssumption` had been a habit of the instances and is now stated.

Only model-checked: the four liveness properties (`TimeoutBoundsRun`,
`StragglerCannotHang`, `CommandEnds`, `EveryInvocationEnds`), since fairness is
outside the prover's reach. The properties of the six violation runs are false.

## 6. Not modelled

`PROJECT.json` lists every component. Left out for good: rendering and get
commands (no state change), URL, header and TLS construction (pure I/O). The
backend, the gateway, the kernel and os/exec are external and modelled from how the
code uses them. Payload schemas are reduced to valid or not; capability lists to
approved or not; the bodies of create and set requests to the fields a gate or a
property distinguishes. `--json` error documents are not shown to carry the right
text. The secret-file checks are modelled at one instant. Of the netlink dump the
addresses, neighbours, forwarding entries and MTU are left out: they are lists
copied line by line. Concurrent saves (which share a temporary name within a
second) are not modelled: one operator saves at a time.

Small things that are left out, each where it would be. The JSON report of a
download that was published may fail to be written (`lifecycle.go:154-159`), which
exits 7 with the document in place; the model ends with the storing. A stray 200
object that carries a `result` field of its own is taken to come from the gateway
(`Intercepted` has none). `create apikey --api-key-stdin` reads standard input
without a deadline before any request and is not among the lines of `CommandEnds`.
Fields no gate protects, such as `jwt_auth_profile` of `create lb`, are not among
a request's fields, so `DroppedFieldWasWarned` says nothing of them.

## 7. Plan

1. Payload validators as operators checked against a reference definition over
   bounded inputs; the readiness verdicts of the lifecycle reads.
2. The secret file as shared state with a writer between the check and the read.
3. Theorems that delimit the findings: each violated property with its exact
   exception, as `RetryableIsSafe` has it for finding 1.
