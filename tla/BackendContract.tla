-------------------------- MODULE BackendContract --------------------------
(***************************************************************************)
(* The tables and checks of pkg/backend/backend.go that decide what may be *)
(* spawned: the argv allowlist and the contract-version handshake.         *)
(***************************************************************************)
EXTENDS Integers, Sequences, SequencesExt, ExitCode

-----------------------------------------------------------------------------
(***************************************************************************)
(* The argv allowlist.  A flag of `valued' takes exactly one value token.  *)
(***************************************************************************)

Rule(min, max, flags, valued, mutating, stdinSecret) ==
  [minPositionals |-> min, positionals |-> max, flags |-> flags, valued |-> valued,
   mutating |-> mutating, stdinSecret |-> stdinSecret]

AllowedCommands ==
  {"contract-version", "status", "network validate", "public-address configure",
   "gateway register-local", "credentials bootstrap", "diagnostics create", "logs",
   "backup key-create", "backup create", "backup verify", "restore plan", "restore execute",
   "update plan", "update execute", "update status", "rollback plan", "rollback execute",
   "rollback status", "factory-reset plan", "factory-reset execute"}

RuleOf(sub) ==
  CASE sub \in {"contract-version", "status", "network validate", "factory-reset plan"} ->
         Rule(0, 0, {}, {}, FALSE, FALSE)
    [] sub \in {"update plan", "update status", "rollback status"} ->
         Rule(1, 1, {}, {}, FALSE, FALSE)
    [] sub = "restore plan" ->
         Rule(1, 1, {}, {"--key-file"}, FALSE, FALSE)
    [] sub = "rollback plan" ->
         Rule(1, 1, {}, {"--archive", "--key-file"}, FALSE, FALSE)
    [] sub = "public-address configure" ->
         Rule(0, 1, {"--no-restart"}, {}, TRUE, FALSE)
    [] sub = "gateway register-local" ->
         Rule(0, 0, {"--password-stdin"}, {"--username"}, TRUE, TRUE)
    [] sub = "credentials bootstrap" ->
         Rule(0, 0, {}, {}, TRUE, FALSE)
    [] sub = "diagnostics create" ->
         Rule(0, 0, {"--redact"}, {"--output"}, TRUE, FALSE)
    [] sub = "logs" ->
         Rule(0, 1, {"--redact"}, {"--since", "--lines"}, TRUE, FALSE)
    [] sub = "backup key-create" ->
         Rule(0, 0, {}, {"--key-file"}, TRUE, FALSE)
    [] sub \in {"backup create", "backup verify"} ->
         Rule(0, 1, {}, {"--key-file"}, TRUE, FALSE)
    [] sub \in {"restore execute", "update execute", "rollback execute", "factory-reset execute"} ->
         Rule(0, 0, {}, {"--plan-hash", "--confirm"}, TRUE, FALSE)

AllowedArgv == [sub \in AllowedCommands |-> RuleOf(sub)]

\* Tokens that start with "-": the flags of the rules, and one that is none.
FlagShaped ==
  {"--no-restart", "--password-stdin", "--username", "--redact", "--output", "--since",
   "--lines", "--key-file", "--archive", "--plan-hash", "--confirm", "-x"}

\* argvRule.validate: leading positionals within bounds, then only flags of
\* the rule, a valued flag taking the next token whatever its shape.  `heads'
\* are the positions the flag loop looks at.
ValidArgs(rule, args) ==
  LET n == Len(args)
      EndOfPositionals(i) ==
        /\ \A k \in 1..(i - 1) : args[k] \notin FlagShaped
        /\ i <= n => args[i] \in FlagShaped
      Accepted(i, heads) ==
        \/ i = n + 1
        \/ i <= n /\ args[i] \in rule.flags /\ i + 1 \in heads
        \/ i < n /\ args[i] \in rule.valued /\ i + 2 \in heads
  IN  \E first \in 1..(n + 1) :
        /\ EndOfPositionals(first)
        /\ first - 1 \in rule.minPositionals..rule.positionals
        /\ \E heads \in SUBSET (first..(n + 1)) :
             first \in heads /\ \A i \in heads : Accepted(i, heads)

\* validateRequest: the request of a read-only or mutating entry point.
ValidRequest(req, mutating) ==
  /\ req.sub \in DOMAIN AllowedArgv
  /\ AllowedArgv[req.sub].mutating = mutating
  /\ ValidArgs(AllowedArgv[req.sub], req.args)
  /\ req.secret => AllowedArgv[req.sub].stdinSecret

-----------------------------------------------------------------------------
(***************************************************************************)
(* The contract-version handshake.                                         *)
(***************************************************************************)

LegacyContractCommandCount == 10

CommandOrder ==
  <<"status", "network validate", "public-address configure", "gateway register-local",
    "credentials bootstrap", "diagnostics create", "logs", "backup key-create",
    "backup create", "backup verify", "restore plan", "restore execute", "update plan",
    "update execute", "update status", "rollback plan", "rollback execute",
    "rollback status", "factory-reset plan", "factory-reset execute">>

ReadOnlyCommands ==
  {"status", "network validate", "restore plan", "update plan", "update status",
   "rollback plan", "rollback status", "factory-reset plan"}

\* The capability lists are compared element by element and nothing else is
\* done with them: one approved value stands for the approved list.
ContractCommands ==
  [i \in 1..Len(CommandOrder) |->
     [name |-> CommandOrder[i], readOnly |-> CommandOrder[i] \in ReadOnlyCommands,
      caps |-> "approved"]]

\* Contract.validate: shape, major, then the approved matrix or its legacy
\* prefix.  Every refusal is a contract mismatch.
ValidContract(c) ==
  /\ c.wellFormed
  /\ c.major = 1
  /\ Len(c.commands) \in {LegacyContractCommandCount, Len(ContractCommands)}
  /\ IsPrefix(c.commands, ContractCommands)

\* Mutant: the command is looked up in the approved table, not the answer.
AdvertisedByTable(c, name, readOnly) ==
  /\ \E j \in DOMAIN ContractCommands : ContractCommands[j].name = name
  /\ (name \in ReadOnlyCommands) = readOnly

\* requireAdvertisedCommand
Advertised(c, name, readOnly) ==
  /\ \E i \in DOMAIN c.commands :
       /\ c.commands[i].name = name
       /\ \E j \in DOMAIN ContractCommands : c.commands[i] = ContractCommands[j]
  /\ (name \in ReadOnlyCommands) = readOnly

\* decodeBackendContractError: the approved failures of contract-version.
ApprovedContractErrors ==
  {[exit |-> Precondition,     comp |-> "BACKEND_RELEASE_MARKER_MISSING", retryable |-> FALSE],
   [exit |-> ContractMismatch, comp |-> "BACKEND_RELEASE_MARKER_INVALID", retryable |-> FALSE],
   [exit |-> ContractMismatch, comp |-> "BACKEND_CONTRACT_INVALID",       retryable |-> FALSE],
   [exit |-> Unavailable,      comp |-> "BACKEND_HANDSHAKE_UNAVAILABLE",  retryable |-> TRUE]}

=============================================================================
