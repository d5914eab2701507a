------------------------- MODULE ApplianceCommands -------------------------
(***************************************************************************)
(* The command layer of `loxicmd appliance' (cmd/appliance): what each     *)
(* command refuses locally and which backend request it builds.            *)
(*                                                                         *)
(* Operator-supplied values are members of small sets: an address, a path  *)
(* or a name is a token, and the shape checks of the code are membership   *)
(* of the token in the set of values the check lets through.               *)
(***************************************************************************)
EXTENDS BackendContract

Unset  == "unset"                             \* the empty string: a flag not given
Tokens == {"203.0.113.10", "/p", "rel", "-x", "admin", "gateway", "json", Unset}

CanonicalIPv4 == {"203.0.113.10"}
Absolute      == {"/p"}                       \* filepath.IsAbs
UsernameShape == Tokens \ {Unset, "-x", "/p"}
LogComponents == {"gateway"}
MaxLogLines   == 10000

\* The state of a secret-bearing file when the command looks at it.
FileStates == {"absent", "symlink", "irregular", "shared", "empty", "private"}

Refuse(code, comp) == [code |-> code, comp |-> comp, req |-> [sub |-> "none", args |-> <<>>,
                       secret |-> FALSE], json |-> FALSE, mutating |-> FALSE]
Usage              == Refuse(InvalidArgument, "none")

Dispatch(sub, args, secret, json, mutating) ==
  [code |-> OK, comp |-> "none", req |-> [sub |-> sub, args |-> args, secret |-> secret],
   json |-> json, mutating |-> mutating]

-----------------------------------------------------------------------------

\* CheckSecretPath
CheckSecretPath(path, file) ==
  IF path \notin Absolute THEN Usage
  ELSE CASE file = "absent"                             -> Refuse(Precondition, "file-read-failed")
         [] file \in {"symlink", "irregular", "shared"} -> Refuse(Precondition, "secret-file-refused")
         [] OTHER                                       -> Refuse(OK, "none")

\* ReadSecretFile: the check, then the read; an empty secret is refused.
ReadSecretFile(path, file) ==
  IF CheckSecretPath(path, file).code = OK /\ file = "empty"
  THEN Refuse(Precondition, "secret-file-refused")
  ELSE CheckSecretPath(path, file)

StatusCmd(json)          == Dispatch("status", <<>>, FALSE, json, FALSE)
NetworkValidateCmd(json) == Dispatch("network validate", <<>>, FALSE, json, FALSE)

PublicAddressCmd(addr, noRestart, json) ==
  IF addr \notin CanonicalIPv4 THEN Usage
  ELSE Dispatch("public-address configure",
                <<addr>> \o (IF noRestart THEN <<"--no-restart">> ELSE <<>>), FALSE, json, TRUE)

GatewayRegisterCmd(username, passwordFile, file, json) ==
  IF username = Unset \/ passwordFile = Unset \/ username \notin UsernameShape THEN Usage
  ELSE IF ReadSecretFile(passwordFile, file).code # OK THEN ReadSecretFile(passwordFile, file)
  ELSE Dispatch("gateway register-local",
                <<"--username", username, "--password-stdin">>, TRUE, json, TRUE)

CredentialsCmd(terminal, json) ==
  IF json THEN Usage
  ELSE IF ~terminal THEN Refuse(Precondition, "console-required")
  ELSE Dispatch("credentials bootstrap", <<>>, FALSE, FALSE, TRUE)

\* diagnosticsOutputValue: -o/--output is a format or the archive path.
DiagnosticsCmd(redact, output, json) ==
  LET format == output = "json"
      path   == IF format THEN Unset ELSE output
  IN  IF ~redact \/ (path # Unset /\ path \notin Absolute) THEN Usage
      ELSE Dispatch("diagnostics create",
                    <<"--redact">> \o (IF path = Unset THEN <<>> ELSE <<"--output", path>>),
                    FALSE, json \/ format, TRUE)

\* since: absent, a duration within maxLogSince, or anything else; lines: 0
\* means absent.
LogsCmd(component, redact, since, lines, json) ==
  IF \/ component \notin LogComponents
     \/ ~redact
     \/ since = "invalid"
     \/ lines # 0 /\ lines \notin 1..MaxLogLines
  THEN Usage
  ELSE Dispatch("logs",
                <<component, "--redact">>
                  \o (IF since = "absent" THEN <<>> ELSE <<"--since", since>>)
                  \o (IF lines = 0 THEN <<>> ELSE <<"--lines", "n">>),
                FALSE, json, TRUE)

BackupKeyCreateCmd(keyFile, file, json) ==
  IF keyFile \notin Absolute THEN Usage
  ELSE IF file # "absent" THEN Refuse(Precondition, "secret-file-refused")
  ELSE Dispatch("backup key-create", <<"--key-file", keyFile>>, FALSE, json, TRUE)

ArchiveCommands == {"backup create", "backup verify"}

\* Mutant: the archive path is not checked for its shape.
BackupArchiveCmdUnchecked(sub, archive, keyFile, file, json) ==
  IF archive = Unset \/ keyFile = Unset THEN Usage
  ELSE IF CheckSecretPath(keyFile, file).code # OK THEN CheckSecretPath(keyFile, file)
  ELSE Dispatch(sub, <<archive, "--key-file", keyFile>>, FALSE, json, TRUE)

BackupArchiveCmd(sub, archive, keyFile, file, json) ==
  IF archive \notin Absolute \/ keyFile = Unset THEN Usage
  ELSE IF CheckSecretPath(keyFile, file).code # OK THEN CheckSecretPath(keyFile, file)
  ELSE Dispatch(sub, <<archive, "--key-file", keyFile>>, FALSE, json, TRUE)

\* Every appliance command line over the tokens above.
PublicCommands ==
  UNION {
    {StatusCmd(j), NetworkValidateCmd(j)}
      \cup {PublicAddressCmd(a, n, j) : a \in Tokens, n \in BOOLEAN}
      \cup {GatewayRegisterCmd(u, p, f, j) : u, p \in Tokens, f \in FileStates}
      \cup {CredentialsCmd(t, j) : t \in BOOLEAN}
      \cup {DiagnosticsCmd(r, o, j) : r \in BOOLEAN, o \in Tokens}
      \cup {LogsCmd(c, r, s, n, j) : c \in Tokens, r \in BOOLEAN,
             s \in {"absent", "1h", "invalid"}, n \in {-1, 0, 1, MaxLogLines, MaxLogLines + 1}}
      \cup {BackupKeyCreateCmd(k, f, j) : k \in Tokens, f \in FileStates}
      \cup {BackupArchiveCmd(s, a, k, f, j) : s \in ArchiveCommands,
             a, k \in Tokens, f \in FileStates}
    : j \in BOOLEAN}

\* The request forms the adapter keeps for lifecycle plans and executions: no
\* public command builds them.
LifecycleRequests ==
  {Dispatch("restore plan", <<"/p", "--key-file", "/p">>, FALSE, TRUE, FALSE),
   Dispatch("restore plan", <<>>, FALSE, TRUE, FALSE),
   Dispatch("restore execute", <<"--plan-hash", "-x", "--confirm", "h">>, FALSE, TRUE, TRUE),
   Dispatch("restore execute", <<"--plan-hash">>, FALSE, TRUE, TRUE),
   Dispatch("restore execute", <<>>, FALSE, TRUE, FALSE),
   Dispatch("update status", <<"op">>, FALSE, FALSE, FALSE)}

=============================================================================
