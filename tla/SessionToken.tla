---------------------------- MODULE SessionToken ----------------------------
(***************************************************************************)
(* One loxicmd invocation after the other on an operator's host, and the   *)
(* session they share: the token file every command reads before it runs,  *)
(* which set login, set refresh and set logout write and remove.  A file   *)
(* is written in place (truncated, then filled), and the process may be    *)
(* killed between any two steps.                                           *)
(*                                                                         *)
(* A token is named after the account it was issued to.                    *)
(***************************************************************************)
EXTENDS ExitCode, Sequences, FiniteSets

CONSTANTS
  Accounts,  \* users of the gateway
  Menus      \* operator -> [commands, runs, live, topologies]: what one runs, the
             \* bound on how often, the sessions there are at first

ASSUME AccountsAssumption == {"absent", "empty", "none"} \cap Accounts = {}
ASSUME MenusAssumption ==
  \A m \in DOMAIN Menus :
    /\ Menus[m].live \subseteq Accounts
    /\ \A c \in Menus[m].commands : c.as \in Accounts

VARIABLES
  menu,    \* the operator, fixed from the start
  runs,    \* invocations so far
  cmd,     \* the command of the last invocation
  pc,      \* "idle" between invocations, else the step to take
  exit,    \* the exit code of the last invocation, Running or Killed
  tok,     \* the token it sends, or NoToken
  clean,   \* whether nothing was refused, lost or damaged in it and since
  todo,    \* the token files it still has to write or remove
  session, \* the session token file: "absent", "empty" or a token
  refresh, \* the refresh token file
  live,    \* the tokens the gateway accepts
  damaged  \* whether a blank token was typed or a token write was cut short

invocation == <<menu, runs, cmd, tok>>
tokens     == <<session, refresh, live, damaged>>

Running == -1
Killed  == -2
NoToken == "none"
Blank   == "empty"
NoCommand == [op |-> "none"]

InitSession ==
  /\ menu \in DOMAIN Menus /\ runs = 0 /\ cmd = NoCommand
  /\ pc = "idle" /\ exit = OK /\ tok = NoToken /\ clean = TRUE /\ todo = <<>>
  /\ session = "absent" /\ refresh = "absent" /\ live = Menus[menu].live /\ damaged = FALSE

End(code) == pc' = "idle" /\ exit' = code /\ todo' = <<>>
Goto(step) == pc' = step /\ UNCHANGED <<exit, todo>>
Keeps == UNCHANGED clean
Soils == clean' = FALSE

-----------------------------------------------------------------------------
(* Starting                                                                *)

Invoke ==
  /\ pc = "idle" /\ runs < Menus[menu].runs
  /\ cmd' \in Menus[menu].commands
  /\ runs' = runs + 1 /\ pc' = "prerun" /\ exit' = Running
  /\ tok' = NoToken /\ clean' = TRUE /\ todo' = <<>>
  /\ UNCHANGED <<menu, tokens>>

\* PersistentPreRunE: --token-file and --token come before the session file;
\* an absent session is unauthenticated, one that is empty, cannot be read or
\* breaks the rules of secret files is refused.
PersistentPreRunE ==
  /\ pc = "prerun"
  /\ \/ /\ cmd.auth = "unusable --token-file" /\ End(Precondition) /\ UNCHANGED tok
     \/ /\ cmd.auth \in Accounts /\ tok' = cmd.auth /\ Goto("run")
     \/ /\ cmd.auth = "session" /\ session # "absent" /\ End(Precondition) /\ UNCHANGED tok
     \/ /\ cmd.auth = "session"
        /\ CASE session = "absent" -> Goto("run") /\ UNCHANGED tok
             [] session = Blank    -> End(Precondition) /\ UNCHANGED tok
             [] OTHER              -> Goto("run") /\ tok' = session
  /\ Keeps /\ UNCHANGED <<menu, runs, cmd, tokens>>

-----------------------------------------------------------------------------
(* The gateway                                                             *)

\* Nothing tells the CLI that a session ended on the gateway.
Expire ==
  /\ \E t \in live : live' = live \ {t}
  /\ UNCHANGED <<invocation, pc, exit, clean, todo, session, refresh, damaged>>
Authorised == tok \in live

-----------------------------------------------------------------------------
(* set login                                                               *)

Set(file, value) == [file |-> file, value |-> value]
\* Typed tokens are trimmed and not looked at: a blank line is a token.
Typed == Accounts \cup {Blank}

\* Mutant: an answer without a token is stored.
SaveTokenUnchecked(answer) ==
  /\ clean' = (answer \in Accounts)
  /\ pc' = "files" /\ UNCHANGED exit /\ todo' = <<Set("session", answer)>>
\* PrintAndSaveTokenResult reports its failures on stdout only: the command
\* exits 0 without a session when the answer cannot be read or has no token.
PrintAndSaveTokenResult(answer) ==
  /\ clean' = (answer \in Accounts)
  /\ IF answer \in Accounts
     THEN pc' = "files" /\ UNCHANGED exit /\ todo' = <<Set("session", answer)>>
     ELSE End(OK)

\* Without --provider a session is one of the gateway's own users, by password.
Is(op, provider) == pc = "run" /\ cmd.op = op /\ cmd.provider = provider
\* A login waits at its prompts for the operator, without a deadline.
Prompting == \E p \in {"password", "google", "manual"} : Is("login", p)
\* Standard input ends before the answer.
StdinEnds == Prompting /\ End(Failed) /\ Keeps /\ UNCHANGED <<invocation, tokens>>
TypePassword ==
  Is("login", "password") /\ Goto("login") /\ Keeps /\ UNCHANGED <<invocation, tokens>>

\* google and manual store what is typed; google stores two files in turn.
TypedLogin(files) ==
  \E typed \in [files -> Typed] :
    /\ pc' = "files" /\ UNCHANGED exit /\ Keeps
    /\ todo' = IF "refresh" \in files
               THEN <<Set("session", typed["session"]), Set("refresh", typed["refresh"])>>
               ELSE <<Set("session", typed["session"])>>
    /\ damaged' = (damaged \/ typed["session"] = Blank)
GoogleLogin ==
  Is("login", "google") /\ TypedLogin({"session", "refresh"})
    /\ UNCHANGED <<invocation, session, refresh, live>>
ManualLogin ==
  Is("login", "manual") /\ TypedLogin({"session"}) /\ UNCHANGED <<invocation, session, refresh, live>>

PasswordLogin ==
  /\ pc = "login"
  /\ \/ End(Unavailable) /\ Soils /\ live' \in {live, live \cup {cmd.as}}
     \/ End(FromHTTPStatus(401)) /\ Soils /\ UNCHANGED live
     \/ /\ live' = live \cup {cmd.as}
        /\ \E answer \in {cmd.as, Blank} : PrintAndSaveTokenResult(answer)
  /\ UNCHANGED <<invocation, session, refresh, damaged>>

-----------------------------------------------------------------------------
(* set logout and set refresh                                              *)

Remove(file) == Set(file, "absent")
Removes(files) == pc' = "files" /\ UNCHANGED exit /\ todo' = [i \in DOMAIN files |-> Remove(files[i])]
\* Mutant: the status of the answer is not looked at.
PasswordLogoutAnyStatus ==
  /\ Is("logout", "password")
  /\ \/ End(Unavailable) /\ Soils /\ live' \in {live, live \ {tok}}
     \/ live' \in {live, live \ {tok}} /\ Removes(<<"session">>) /\ Keeps
  /\ UNCHANGED <<invocation, session, refresh, damaged>>
PasswordLogout ==
  /\ Is("logout", "password")
  /\ \/ End(Unavailable) /\ Soils /\ live' \in {live, live \ {tok}}
     \/ End(FromHTTPStatus(401)) /\ Soils /\ UNCHANGED live
     \/ Authorised /\ live' = live \ {tok} /\ Removes(<<"session">>) /\ Keeps
  /\ UNCHANGED <<invocation, session, refresh, damaged>>
\* The other providers' tokens are forgotten here and not revoked.
ForgetTokens ==
  /\ \/ Is("logout", "google") /\ Removes(<<"refresh", "session">>)
     \/ Is("logout", "manual") /\ Removes(<<"session">>)
  /\ Keeps /\ UNCHANGED <<invocation, tokens>>

\* The pair of files goes to the gateway as it is, even when the two are not
\* of one account; only the refresh token is judged there.
Refresh ==
  /\ Is("refresh", "google")
  /\ \/ /\ session = "absent" \/ refresh = "absent"
        /\ End(Precondition) /\ Keeps /\ UNCHANGED live
     \/ /\ session # "absent" /\ refresh # "absent"
        /\ \/ End(Unavailable) /\ Soils /\ UNCHANGED live
           \/ End(FromHTTPStatus(403)) /\ Soils /\ UNCHANGED live
           \/ /\ refresh \in Accounts
              /\ live' = live \cup {refresh}
              /\ \E answer \in {refresh, Blank} : PrintAndSaveTokenResult(answer)
  /\ UNCHANGED <<invocation, session, refresh, damaged>>

UnknownProvider ==
  /\ pc = "run"
  /\ \/ cmd.op \in {"login", "logout"} /\ cmd.provider \notin {"password", "google", "manual"}
     \/ cmd.op = "refresh" /\ cmd.provider # "google"
  /\ End(InvalidArgument) /\ Keeps /\ UNCHANGED <<invocation, tokens>>

-----------------------------------------------------------------------------
(* The token files                                                         *)

Store(file, value) ==
  /\ session' = IF file = "session" THEN value ELSE session
  /\ refresh' = IF file = "refresh" THEN value ELSE refresh

\* os.Remove, or the truncation os.WriteFile begins with.
FileStep ==
  /\ pc = "files"
  /\ IF todo = <<>> THEN End(OK) /\ UNCHANGED <<session, refresh>>
     ELSE IF Head(todo).value = "absent"
     THEN /\ Store(Head(todo).file, "absent")
          /\ todo' = Tail(todo) /\ UNCHANGED <<pc, exit>>
     ELSE Store(Head(todo).file, Blank) /\ Goto("fill")
  /\ Keeps /\ UNCHANGED <<invocation, live, damaged>>
FillFile ==
  /\ pc = "fill"
  /\ Store(Head(todo).file, Head(todo).value)
  /\ pc' = "files" /\ todo' = Tail(todo) /\ UNCHANGED exit
  /\ Keeps /\ UNCHANGED <<invocation, live, damaged>>
\* A typed login reports a failed write, the others only print it.
FileFails ==
  /\ pc \in {"files", "fill"} /\ todo # <<>>
  /\ IF Head(todo).value = "absent" THEN todo' = Tail(todo) /\ UNCHANGED <<pc, exit>>
     ELSE End(IF cmd.op = "login" /\ cmd.provider # "password" THEN Failed ELSE OK)
  /\ Soils /\ damaged' = (damaged \/ pc = "fill")
  /\ UNCHANGED <<invocation, session, refresh, live>>

\* The process is killed.
KillSession ==
  /\ pc # "idle"
  /\ End(Killed) /\ Soils
  /\ damaged' = (damaged \/ pc = "fill")
  /\ UNCHANGED <<invocation, session, refresh, live>>

OperatorStep == StdinEnds \/ TypePassword \/ GoogleLogin \/ ManualLogin
SessionStep ==
  \/ PersistentPreRunE \/ PasswordLogin \/ PasswordLogout \/ ForgetTokens \/ Refresh
  \/ UnknownProvider \/ FileStep \/ FillFile \/ FileFails

=============================================================================
