--------------------------- MODULE SaveApplyProof ---------------------------
(***************************************************************************)
(* The session file, the saved files and their backups, for any accounts,  *)
(* domains and commands: what an operator may rely on after kills, failed  *)
(* writes, refused answers and restarts.                                   *)
(***************************************************************************)
EXTENDS SaveApply, TLAPS

\* The steps that write token files, dump and apply.
Writing   == {"files", "fill"}
Replacing == {"remove", "move", "copy", "copying"}
Saving    == {"save"} \cup Replacing
Applying  == {"apply", "post"}

\* The command that is in each of them.
PhaseInv ==
  /\ pc \in {"idle", "prerun", "run", "login"} \cup Writing \cup Saving \cup Applying
  /\ pc = "login" => cmd.op = "login"
  /\ pc \in Writing => cmd.op \in {"login", "logout", "refresh"}
  /\ pc \in Saving => cmd.op = "save"
  /\ pc \in Applying => cmd.op = "apply"

-----------------------------------------------------------------------------
(* The session                                                             *)

Jobs == [file : {"session", "refresh"}, value : {"absent"} \cup Typed]

\* The session file is blank only for the moment between its truncation and
\* its filling, or with a cause; a blank token is queued only with a cause.
LockoutInv ==
  /\ todo \in Seq(Jobs) /\ damaged \in BOOLEAN
  /\ pc \notin Writing => todo = << >>
  /\ pc = "fill" => todo # << >> /\ Head(todo).value # "absent"
  /\ \A i \in DOMAIN todo : todo[i] = Set("session", Blank) => damaged
  /\ session = Blank /\ ~damaged => pc = "fill" /\ Head(todo).file = "session"

\* What the session file is to be after a login by password, a logout or a
\* refresh.
Follows == cmd.op \in {"logout", "refresh"} \/ (cmd.op = "login" /\ cmd.provider = "password")
Wanted  == CASE cmd.op = "login"  -> cmd.as
             [] cmd.op = "logout" -> "absent"
             [] OTHER             -> refresh

\* Nothing else is in the way of that.
Revoked ==
  /\ cmd.op = "logout" /\ cmd.provider = "password" => tok \notin live
  /\ cmd.op = "refresh" => refresh \in Accounts

\* The last file such a command still has to write is the session file, or it
\* is written.
FollowInv ==
  /\ pc \in Writing /\ clean /\ Follows =>
       /\ Revoked
       /\ cmd.op = "refresh" => \A i \in DOMAIN todo : todo[i].file = "session"
       /\ IF todo = << >> THEN session = Wanted ELSE todo[Len(todo)] = Set("session", Wanted)
  /\ pc = "idle" /\ exit = OK /\ clean /\ runs > 0 /\ Follows => Revoked /\ session = Wanted

-----------------------------------------------------------------------------
(* The saved files                                                         *)

IsMap(f) == f = [d \in Domains |-> f[d]]

\* Between two saves of a domain, by the faults since its last good one.
Kept(d) ==
  /\ faults[d] = 0 => Good(cur[d])
  /\ faults[d] = 1 => Good(cur[d]) \/ Good(bak[d])

\* An old backup directory would swallow the saved one.
Backed(d) == d = "IP" => bak[d].state = "absent"

\* The domain whose file is being replaced.
Replaced(d) ==
  /\ pc = "remove" =>
       /\ faults[d] = 0 => Good(cur[d]) /\ Good(tmp)
       /\ faults[d] = 1 => Good(cur[d]) \/ Good(tmp)
  /\ pc = "move" =>
       /\ faults[d] = 0 => Good(cur[d]) /\ Good(tmp) /\ Backed(d)
       /\ faults[d] = 1 => Good(tmp) \/ (Good(cur[d]) /\ Backed(d))
  /\ pc \in {"copy", "copying"} =>
       /\ faults[d] = 0 => Good(bak[d]) /\ Good(tmp)
       /\ faults[d] = 1 => Good(bak[d]) \/ Good(tmp)

CopyInv ==
  /\ IsMap(cur) /\ IsMap(bak) /\ faults \in [Domains -> 0..TwoFaults]
  /\ pc \in Saving => list \in Seq(Domains)
  /\ pc \in Replacing => list # << >>
  /\ \A d \in Domains : IF pc \in Replacing /\ d = Dumping THEN Replaced(d) ELSE Kept(d)

-----------------------------------------------------------------------------
(***************************************************************************)
(* Phases                                                                  *)
(***************************************************************************)

\* The steps of save and of apply.
SaveStep ==
  runSave \/ EndSave \/ Fetch \/ RemoveBackup \/ Move \/ Copy \/ CopyDone \/ CopyFails
ApplyStep ==
  ApplyCmd \/ EndApply \/ ApplyPerInterface \/ OpenDump \/ PostRule \/ EndDomain

\* What save and apply leave alone of the session: everything.
Aside ==
  /\ pc \notin Writing \cup {"idle", "prerun"}
  /\ UNCHANGED <<menu, runs, cmd, tok, session, refresh, live, damaged>>
  /\ todo' \in {todo, << >>}

\* Save leaves the session alone.
LEMMA SaveSteps ==
  ASSUME PhaseInv, SaveStep
  PROVE  Aside /\ pc' \in {"idle"} \cup Saving /\ cmd.op = "save"
<1> USE DEF Aside, PhaseInv, Writing, Replacing, Saving, Applying, invocation, tokens,
            Goto, End, Fail
<1>1. CASE runSave
  BY <1>1 DEF runSave
<1>2. CASE EndSave
  BY <1>2 DEF EndSave, Persist
<1>3. CASE Fetch
  BY <1>3 DEF Fetch, Fetched, RefusedDump, Undecodable
<1>4. CASE RemoveBackup
  BY <1>4 DEF RemoveBackup
<1>5. CASE Move
  BY <1>5 DEF Move
<1>6. CASE Copy
  BY <1>6 DEF Copy
<1>7. CASE CopyDone
  BY <1>7 DEF CopyDone
<1>8. CASE CopyFails
  BY <1>8 DEF CopyFails
<1> QED BY <1>1, <1>2, <1>3, <1>4, <1>5, <1>6, <1>7, <1>8 DEF SaveStep

\* Apply leaves the session alone.
LEMMA ApplySteps ==
  ASSUME PhaseInv, ApplyStep
  PROVE  Aside /\ pc' \in {"idle"} \cup Applying /\ cmd.op = "apply"
<1> USE DEF Aside, PhaseInv, Writing, Replacing, Saving, Applying, invocation, tokens,
            Goto, End
<1>1. CASE ApplyCmd
  BY <1>1 DEF ApplyCmd
<1>2. CASE EndApply
  BY <1>2 DEF EndApply
<1>3. CASE ApplyPerInterface
  BY <1>3 DEF ApplyPerInterface
<1>4. CASE OpenDump
  BY <1>4 DEF OpenDump
<1>5. CASE PostRule
  BY <1>5 DEF PostRule
<1>6. CASE EndDomain
  BY <1>6 DEF EndDomain
<1> QED BY <1>1, <1>2, <1>3, <1>4, <1>5, <1>6 DEF ApplyStep

\* A step of the session, the command's own or the operator's at a prompt.
OfSession == SessionStep \/ OperatorStep
\* Such a step is in its own phases.
LEMMA SessionSteps ==
  ASSUME OfSession
  PROVE  /\ pc \in {"prerun", "run", "login"} \cup Writing
         /\ pc' \in {"idle", "run", "login"} \cup Writing
<1> USE DEF End, Goto, Is, Prompting, PrintAndSaveTokenResult, Writing
<1>1. CASE PersistentPreRunE
  BY <1>1 DEF PersistentPreRunE
<1>2. CASE PasswordLogin \/ OperatorStep
  BY <1>2 DEF PasswordLogin, OperatorStep, StdinEnds, TypePassword, GoogleLogin, ManualLogin,
              TypedLogin
<1>3. CASE PasswordLogout \/ ForgetTokens \/ Refresh \/ UnknownProvider
  BY <1>3 DEF PasswordLogout, ForgetTokens, Refresh, UnknownProvider, Removes
<1>4. CASE FileStep \/ FillFile \/ FileFails
  BY <1>4 DEF FileStep, FillFile, FileFails
<1> QED BY <1>1, <1>2, <1>3, <1>4 DEF OfSession, SessionStep

\* The kinds of step there are.
LEMMA Steps ==
  ASSUME [Next]_vars
  PROVE  \/ SaveStep \/ ApplyStep \/ Kill \/ Restart
         \/ /\ OfSession \/ Invoke \/ Expire
            /\ UNCHANGED <<world, files, list, left>>
         \/ UNCHANGED vars
BY DEF Next, Step, SaveStep, ApplyStep, OfSession

\* No command runs at first.
LEMMA PhaseInit == Init => PhaseInv
BY DEF Init, InitSession, PhaseInv, Writing, Replacing, Saving, Applying

\* A command stays in its own phases.
LEMMA PhaseStep == PhaseInv /\ [Next]_vars => PhaseInv'
<1> SUFFICES ASSUME PhaseInv, [Next]_vars PROVE PhaseInv'
  OBVIOUS
<1> USE DEF PhaseInv, Writing, Replacing, Saving, Applying
<1>1. CASE SaveStep
  BY <1>1, SaveSteps DEF Aside
<1>2. CASE ApplyStep
  BY <1>2, ApplySteps DEF Aside
<1>3. CASE Kill
  BY <1>3 DEF Kill, KillSession, End
<1>4. CASE Restart
  BY <1>4 DEF Restart, invocation
<1>5. CASE OfSession
  <2> USE DEF End, Goto, invocation, Is, Prompting, PrintAndSaveTokenResult
  <2>1. CASE PersistentPreRunE
    BY <2>1 DEF PersistentPreRunE
  <2>2. CASE PasswordLogin
    BY <2>2 DEF PasswordLogin
  <2>3. CASE OperatorStep
    BY <2>3 DEF OperatorStep, StdinEnds, TypePassword, GoogleLogin, ManualLogin, TypedLogin
  <2>4. CASE PasswordLogout \/ ForgetTokens
    BY <2>4 DEF PasswordLogout, ForgetTokens, Removes
  <2>5. CASE Refresh
    BY <2>5 DEF Refresh
  <2>6. CASE UnknownProvider
    BY <2>6 DEF UnknownProvider
  <2>7. CASE FileStep \/ FillFile \/ FileFails
    BY <2>7 DEF FileStep, FillFile, FileFails
  <2> QED BY <1>5, <2>1, <2>2, <2>3, <2>4, <2>5, <2>6, <2>7 DEF OfSession, SessionStep
<1>6. CASE Invoke
  BY <1>6 DEF Invoke
<1>7. CASE Expire
  BY <1>7 DEF Expire, invocation
<1>8. CASE UNCHANGED vars
  BY <1>8 DEF vars, invocation
<1> QED BY <1>1, <1>2, <1>3, <1>4, <1>5, <1>6, <1>7, <1>8, Steps

-----------------------------------------------------------------------------
(***************************************************************************)
(* The session file                                                        *)
(***************************************************************************)

\* Jobs, and the values that are none.
LEMMA JobFacts ==
  /\ \A v \in {"absent"} \cup Typed : Set("session", v) \in Jobs /\ Set("refresh", v) \in Jobs
  /\ \A f, v : Set(f, v).file = f /\ Set(f, v).value = v
  /\ Blank \in Typed /\ Blank # "absent" /\ Accounts \subseteq Typed
  /\ Blank \notin Accounts /\ "absent" \notin Typed /\ "session" # "refresh"
BY AccountsAssumption DEF Set, Jobs, Typed, Blank

\* The rest of a queue of jobs.
LEMMA TailFacts ==
  ASSUME NEW q \in Seq(Jobs), q # << >>
  PROVE  /\ Tail(q) \in Seq(Jobs) /\ Head(q) \in Jobs
         /\ Head(q) = q[1] /\ 1 \in DOMAIN q
         /\ \A i \in DOMAIN Tail(q) : i + 1 \in DOMAIN q /\ Tail(q)[i] = q[i + 1]
         /\ Tail(q) # << >> => Tail(q)[Len(Tail(q))] = q[Len(q)]
         /\ Tail(q) = << >> => q[Len(q)] = Head(q)
OBVIOUS

\* A queue of one job, of two, and of removals.
LEMMA QueueFacts ==
  /\ \A a \in Jobs : <<a>> \in Seq(Jobs) /\ <<a>> # << >>
  /\ \A a, b \in Jobs : <<a, b>> \in Seq(Jobs) /\ <<a, b>> # << >>
  /\ [i \in DOMAIN <<"session">> |-> Remove(<<"session">>[i])] = <<Remove("session")>>
  /\ [i \in DOMAIN <<"refresh", "session">> |-> Remove(<<"refresh", "session">>[i])]
       = <<Remove("refresh"), Remove("session")>>
OBVIOUS

\* There is no session file at first.
LEMMA LockoutInit == Init => LockoutInv
<1> SUFFICES ASSUME Init PROVE LockoutInv
  OBVIOUS
<1>1. pc = "idle" /\ todo = << >> /\ session = "absent"
  BY DEF Init, InitSession
<1>2. damaged \in BOOLEAN
  BY Zenon DEF Init, InitSession
<1> QED BY <1>1, <1>2 DEF LockoutInv, Blank, Writing

\* A write that is cut short is on record.
LEMMA Cause ==
  ASSUME damaged \in BOOLEAN, NEW P \in BOOLEAN, damaged' = (damaged \/ P)
  PROVE  damaged' \in BOOLEAN /\ (damaged => damaged') /\ (P => damaged')
BY Zenon

\* A step that leaves the session file and its damage alone, outside the
\* writing of token files.
LEMMA LockoutAside ==
  ASSUME LockoutInv, pc \notin Writing, pc' \notin Writing,
         UNCHANGED <<session, damaged>>, todo' \in {todo, << >>}
  PROVE  LockoutInv'
BY DEF LockoutInv, Writing

\* No step blanks the session file without a cause.
LEMMA LockoutStep == PhaseInv /\ LockoutInv /\ [Next]_vars => LockoutInv'
<1> SUFFICES ASSUME PhaseInv, LockoutInv, [Next]_vars PROVE LockoutInv'
  OBVIOUS
<1>1. CASE SaveStep
  BY <1>1, SaveSteps, LockoutAside DEF Aside, Saving, Replacing, Writing
<1>2. CASE ApplyStep
  BY <1>2, ApplySteps, LockoutAside DEF Aside, Applying, Writing
<1>3. CASE Kill
  <2>1. damaged' \in BOOLEAN /\ (damaged => damaged') /\ (pc = "fill" => damaged')
    BY <1>3, Cause, Zenon DEF Kill, KillSession, LockoutInv
  <2> QED BY <1>3, <2>1 DEF Kill, KillSession, End, LockoutInv, Writing
<1>4. CASE Restart
  BY <1>4, LockoutAside DEF Restart, tokens, Writing
<1>5. CASE OfSession
  <2>1. CASE PersistentPreRunE
    BY <2>1, LockoutAside DEF PersistentPreRunE, End, Goto, tokens, Writing
  <2>2. ASSUME NEW answer, PrintAndSaveTokenResult(answer), pc \notin Writing,
               UNCHANGED <<session, damaged>>
        PROVE  LockoutInv'
    <3>1. CASE answer \in Accounts
      <4>1. todo' = <<Set("session", answer)>> /\ pc' = "files"
        BY <2>2, <3>1 DEF PrintAndSaveTokenResult
      <4>2. Set("session", answer) \in Jobs
        BY <3>1, JobFacts
      <4>3. Set("session", answer).value # Set("session", Blank).value
        BY <3>1, JobFacts
      <4> QED BY <2>2, <4>1, <4>2, <4>3 DEF LockoutInv, Writing
    <3>2. CASE answer \notin Accounts
      BY <2>2, <3>2, LockoutAside DEF PrintAndSaveTokenResult, End, Writing
    <3> QED BY <3>1, <3>2
  <2>3. CASE PasswordLogin
    BY <2>2, <2>3, LockoutAside DEF PasswordLogin, End, Writing
  <2>4. CASE Refresh
    BY <2>2, <2>4, LockoutAside DEF Refresh, Is, End, Writing
  <2>5. ASSUME NEW need, "session" \in need, TypedLogin(need), pc = "run", UNCHANGED session
        PROVE  LockoutInv'
    <3>1. PICK typed \in [need -> Typed] :
            /\ pc' = "files"
            /\ todo' = IF "refresh" \in need
                       THEN <<Set("session", typed["session"]), Set("refresh", typed["refresh"])>>
                       ELSE <<Set("session", typed["session"])>>
            /\ damaged' = (damaged \/ typed["session"] = Blank)
      BY <2>5 DEF TypedLogin
    <3>2. session = Blank => damaged
      BY <2>5 DEF LockoutInv
    <3>3. CASE "refresh" \in need
      <4> DEFINE a == Set("session", typed["session"])
                 b == Set("refresh", typed["refresh"])
      <4>0. a.value = typed["session"] /\ b.file = "refresh"
            /\ Set("session", Blank).value = Blank /\ Set("session", Blank).file = "session"
        BY JobFacts
      <4>1. /\ a \in Jobs /\ b \in Jobs
            /\ a = Set("session", Blank) => damaged'
            /\ b # Set("session", Blank)
        BY <2>5, <3>1, <3>3, <4>0, JobFacts
      <4>2. todo' = <<a, b>>
        BY <3>1, <3>3
      <4> HIDE DEF a, b
      <4> QED BY <2>5, <3>1, <3>2, <4>1, <4>2 DEF LockoutInv, Writing
    <3>4. CASE "refresh" \notin need
      <4> DEFINE a == Set("session", typed["session"])
      <4>0. a.value = typed["session"] /\ Set("session", Blank).value = Blank
        BY JobFacts
      <4>1. a \in Jobs /\ (a = Set("session", Blank) => damaged')
        BY <2>5, <3>1, <3>4, <4>0, JobFacts
      <4>2. todo' = <<a>>
        BY <3>1, <3>4
      <4> HIDE DEF a
      <4> QED BY <2>5, <3>1, <3>2, <4>1, <4>2 DEF LockoutInv, Writing
    <3> QED BY <3>3, <3>4
  <2>6. CASE OperatorStep
    <3>1. CASE StdinEnds \/ TypePassword
      BY <3>1, LockoutAside DEF StdinEnds, TypePassword, Prompting, Is, End, Goto, tokens, Writing
    <3>2. CASE GoogleLogin \/ ManualLogin
      BY <2>5, <3>2 DEF GoogleLogin, ManualLogin, Is
    <3> QED BY <2>6, <3>1, <3>2 DEF OperatorStep
  <2>7. CASE PasswordLogout \/ ForgetTokens
    <3>1. Remove("session") \in Jobs /\ Remove("refresh") \in Jobs
          /\ Remove("session") # Set("session", Blank) /\ Remove("refresh") # Set("session", Blank)
      BY JobFacts DEF Remove
    <3>2. CASE Removes(<<"session">>)
      <4>1. todo' = <<Remove("session")>> /\ pc' = "files"
        BY <3>2, QueueFacts DEF Removes
      <4> QED BY <2>7, <3>1, <4>1 DEF LockoutInv, Writing, PasswordLogout, ForgetTokens, Is, tokens
    <3>3. CASE Removes(<<"refresh", "session">>)
      <4>1. todo' = <<Remove("refresh"), Remove("session")>> /\ pc' = "files"
        BY <3>3, QueueFacts DEF Removes
      <4> QED BY <2>7, <3>1, <4>1 DEF LockoutInv, Writing, PasswordLogout, ForgetTokens, Is, tokens
    <3> QED BY <2>7, <3>2, <3>3, LockoutAside
            DEF PasswordLogout, ForgetTokens, Is, End, tokens, Writing
  <2>8. CASE UnknownProvider
    BY <2>8, LockoutAside DEF UnknownProvider, End, tokens, Writing
  <2>9. CASE FileStep
    <3>1. CASE todo = << >>
      BY <2>9, <3>1 DEF FileStep, End, LockoutInv, Writing
    <3>2. CASE todo # << >> /\ Head(todo).value = "absent"
      BY <2>9, <3>2, TailFacts, JobFacts DEF FileStep, Store, LockoutInv, Writing
    <3>3. CASE todo # << >> /\ Head(todo).value # "absent"
      BY <2>9, <3>3, TailFacts DEF FileStep, Store, Goto, LockoutInv, Writing, Jobs
    <3> QED BY <3>1, <3>2, <3>3
  <2>10. CASE FillFile
    <3>1. todo # << >> /\ todo' = Tail(todo) /\ UNCHANGED damaged /\ pc' = "files"
          /\ session' = IF Head(todo).file = "session" THEN Head(todo).value ELSE session
      BY <2>10 DEF FillFile, Store, LockoutInv
    <3>2. Head(todo).file = "session" /\ Head(todo).value = Blank => damaged
      BY <3>1, TailFacts DEF LockoutInv, Jobs, Set
    <3> QED BY <3>1, <3>2, TailFacts DEF LockoutInv, Writing
  <2>11. CASE FileFails
    <3>0. damaged' \in BOOLEAN /\ (damaged => damaged') /\ (pc = "fill" => damaged')
      BY <2>11, Cause, Zenon DEF FileFails, LockoutInv
    <3>1. CASE Head(todo).value = "absent"
      <4>1. pc = "files" /\ todo # << >> /\ todo' = Tail(todo) /\ UNCHANGED <<pc, session>>
        BY <2>11, <3>1 DEF FileFails, LockoutInv
      <4> QED BY <3>0, <4>1, TailFacts DEF LockoutInv, Writing
    <3>2. CASE Head(todo).value # "absent"
      <4>1. pc' = "idle" /\ todo' = << >> /\ UNCHANGED session
        BY <2>11, <3>2 DEF FileFails, End
      <4>2. session = Blank => damaged'
        BY <2>11, <3>0 DEF FileFails, LockoutInv
      <4> QED BY <3>0, <4>1, <4>2 DEF LockoutInv, Writing
    <3> QED BY <3>1, <3>2
  <2> QED BY <1>5, <2>1, <2>3, <2>4, <2>6, <2>7, <2>8, <2>9, <2>10, <2>11
          DEF OfSession, SessionStep
<1>6. CASE Invoke
  BY <1>6, LockoutAside DEF Invoke, tokens, Writing
<1>7. CASE Expire
  BY <1>7 DEF Expire, LockoutInv, Writing
<1>8. CASE UNCHANGED vars
  BY <1>8 DEF vars, tokens, LockoutInv, Writing
<1> QED BY <1>1, <1>2, <1>3, <1>4, <1>5, <1>6, <1>7, <1>8, Steps

-----------------------------------------------------------------------------
(***************************************************************************)
(* The session file and the gateway                                        *)
(***************************************************************************)

\* No command has run at first.
LEMMA FollowInit == Init => FollowInv
BY DEF Init, InitSession, FollowInv, Writing

\* A step that neither ends a session command with success nor writes files.
LEMMA FollowAside ==
  ASSUME pc' \notin Writing, ~(pc' = "idle" /\ exit' = OK /\ clean' /\ Follows')
  PROVE  FollowInv'
BY DEF FollowInv

\* After a session command ended, tokens may expire and the host restart.
LEMMA FollowIdle ==
  ASSUME FollowInv, UNCHANGED <<runs, cmd, tok, pc, exit, todo, session, refresh>>,
         clean' => clean, live' \subseteq live
  PROVE  FollowInv'
<1>1. (Follows' => Follows) /\ Wanted' = Wanted /\ (Revoked => Revoked')
  BY DEF Follows, Wanted, Revoked
<1> QED BY <1>1 DEF FollowInv

\* An answer of the gateway is queued, or reported as none.
LEMMA FollowAnswer ==
  ASSUME NEW answer, PrintAndSaveTokenResult(answer), UNCHANGED <<cmd, tok, refresh>>,
         cmd.op \in {"login", "refresh"},
         answer \in Accounts => answer = Wanted,
         cmd.op = "refresh" => refresh \in Accounts
  PROVE  FollowInv'
<1>1. CASE answer \notin Accounts
  <2>1. pc' = "idle" /\ ~clean'
    BY <1>1 DEF PrintAndSaveTokenResult, End
  <2> QED BY <2>1 DEF FollowInv, Writing
<1>2. CASE answer \in Accounts
  <2>1. pc' = "files" /\ todo' = <<Set("session", answer)>>
    BY <1>2 DEF PrintAndSaveTokenResult
  <2>2. Wanted' = answer /\ Revoked'
    BY <1>2 DEF Wanted, Revoked
  <2>3. Set("session", answer).file = "session"
    BY JobFacts
  <2> QED BY <2>1, <2>2, <2>3 DEF FollowInv, Writing
<1> QED BY <1>1, <1>2

\* Removals end with that of the session file.
LEMMA FollowRemoves ==
  ASSUME Removes(<<"session">>) \/ Removes(<<"refresh", "session">>),
         UNCHANGED <<cmd, tok, refresh>>, cmd.op = "logout",
         cmd.provider = "password" => tok \notin live'
  PROVE  FollowInv'
<1>1. Wanted' = "absent" /\ Revoked'
  BY DEF Wanted, Revoked
<1>2. pc' = "files" /\ cmd'.op = "logout"
  BY DEF Removes
<1>3. CASE Removes(<<"session">>)
  <2>1. todo' = <<Set("session", "absent")>>
    BY <1>3, QueueFacts DEF Removes, Remove
  <2> QED BY <1>1, <1>2, <2>1 DEF FollowInv, Writing
<1>4. CASE Removes(<<"refresh", "session">>)
  <2>1. todo' = <<Set("refresh", "absent"), Set("session", "absent")>>
    BY <1>4, QueueFacts DEF Removes, Remove
  <2> QED BY <1>1, <1>2, <2>1 DEF FollowInv, Writing
<1> QED BY <1>3, <1>4

\* One file is dealt with, and it was not the last or was the session file.
LEMMA FollowFile ==
  ASSUME FollowInv, LockoutInv, pc \in Writing, todo # << >>,
         UNCHANGED <<cmd, tok, live, clean>>, pc' = "files", todo' = Tail(todo),
         Store(Head(todo).file, Head(todo).value)
  PROVE  FollowInv'
<1> SUFFICES ASSUME clean, Follows'
             PROVE  /\ Revoked'
                    /\ cmd'.op = "refresh" => \A i \in DOMAIN todo' : todo'[i].file = "session"
                    /\ IF todo' = << >> THEN session' = Wanted'
                       ELSE todo'[Len(todo')] = Set("session", Wanted')
  BY DEF FollowInv, Writing
<1>1. /\ Revoked
      /\ cmd.op = "refresh" => \A i \in DOMAIN todo : todo[i].file = "session"
      /\ todo[Len(todo)] = Set("session", Wanted)
  BY DEF FollowInv, Follows
<1>2. todo \in Seq(Jobs)
  BY DEF LockoutInv
<1>3. cmd.op = "refresh" => UNCHANGED refresh
  BY <1>1, <1>2, TailFacts DEF Store
<1>4. Wanted' = Wanted /\ Revoked'
  BY <1>1, <1>3 DEF Wanted, Revoked, Follows
<1>5. cmd'.op = "refresh" => \A i \in DOMAIN todo' : todo'[i].file = "session"
  BY <1>1, <1>2, TailFacts
<1>6. CASE todo' = << >>
  <2>1. Head(todo).file = "session" /\ Head(todo).value = Wanted
    BY <1>1, <1>2, <1>6, TailFacts, JobFacts
  <2> QED BY <1>4, <1>5, <1>6, <2>1 DEF Store
<1>7. CASE todo' # << >>
  BY <1>1, <1>2, <1>4, <1>5, <1>7, TailFacts
<1> QED BY <1>6, <1>7

\* No step lets the session file and the gateway part in a clean run.
LEMMA FollowStep == PhaseInv /\ LockoutInv /\ FollowInv /\ [Next]_vars => FollowInv'
<1> SUFFICES ASSUME PhaseInv, LockoutInv, FollowInv, [Next]_vars PROVE FollowInv'
  OBVIOUS
<1>1. CASE SaveStep
  BY <1>1, SaveSteps, FollowAside DEF Aside, Saving, Replacing, Writing, Follows
<1>2. CASE ApplyStep
  BY <1>2, ApplySteps, FollowAside DEF Aside, Applying, Writing, Follows
<1>3. CASE Kill
  BY <1>3, FollowAside DEF Kill, KillSession, End, Soils, Writing, Killed, OK
<1>4. CASE Restart
  BY <1>4, FollowIdle DEF Restart, Soils, invocation, tokens
<1>5. CASE OfSession
  <2> USE DEF OK, Precondition, Failed, Unavailable, Auth, InvalidArgument, Writing
  <2>1. CASE PersistentPreRunE
    <3>1. pc' = "run" \/ (pc' = "idle" /\ exit' = Precondition)
      BY <2>1 DEF PersistentPreRunE, End, Goto
    <3> QED BY <3>1, FollowAside
  <2>2. CASE PasswordLogin
    <3>1. CASE End(Unavailable) \/ End(FromHTTPStatus(401))
      BY <3>1, FollowAside DEF End, FromHTTPStatus
    <3>2. CASE \E answer \in {cmd.as, Blank} : PrintAndSaveTokenResult(answer)
      BY <2>2, <3>2, FollowAnswer, JobFacts DEF PasswordLogin, PhaseInv, invocation, Wanted
    <3> QED BY <2>2, <3>1, <3>2 DEF PasswordLogin
  <2>3. CASE OperatorStep
    <3>1. CASE StdinEnds \/ TypePassword
      BY <3>1, FollowAside DEF StdinEnds, TypePassword, End, Goto
    <3>2. CASE GoogleLogin \/ ManualLogin
      <4>1. cmd.op = "login" /\ cmd.provider # "password" /\ UNCHANGED cmd
        BY <3>2 DEF GoogleLogin, ManualLogin, Is, invocation
      <4> QED BY <4>1 DEF FollowInv, Follows
    <3> QED BY <2>3, <3>1, <3>2 DEF OperatorStep
  <2>4. CASE PasswordLogout
    <3>1. CASE End(Unavailable) \/ End(FromHTTPStatus(401))
      BY <3>1, FollowAside DEF End, FromHTTPStatus
    <3>2. CASE Removes(<<"session">>) /\ live' = live \ {tok}
      BY <2>4, <3>2, FollowRemoves DEF PasswordLogout, Is, invocation
    <3> QED BY <2>4, <3>1, <3>2 DEF PasswordLogout
  <2>5. CASE ForgetTokens
    BY <2>5, FollowRemoves DEF ForgetTokens, Is, invocation, tokens
  <2>6. CASE Refresh
    <3>1. CASE End(Precondition) \/ End(Unavailable) \/ End(FromHTTPStatus(403))
      BY <3>1, FollowAside DEF End, FromHTTPStatus
    <3>2. CASE /\ refresh \in Accounts
               /\ \E answer \in {refresh, Blank} : PrintAndSaveTokenResult(answer)
      BY <2>6, <3>2, FollowAnswer, JobFacts DEF Refresh, Is, invocation, Wanted
    <3> QED BY <2>6, <3>1, <3>2 DEF Refresh
  <2>7. CASE UnknownProvider
    BY <2>7, FollowAside DEF UnknownProvider, End
  <2>8. CASE FileStep
    <3>1. CASE todo = << >>
      <4>1. UNCHANGED <<cmd, tok, live, refresh, session, clean>> /\ pc = "files" /\ pc' = "idle"
        BY <2>8, <3>1 DEF FileStep, End, Keeps, invocation
      <4>2. (Follows' => Follows) /\ Wanted' = Wanted /\ (Revoked => Revoked')
        BY <4>1 DEF Follows, Wanted, Revoked
      <4> QED BY <3>1, <4>1, <4>2 DEF FollowInv
    <3>2. CASE todo # << >> /\ Head(todo).value = "absent"
      BY <2>8, <3>2, FollowFile DEF FileStep, Keeps, invocation
    <3>3. CASE todo # << >> /\ Head(todo).value # "absent"
      <4>1. /\ UNCHANGED <<cmd, tok, live, todo, clean>> /\ pc = "files" /\ pc' = "fill"
            /\ Store(Head(todo).file, Blank)
        BY <2>8, <3>3 DEF FileStep, Goto, Keeps, invocation
      <4> SUFFICES ASSUME clean, Follows'
                   PROVE  /\ Revoked'
                          /\ cmd'.op = "refresh" => \A i \in DOMAIN todo' : todo'[i].file = "session"
                          /\ todo'[Len(todo')] = Set("session", Wanted')
        BY <3>3, <4>1 DEF FollowInv
      <4>2. /\ Revoked
            /\ cmd.op = "refresh" => \A i \in DOMAIN todo : todo[i].file = "session"
            /\ todo[Len(todo)] = Set("session", Wanted)
        BY <3>3, <4>1 DEF FollowInv, Follows
      <4>3. cmd.op = "refresh" => UNCHANGED refresh
        BY <3>3, <4>1, <4>2, TailFacts DEF Store, LockoutInv
      <4>4. Wanted' = Wanted /\ Revoked'
        BY <4>1, <4>2, <4>3 DEF Wanted, Revoked, Follows
      <4> QED BY <4>1, <4>2, <4>4
    <3> QED BY <3>1, <3>2, <3>3
  <2>9. CASE FillFile
    BY <2>9, FollowFile DEF FillFile, Keeps, invocation, LockoutInv
  <2>10. CASE FileFails
    <3>1. ~clean'
      BY <2>10 DEF FileFails, Soils
    <3> QED BY <3>1 DEF FollowInv
  <2> QED BY <1>5, <2>1, <2>2, <2>3, <2>4, <2>5, <2>6, <2>7, <2>8, <2>9, <2>10
          DEF OfSession, SessionStep
<1>6. CASE Invoke
  BY <1>6, FollowAside DEF Invoke, Writing
<1>7. CASE Expire
  BY <1>7, FollowIdle DEF Expire, invocation
<1>8. CASE UNCHANGED vars
  BY <1>8, FollowIdle DEF vars, invocation, tokens
<1> QED BY <1>1, <1>2, <1>3, <1>4, <1>5, <1>6, <1>7, <1>8, Steps

\* The session is what the commands on it make of it.
SessionInv == PhaseInv /\ LockoutInv /\ FollowInv

\* Every reachable state satisfies the session's inductive invariant.
THEOREM SessionInvariant == Spec => []SessionInv
<1>1. Init => SessionInv
  BY PhaseInit, LockoutInit, FollowInit DEF SessionInv
<1>2. SessionInv /\ [Next]_vars => SessionInv'
  BY PhaseStep, LockoutStep, FollowStep DEF SessionInv
<1> QED BY <1>1, <1>2, PTL DEF Spec

\* The session file that shuts the operator out of every command, set login
\* included (root.go refuses an empty one), is left only by a blank token
\* typed in or by a write that failed or was killed half way, never by an
\* answer of the gateway or by the other order of the commands.
THEOREM LockoutHasCause == Spec => []NoLockoutWithoutCause
<1>1. SessionInv => NoLockoutWithoutCause
  BY DEF SessionInv, LockoutInv, NoLockoutWithoutCause
<1> QED BY <1>1, SessionInvariant, PTL

\* After a login that got its token and a logout that got its answer, with no
\* failed write, the file on disk agrees with the gateway (set_login.go).
THEOREM SessionAgrees == Spec => []SessionFollowsGateway
<1>1. SessionInv => SessionFollowsGateway
  BY DEF SessionInv, FollowInv, SessionFollowsGateway, Follows, Wanted, Revoked
<1> QED BY <1>1, SessionInvariant, PTL

-----------------------------------------------------------------------------
(***************************************************************************)
(* The saved files                                                         *)
(***************************************************************************)

\* The list of domains a command goes through is drawn from those it names.
LEMMA SelectedFacts ==
  ASSUME NEW what, what \subseteq Domains
  PROVE  SelectedIn(Dumps, what) \in Seq(Domains)
<1>1. \A d : Chosen(d, what) \in Seq(Domains)
  BY DEF Chosen
<1>2. \A s, t \in Seq(Domains) : s \o t \in Seq(Domains)
  OBVIOUS
<1> QED BY <1>1, <1>2 DEF SelectedIn

\* One more fault of domain d.
LEMMA FaultFacts ==
  ASSUME faults \in [Domains -> 0..TwoFaults], NEW d \in Domains, Fault(d)
  PROVE  /\ faults' \in [Domains -> 0..TwoFaults]
         /\ \A e \in Domains : e # d => faults'[e] = faults[e]
         /\ faults'[d] # 0 /\ (faults'[d] = 1 => faults[d] = 0)
<1>1. \A n \in 0..2 : Min({n + 1, 2}) = IF n = 2 THEN 2 ELSE n + 1
  BY DEF Min
<1> QED BY <1>1 DEF Fault, TwoFaults

\* Dumps are good, and what is good decodes.
LEMMA GoodFacts ==
  /\ \A d : Good(DumpOf(d))
  /\ \A c : Good(c) => c.state = "whole"
BY DEF Good, DumpOf, Content

\* At first nothing is saved, so no copy can be lost.
LEMMA CopyInit == Init => CopyInv
<1> SUFFICES ASSUME Init PROVE CopyInv
  OBVIOUS
<1>1. /\ cur = [d \in Domains |-> Absent] /\ bak = cur
      /\ faults = [d \in Domains |-> TwoFaults] /\ pc = "idle"
  BY DEF Init, InitSession
<1> HIDE DEF Absent
<1> QED BY <1>1 DEF CopyInv, IsMap, Kept, TwoFaults, Saving, Replacing

\* Whatever neither saves nor touches the files.
LEMMA CopyAside ==
  ASSUME CopyInv, UNCHANGED <<cur, bak, faults>>, pc \notin Replacing, pc' \notin Saving
  PROVE  CopyInv'
BY DEF CopyInv, IsMap, Kept, Saving

\* The same within a save, between two domains.
LEMMA CopyBetween ==
  ASSUME CopyInv, UNCHANGED <<cur, bak, faults>>, pc \notin Replacing, pc' = "save",
         list' \in Seq(Domains)
  PROVE  CopyInv'
BY DEF CopyInv, IsMap, Kept, Saving, Replacing

\* A fault that leaves the files as they are and this domain behind.
LEMMA CopyGivesUp ==
  ASSUME CopyInv, UNCHANGED <<cur, bak>>, Fault(Dumping),
         pc \in Saving, list # << >>, pc' \notin Replacing,
         pc' \in Saving => list' \in Seq(Domains)
  PROVE  CopyInv'
<1>1. Dumping \in Domains
  BY DEF CopyInv, Dumping
<1>2. /\ faults' \in [Domains -> 0..TwoFaults]
      /\ \A e \in Domains : e # Dumping => faults'[e] = faults[e]
      /\ faults'[Dumping] # 0 /\ (faults'[Dumping] = 1 => faults[Dumping] = 0)
  BY <1>1, FaultFacts DEF CopyInv
<1>3. ASSUME NEW d \in Domains PROVE Kept(d)'
  <2>1. CASE d # Dumping
    BY <1>2, <1>3, <2>1 DEF CopyInv, Kept
  <2>2. CASE d = Dumping
    <3>1. faults[d] = 0 => Good(cur[d]) \/ Good(bak[d])
      BY <1>3, <2>2 DEF CopyInv, Kept, Replaced, Saving, Replacing
    <3> QED BY <1>2, <2>2, <3>1 DEF Kept
  <2> QED BY <2>1, <2>2
<1> QED BY <1>2, <1>3 DEF CopyInv, IsMap

\* A step on one domain's files.
LEMMA CopyAt ==
  ASSUME CopyInv, pc \in Saving, list # << >>, UNCHANGED list, pc' \in Replacing,
         IsMap(cur'), IsMap(bak'), faults' \in [Domains -> 0..TwoFaults],
         \A e \in Domains : e # Dumping =>
           cur'[e] = cur[e] /\ bak'[e] = bak[e] /\ faults'[e] = faults[e],
         Replaced(Dumping)'
  PROVE  CopyInv'
<1>1. Dumping' = Dumping
  BY DEF Dumping
<1>2. ASSUME NEW d \in Domains, d # Dumping PROVE Kept(d)'
  BY <1>2 DEF CopyInv, Kept
<1> QED BY <1>1, <1>2 DEF CopyInv, IsMap, Saving, Replacing

\* Fetching a dump: what is in the temporary file is good, or a fault is on
\* record.
LEMMA CopyFetch == ASSUME CopyInv, Fetch PROVE CopyInv'
<1>1. /\ pc = "save" /\ list # << >> /\ UNCHANGED <<cur, bak>>
      /\ Dumping \in Domains /\ list \in Seq(Domains) /\ Tail(list) \in Seq(Domains)
  BY DEF Fetch, CopyInv, Saving, Dumping
<1>2. ASSUME NEW content, Fetched(content), UNCHANGED list,
             \/ Good(content) /\ NoFault
             \/ Fault(Dumping)
      PROVE  CopyInv'
  <2>1. tmp' = content /\ pc' \in {"remove", "move"} /\ (pc' = "move" => Dumping # "IP")
    BY <1>2 DEF Fetched, Goto
  <2>2. Kept(Dumping) /\ Dumping' = Dumping
    BY <1>1, <1>2 DEF CopyInv, Replacing, Dumping
  <2>3. CASE Good(content) /\ NoFault
    <3>1. UNCHANGED faults
      BY <2>3 DEF NoFault
    <3>2. Good(cur[Dumping]) \/ faults[Dumping] # 0
      BY <2>2 DEF Kept
    <3>3. Replaced(Dumping)'
      BY <1>1, <2>1, <2>2, <2>3, <3>1, <3>2 DEF Replaced, Backed
    <3> QED BY <1>1, <1>2, <2>1, <3>1, <3>3, CopyAt DEF CopyInv, Saving, Replacing
  <2>4. CASE Fault(Dumping)
    <3>1. /\ faults' \in [Domains -> 0..TwoFaults]
          /\ \A e \in Domains : e # Dumping => faults'[e] = faults[e]
          /\ faults'[Dumping] # 0 /\ (faults'[Dumping] = 1 => faults[Dumping] = 0)
      BY <1>1, <2>4, FaultFacts DEF CopyInv
    <3>2. faults'[Dumping] = 1 => Good(cur[Dumping])
      BY <2>2, <3>1 DEF Kept
    <3>3. Replaced(Dumping)'
      BY <1>1, <2>1, <2>2, <3>1, <3>2 DEF Replaced, Backed
    <3> QED BY <1>1, <1>2, <2>1, <3>1, <3>3, CopyAt DEF CopyInv, Saving, Replacing
  <2> QED BY <1>2, <2>3, <2>4
<1>3. CASE Fetched(DumpOf(Dumping)) /\ NoFault /\ UNCHANGED list
  BY <1>2, <1>3, GoodFacts
<1>4. CASE Fault(Dumping) /\ \E content : Fetched(content) /\ UNCHANGED list
  BY <1>2, <1>4
<1>5. CASE Fault(Dumping) /\ Fail
  <2>1. pc' = "idle"
    BY <1>5 DEF Fail, End
  <2> QED BY <1>1, <1>5, <2>1, CopyGivesUp DEF Saving, Replacing
<1>6. CASE Fault(Dumping) /\ list' = Tail(list) /\ UNCHANGED pc
  BY <1>1, <1>6, CopyGivesUp DEF Saving, Replacing
<1> QED BY <1>3, <1>4, <1>5, <1>6 DEF Fetch, RefusedDump, Undecodable

\* Removing the old backup loses no good copy: the saved file is still there.
LEMMA CopyRemove == ASSUME CopyInv, RemoveBackup PROVE CopyInv'
<1>1. /\ pc = "remove" /\ pc' = "move" /\ list # << >> /\ UNCHANGED <<cur, tmp, list>>
      /\ Dumping \in Domains /\ Dumping' = Dumping
      /\ Replaced(Dumping)
  BY DEF RemoveBackup, Goto, CopyInv, Saving, Replacing, Dumping
<1>2. CASE bak' = [bak EXCEPT ![Dumping] = Absent] /\ NoFault
  <2>1. bak'[Dumping].state = "absent" /\ UNCHANGED faults
    BY <1>1, <1>2 DEF Absent, Content, CopyInv, IsMap, NoFault
  <2>2. Replaced(Dumping)'
    BY <1>1, <2>1 DEF Replaced, Backed
  <2> QED BY <1>1, <1>2, <2>1, <2>2, CopyAt DEF CopyInv, IsMap, Saving, Replacing
<1>3. CASE bak' = [bak EXCEPT ![Dumping] = Cut] /\ Fault(Dumping)
  <2>1. /\ faults' \in [Domains -> 0..TwoFaults]
        /\ \A e \in Domains : e # Dumping => faults'[e] = faults[e]
        /\ faults'[Dumping] # 0 /\ (faults'[Dumping] = 1 => faults[Dumping] = 0)
    BY <1>1, <1>3, FaultFacts DEF CopyInv
  <2>2. Replaced(Dumping)'
    BY <1>1, <2>1 DEF Replaced
  <2> QED BY <1>1, <1>3, <2>1, <2>2, CopyAt DEF CopyInv, IsMap, Saving, Replacing
<1> QED BY <1>2, <1>3 DEF RemoveBackup

\* Moving the saved file away makes it the backup.
LEMMA CopyMove == ASSUME CopyInv, Move PROVE CopyInv'
<1>1. /\ pc = "move" /\ list # << >> /\ Dumping \in Domains /\ Replaced(Dumping)
  BY DEF Move, CopyInv, Saving, Replacing, Dumping
<1>2. CASE /\ cur[Dumping].state = "absent" /\ UNCHANGED <<cur, bak, tmp, list>>
           /\ Goto("copy") /\ NoFault
  <2>1. UNCHANGED faults /\ pc' = "copy" /\ Dumping' = Dumping
    BY <1>2 DEF NoFault, Goto, Dumping
  <2>2. Replaced(Dumping)'
    BY <1>1, <1>2, <2>1, GoodFacts DEF Replaced
  <2> QED BY <1>1, <1>2, <2>1, <2>2, CopyAt DEF CopyInv, IsMap, Saving, Replacing
<1>3. CASE /\ cur' = [cur EXCEPT ![Dumping] = Absent]
           /\ bak' = IF Dumping = "IP" /\ bak[Dumping].state # "absent" THEN bak
                     ELSE [bak EXCEPT ![Dumping] = cur[Dumping]]
           /\ Goto("copy") /\ NoFault /\ UNCHANGED <<tmp, list>>
  <2>1. UNCHANGED faults /\ pc' = "copy" /\ Dumping' = Dumping
    BY <1>3 DEF NoFault, Goto, Dumping
  <2>2. Backed(Dumping) => bak'[Dumping] = cur[Dumping]
    BY <1>1, <1>3 DEF Backed, CopyInv, IsMap
  <2>3. Replaced(Dumping)'
    BY <1>1, <1>3, <2>1, <2>2 DEF Replaced
  <2> QED BY <1>1, <1>3, <2>1, <2>3, CopyAt DEF CopyInv, IsMap, Saving, Replacing
<1>4. CASE Fail /\ Fault(Dumping) /\ UNCHANGED <<cur, bak>>
  <2>1. pc' = "idle"
    BY <1>4 DEF Fail, End
  <2> QED BY <1>1, <1>4, <2>1, CopyGivesUp DEF Saving, Replacing
<1> QED BY <1>2, <1>3, <1>4 DEF Move

\* While the dump is copied the backup or the dump is good.
LEMMA CopyCopies == ASSUME CopyInv, Copy \/ CopyDone \/ CopyFails PROVE CopyInv'
<1>1. /\ pc \in {"copy", "copying"} /\ list # << >> /\ Dumping \in Domains /\ Replaced(Dumping)
      /\ list \in Seq(Domains) /\ Tail(list) \in Seq(Domains)
  BY DEF Copy, CopyDone, CopyFails, CopyInv, Saving, Replacing, Dumping
<1>2. CASE Copy
  <2>1. /\ UNCHANGED <<faults, bak, tmp, list>> /\ pc' = "copying" /\ Dumping' = Dumping
        /\ cur' = [cur EXCEPT ![Dumping] = Cut]
    BY <1>2 DEF Copy, NoFault, Goto, Dumping
  <2>2. Replaced(Dumping)'
    BY <1>1, <2>1 DEF Replaced
  <2> QED BY <1>1, <2>1, <2>2, CopyAt DEF CopyInv, IsMap, Saving, Replacing
<1>3. CASE CopyDone
  <2>1. /\ cur' = [cur EXCEPT ![Dumping] = tmp] /\ list' = Tail(list) /\ pc' = "save"
        /\ faults' = IF Good(tmp) THEN [faults EXCEPT ![Dumping] = 0] ELSE faults
        /\ UNCHANGED bak
    BY <1>3 DEF CopyDone, Goto
  <2>2. ASSUME NEW d \in Domains PROVE Kept(d)'
    <3>1. CASE d = Dumping
      <4>1. /\ faults[d] = 0 => Good(tmp)
            /\ faults[d] = 1 => Good(bak[d]) \/ Good(tmp)
        BY <1>1, <3>1 DEF Replaced
      <4>2. cur'[d] = tmp /\ (Good(tmp) => faults'[d] = 0) /\ (~Good(tmp) => faults'[d] = faults[d])
        BY <1>1, <2>1, <2>2, <3>1 DEF CopyInv, IsMap
      <4> QED BY <2>1, <4>1, <4>2 DEF Kept
    <3>2. CASE d # Dumping
      <4>1. cur'[d] = cur[d] /\ faults'[d] = faults[d]
        BY <1>1, <2>1, <2>2, <3>2 DEF CopyInv, IsMap
      <4>2. Kept(d)
        BY <2>2, <3>2 DEF CopyInv
      <4> QED BY <2>1, <4>1, <4>2 DEF Kept
    <3> QED BY <3>1, <3>2
  <2>3. IsMap(cur') /\ IsMap(bak')
    BY <1>1, <2>1 DEF CopyInv, IsMap
  <2>4. faults' \in [Domains -> 0..TwoFaults]
    BY <1>1, <2>1 DEF CopyInv, TwoFaults
  <2> QED BY <1>1, <2>1, <2>2, <2>3, <2>4 DEF CopyInv, Saving, Replacing
<1>4. CASE CopyFails
  <2>1. pc' = "idle" /\ Fault(Dumping) /\ UNCHANGED <<cur, bak>>
    BY <1>4 DEF CopyFails, Fail, End
  <2> QED BY <1>1, <2>1, CopyGivesUp DEF Saving, Replacing
<1> QED BY <1>2, <1>3, <1>4

\* No step loses the last good copy before the second fault.
LEMMA CopyStep == PhaseInv /\ CopyInv /\ [Next]_vars => CopyInv'
<1> SUFFICES ASSUME PhaseInv, CopyInv, [Next]_vars PROVE CopyInv'
  OBVIOUS
<1>1. CASE runSave
  <2>1. pc = "run" /\ UNCHANGED <<cur, bak, faults>>
    BY <1>1 DEF runSave, files
  <2>2. CASE pc' = "idle"
    BY <2>1, <2>2, CopyAside DEF Saving, Replacing
  <2>3. CASE pc' # "idle"
    <3>1. pc' = "save" /\ list' = SelectedIn(Dumps, cmd.what) /\ validateSaveOptions(cmd)
      BY <1>1, <2>3 DEF runSave, End, Goto
    <3>2. cmd.what \subseteq Domains
      BY <3>1, DomainsAssumption DEF validateSaveOptions, Selections
    <3> QED BY <2>1, <3>1, <3>2, SelectedFacts, CopyBetween DEF Replacing
  <2> QED BY <2>2, <2>3
<1>2. CASE EndSave
  BY <1>2, CopyAside DEF EndSave, Persist, End, files, Saving, Replacing
<1>3. CASE Fetch \/ RemoveBackup \/ Move \/ Copy \/ CopyDone \/ CopyFails
  BY <1>3, CopyFetch, CopyRemove, CopyMove, CopyCopies
<1>4. CASE ApplyStep
  <2>1. pc \notin Replacing /\ pc' \notin Saving
    BY <1>4, ApplySteps DEF Aside, PhaseInv, Saving, Replacing, Applying
  <2>2. UNCHANGED <<cur, bak, faults>>
    BY <1>4 DEF ApplyStep, ApplyCmd, EndApply, ApplyPerInterface, OpenDump, PostRule,
                EndDomain, files
  <2> QED BY <2>1, <2>2, CopyAside
<1>5. CASE Kill
  <2>1. pc' = "idle" /\ UNCHANGED <<cur, bak>>
    BY <1>5 DEF Kill, KillSession, End
  <2>2. CASE pc \in Saving /\ list # << >>
    BY <1>5, <2>1, <2>2, CopyGivesUp DEF Kill, Saving, Replacing
  <2>3. CASE ~(pc \in Saving /\ list # << >>)
    BY <1>5, <2>1, <2>3, CopyAside DEF Kill, NoFault, CopyInv, Saving, Replacing
  <2> QED BY <2>2, <2>3
<1>6. CASE Restart
  BY <1>6, CopyAside DEF Restart, files, Saving, Replacing
<1>7. CASE OfSession /\ UNCHANGED <<world, files, list, left>>
  <2>1. pc \notin Saving /\ pc' \notin Saving
    BY <1>7, SessionSteps DEF Saving, Replacing, Writing
  <2>2. UNCHANGED <<cur, bak, faults>>
    BY <1>7 DEF files
  <2> QED BY <2>1, <2>2, CopyAside DEF Saving, Replacing, Writing
<1>8. CASE (Invoke \/ Expire) /\ UNCHANGED <<world, files, list, left>>
  <2>1. CASE Invoke
    BY <1>8, <2>1, CopyAside DEF Invoke, files, Saving, Replacing
  <2>2. CASE Expire
    BY <1>8, <2>2 DEF Expire, files, CopyInv, IsMap, Kept, Replaced, Backed, Dumping, Saving,
                      Replacing
  <2> QED BY <1>8, <2>1, <2>2
<1>9. CASE UNCHANGED vars
  BY <1>9 DEF vars, files, CopyInv, IsMap, Kept, Replaced, Backed, Dumping, Saving, Replacing
<1> QED BY <1>1, <1>2, <1>3, <1>4, <1>5, <1>6, <1>7, <1>8, <1>9, Steps DEF SaveStep

\* Every reachable state satisfies the inductive invariant of the saved files.
THEOREM CopyInvariant == Spec => []CopyInv
<1>1. Init => PhaseInv /\ CopyInv
  BY PhaseInit, CopyInit
<1>2. PhaseInv /\ CopyInv /\ [Next]_vars => PhaseInv' /\ CopyInv'
  BY PhaseStep, CopyStep
<1> QED BY <1>1, <1>2, PTL DEF Spec

\* One fault after a good save (a kill, a full disk, a failed mv or cp, a
\* refused answer taken for a dump) leaves a good dump of the domain, in the
\* saved file or in its .bk.
THEOREM GoodCopyKept == Spec => []SaveKeepsAGoodCopy
<1>1. CopyInv => SaveKeepsAGoodCopy
  BY DEF CopyInv, Kept, SaveKeepsAGoodCopy, TwoFaults, Replacing
<1> QED BY <1>1, CopyInvariant, PTL

-----------------------------------------------------------------------------
(***************************************************************************)
(* Save, restart, apply                                                    *)
(***************************************************************************)

\* The domains the gateway keeps, and what apply may go through.
Ruled == Domains \ {"IP"}
Names == {"IP", "intf", "LB", "Session", "UlCl", "Firewall", "BFD"}

\* What applying the saved file of domain d makes of it.
Image(d) == {Sent(d, r) : r \in cur[d].data}

\* A file that decodes holds what it was taken of, but for the managed rules.
Faithful(c) == c.state = "whole" => c.data = c.of \ {"managed"}

\* After a restart the gateway has only what apply sent it, from this file or
\* from one that was dumped again since.
DomainInv(d) ==
  /\ Faithful(cur[d])
  /\ d # "LB" => "managed" \notin running[d]
  /\ restarted => \A r \in running[d] : Sent(d, r) = r /\ r # "managed"
  /\ restarted /\ Good(cur[d]) => running[d] \subseteq Image(d)

DumpInv ==
  pc \in Replacing /\ Dumping # "IP" =>
    Faithful(tmp) /\ (Good(tmp) => tmp.of = running[Dumping])

\* Domain d is still to be applied or has been.
Still(d) == \E i \in DOMAIN list : list[i] = d
Complete(d) == Good(cur[d]) => Image(d) \subseteq running[d]

ApplyInv ==
  /\ pc \in Applying =>
       /\ list \in Seq(Names \cap cmd.what)
       /\ clean /\ restarted => \A d \in cmd.what \cap Ruled : Still(d) \/ Complete(d)
  /\ pc = "post" =>
       /\ list # << >> /\ Dumping \in Ruled /\ cur[Dumping].state = "whole"
       /\ left \subseteq cur[Dumping].data
       /\ clean /\ restarted =>
            \A r \in cur[Dumping].data \ left : Sent(Dumping, r) \in running[Dumping]
  /\ pc = "idle" /\ exit = OK /\ clean /\ cmd.op = "apply" /\ restarted /\ ~RoutesOnly =>
       \A d \in cmd.what \cap Ruled : Complete(d)

RoundInv ==
  /\ IsMap(running)
  /\ menu \in DOMAIN Menus /\ (pc # "idle" => cmd \in Menus[menu].commands)
  /\ \A d \in Ruled : DomainInv(d)
  /\ DumpInv
  /\ ApplyInv

\* Sending a rule twice is sending it once, and makes no managed rule.
LEMMA SentFacts ==
  \A d, r : r # "managed" => Sent(d, r) # "managed" /\ Sent(d, Sent(d, r)) = Sent(d, r)
BY DEF Sent, ApplyLbConfig

\* The contents of files that are no dumps.
LEMMA ContentFacts ==
  /\ Absent.state = "absent" /\ Cut.state = "cut short"
  /\ Nothing.data = {} /\ Nothing.of = {} /\ ~Good(Nothing)
BY DEF Absent, Cut, Nothing, Content, Good

\* A dump of a domain is faithful to it.
LEMMA DumpFacts ==
  ASSUME NEW d \in Ruled, d # "LB" => "managed" \notin running[d]
  PROVE  /\ DumpOf(d).data = DumpOf(d).of \ {"managed"}
         /\ DumpOf(d).of = running[d]
<1>1. DumpOf(d).data = Listed(d) /\ DumpOf(d).of = running[d]
  BY DEF DumpOf, Content
<1>2. Listed(d) = running[d] \ {"managed"}
  BY DEF Listed, Lbdump, Ruled
<1> QED BY <1>1, <1>2

\* Before a restart there is nothing to bring back.
LEMMA RoundInit == Init => RoundInv
<1> SUFFICES ASSUME Init PROVE RoundInv
  OBVIOUS
<1>1. /\ cur = [d \in Domains |-> Absent] /\ pc = "idle"
      /\ running = [d \in Domains |-> IF d = "IP" THEN Items(topo) ELSE Config[d]]
      /\ menu \in DOMAIN Menus
  BY DEF Init, InitSession
<1>2. ~restarted
  BY DEF Init
<1>3. ASSUME NEW d \in Ruled PROVE DomainInv(d)
  <2>1. cur[d] = Absent /\ running[d] = Config[d]
    BY <1>1, <1>3 DEF Ruled
  <2> QED BY <1>2, <1>3, <2>1, ContentFacts, ConfigAssumption DEF DomainInv, Faithful, Ruled
<1>4. IsMap(running)
  BY <1>1 DEF IsMap
<1> QED BY <1>1, <1>2, <1>3, <1>4 DEF RoundInv, DumpInv, ApplyInv, Applying, Replacing

\* A domain whose file and rules stay.
LEMMA DomainSame ==
  ASSUME NEW d, DomainInv(d), cur'[d] = cur[d], running'[d] = running[d], UNCHANGED restarted
  PROVE  DomainInv(d)'
<1>1. Image(d)' = Image(d)
  BY DEF Image
<1> QED BY <1>1 DEF DomainInv, Faithful

\* A domain that is complete and loses no rule.
LEMMA CompleteSame ==
  ASSUME NEW d, Complete(d), cur'[d] = cur[d], running[d] \subseteq running'[d]
  PROVE  Complete(d)'
<1>1. Image(d)' = Image(d)
  BY DEF Image
<1> QED BY <1>1 DEF Complete

\* A domain whose saved file is gone or being written.
LEMMA DomainGone ==
  ASSUME NEW d, DomainInv(d), cur'[d].state # "whole", running'[d] = running[d],
         UNCHANGED restarted
  PROVE  DomainInv(d)'
<1>1. ~Good(cur'[d])
  BY GoodFacts
<1> QED BY <1>1 DEF DomainInv, Faithful

\* Steps that leave the gateway and the files alone and end no apply with
\* success.
LEMMA RoundAside ==
  ASSUME RoundInv, UNCHANGED <<running, cur, restarted, menu>>,
         pc' \notin Replacing \cup Applying,
         pc' # "idle" => cmd' \in Menus[menu].commands,
         ~(pc' = "idle" /\ exit' = OK /\ cmd'.op = "apply")
  PROVE  RoundInv'
<1>1. \A d \in Ruled : DomainInv(d)'
  BY DomainSame DEF RoundInv
<1>2. DumpInv' /\ ApplyInv'
  BY DEF DumpInv, ApplyInv, Applying
<1> QED BY <1>1, <1>2 DEF RoundInv, IsMap

\* Steps of a save.
LEMMA RoundSave ==
  ASSUME RoundInv, UNCHANGED <<running, restarted, menu, cmd>>,
         pc # "idle", pc' \in Saving,
         \A d \in Ruled : DomainInv(d)', DumpInv'
  PROVE  RoundInv'
<1>1. ApplyInv'
  BY DEF ApplyInv, Applying, Saving, Replacing
<1> QED BY <1>1 DEF RoundInv, IsMap, Saving, Replacing

\* Save keeps what is known of dumps and rules.
LEMMA RoundSaveStep == ASSUME PhaseInv, CopyInv, RoundInv, SaveStep PROVE RoundInv'
<1>1. /\ pc \notin {"idle", "prerun"} /\ UNCHANGED <<menu, cmd>> /\ cmd.op = "save"
      /\ pc' \in {"idle"} \cup Saving
  BY SaveSteps DEF Aside
<1>2. UNCHANGED <<running, restarted>>
  BY DEF SaveStep, runSave, EndSave, Fetch, RemoveBackup, Move, Copy, CopyDone, CopyFails, world
<1>3. cmd' \in Menus[menu].commands
  BY <1>1 DEF RoundInv
<1>4. CASE UNCHANGED cur /\ pc' \in {"idle", "save"}
  BY <1>1, <1>2, <1>3, <1>4, RoundAside DEF Replacing, Applying
<1>5. ASSUME UNCHANGED cur, pc' \in Replacing, DumpInv' PROVE RoundInv'
  <2>1. \A d \in Ruled : DomainInv(d)'
    BY <1>2, <1>5, DomainSame DEF RoundInv
  <2> QED BY <1>1, <1>2, <1>5, <2>1, RoundSave DEF Saving
<1>6. CASE runSave \/ EndSave
  BY <1>1, <1>4, <1>6 DEF runSave, EndSave, Persist, End, Goto, files
<1>7. CASE Fetch
  <2>1. pc = "save" /\ list # << >> /\ UNCHANGED cur
    BY <1>7 DEF Fetch
  <2>2. ASSUME NEW content, Fetched(content), UNCHANGED list,
               content \in {DumpOf(Dumping), Cut, Nothing}
        PROVE  RoundInv'
    <3>1. tmp' = content /\ pc' \in Replacing /\ Dumping' = Dumping
      BY <2>2 DEF Fetched, Goto, Replacing, Dumping
    <3>2. CASE Dumping = "IP"
      BY <1>5, <2>1, <3>1, <3>2 DEF DumpInv
    <3>3. CASE Dumping # "IP" /\ content = DumpOf(Dumping)
      <4>1. Dumping \in Ruled
        BY <2>1, <3>3 DEF CopyInv, Saving, Ruled, Dumping
      <4>2. Dumping # "LB" => "managed" \notin running[Dumping]
        BY <4>1 DEF RoundInv, DomainInv
      <4>3. content.data = content.of \ {"managed"} /\ content.of = running[Dumping]
        BY <3>3, <4>1, <4>2, DumpFacts
      <4>4. DumpInv'
        BY <1>2, <3>1, <4>3 DEF DumpInv, Faithful
      <4> QED BY <1>5, <2>1, <3>1, <4>4
    <3>4. CASE content \in {Cut, Nothing}
      <4>1. Faithful(content) /\ ~Good(content)
        BY <3>4, ContentFacts, GoodFacts DEF Faithful
      <4>2. DumpInv'
        BY <3>1, <4>1 DEF DumpInv, Faithful
      <4> QED BY <1>5, <2>1, <3>1, <4>2
    <3> QED BY <2>2, <3>2, <3>3, <3>4
  <2>3. CASE Fail
    BY <1>4, <2>1, <2>3 DEF Fail, End
  <2>4. CASE UNCHANGED pc
    BY <1>4, <2>1, <2>4
  <2> QED BY <1>7, <2>2, <2>3, <2>4 DEF Fetch, RefusedDump, Undecodable
<1>8. CASE RemoveBackup
  <2>1. /\ UNCHANGED <<cur, tmp, list>> /\ pc' = "move" /\ pc = "remove"
    BY <1>8 DEF RemoveBackup, Goto
  <2>2. DumpInv'
    BY <1>2, <2>1 DEF RoundInv, DumpInv, Faithful, Dumping, Replacing
  <2> QED BY <1>5, <2>1, <2>2 DEF Replacing
<1>9. ASSUME NEW content, content.state # "whole", UNCHANGED <<tmp, list>>,
             cur' = [cur EXCEPT ![Dumping] = content],
             pc \in Replacing, pc' \in Replacing
      PROVE  RoundInv'
  <2>1. DumpInv'
    BY <1>2, <1>9 DEF RoundInv, DumpInv, Faithful, Dumping
  <2>2. ASSUME NEW d \in Ruled PROVE DomainInv(d)'
    <3>1. DomainInv(d) /\ d \in Domains /\ running'[d] = running[d]
      BY <1>2, <2>2 DEF RoundInv, Ruled
    <3>2. CASE d = Dumping
      <4>1. cur'[d].state # "whole"
        BY <1>9, <3>1, <3>2 DEF CopyInv, IsMap
      <4> QED BY <1>2, <3>1, <4>1, DomainGone
    <3>3. CASE d # Dumping
      <4>1. cur'[d] = cur[d]
        BY <1>9, <3>1, <3>3 DEF CopyInv, IsMap
      <4> QED BY <1>2, <3>1, <4>1, DomainSame
    <3> QED BY <3>2, <3>3
  <2> QED BY <1>1, <1>2, <1>9, <2>1, <2>2, RoundSave DEF Saving
<1>10. CASE Move
  <2>1. CASE UNCHANGED <<cur, tmp, list>> /\ pc' = "copy"
    <3>1. DumpInv'
      BY <1>2, <1>10, <2>1 DEF Move, RoundInv, DumpInv, Faithful, Dumping, Replacing
    <3> QED BY <1>5, <2>1, <3>1 DEF Replacing
  <2>2. CASE cur' = [cur EXCEPT ![Dumping] = Absent] /\ pc' = "copy" /\ UNCHANGED <<tmp, list>>
    BY <1>9, <1>10, <2>2, ContentFacts DEF Move, Replacing
  <2>3. CASE Fail /\ UNCHANGED cur
    BY <1>4, <2>3 DEF Fail, End
  <2> QED BY <1>10, <2>1, <2>2, <2>3 DEF Move, Goto
<1>11. CASE Copy
  BY <1>9, <1>11, ContentFacts DEF Copy, Goto, Replacing
<1>12. CASE CopyDone
  <2>1. /\ cur' = [cur EXCEPT ![Dumping] = tmp] /\ pc' = "save" /\ pc = "copying"
    BY <1>12 DEF CopyDone, Goto
  <2>2. DumpInv'
    BY <2>1 DEF DumpInv, Replacing
  <2>3. ASSUME NEW d \in Ruled PROVE DomainInv(d)'
    <3>1. DomainInv(d) /\ d \in Domains /\ d # "IP" /\ running'[d] = running[d]
      BY <1>2, <2>3 DEF RoundInv, Ruled
    <3>2. CASE d = Dumping
      <4>1. cur'[d] = tmp
        BY <2>1, <3>1, <3>2 DEF CopyInv, IsMap
      <4>2. Faithful(tmp) /\ (Good(tmp) => tmp.of = running[d])
        BY <2>1, <3>1, <3>2 DEF RoundInv, DumpInv, Replacing
      <4>3. ASSUME restarted, Good(tmp) PROVE running[d] \subseteq {Sent(d, r) : r \in tmp.data}
        <5>1. tmp.data = running[d] \ {"managed"}
          BY <4>2, <4>3, GoodFacts DEF Faithful
        <5>2. \A r \in running[d] : Sent(d, r) = r /\ r # "managed"
          BY <3>1, <4>3 DEF DomainInv
        <5> QED BY <5>1, <5>2
      <4> QED BY <1>2, <3>1, <4>1, <4>2, <4>3 DEF DomainInv, Faithful, Image
    <3>3. CASE d # Dumping
      <4>1. cur'[d] = cur[d]
        BY <2>1, <3>1, <3>3 DEF CopyInv, IsMap
      <4> QED BY <1>2, <3>1, <4>1, DomainSame
    <3> QED BY <3>2, <3>3
  <2> QED BY <1>1, <1>2, <2>1, <2>2, <2>3, RoundSave DEF Saving
<1>13. CASE CopyFails
  BY <1>4, <1>13 DEF CopyFails, Fail, End
<1> QED BY <1>6, <1>7, <1>8, <1>10, <1>11, <1>12, <1>13 DEF SaveStep

\* The list apply goes through: what it names, and all of it.
LEMMA AppliesFacts ==
  ASSUME NEW what
  PROVE  /\ SelectedIn(Applies, what) \in Seq(Names \cap what)
         /\ \A d \in Names \cap what :
              \E i \in DOMAIN SelectedIn(Applies, what) : SelectedIn(Applies, what)[i] = d
<1> DEFINE In(s, d) == \E i \in DOMAIN s : s[i] = d
<1>1. \A s, t \in Seq(Names \cap what) : s \o t \in Seq(Names \cap what)
  OBVIOUS
<1>2. ASSUME NEW s \in Seq(Names \cap what), NEW t \in Seq(Names \cap what), NEW d, In(s, d) \/ In(t, d)
      PROVE  In(s \o t, d)
  <2>1. CASE In(s, d)
    <3>1. PICK i \in DOMAIN s : s[i] = d
      BY <2>1
    <3>2. i \in DOMAIN (s \o t) /\ (s \o t)[i] = d
      BY <3>1
    <3> QED BY <3>2
  <2>2. CASE In(t, d)
    <3>1. PICK i \in DOMAIN t : t[i] = d
      BY <2>2
    <3>2. Len(s) + i \in DOMAIN (s \o t) /\ (s \o t)[Len(s) + i] = d
      BY <3>1
    <3> QED BY <3>2
  <2> QED BY <1>2, <2>1, <2>2
<1>3. \A d \in Names :
        Chosen(d, what) \in Seq(Names \cap what) /\ (d \in what => In(Chosen(d, what), d))
  <2> SUFFICES ASSUME NEW d \in Names
               PROVE  Chosen(d, what) \in Seq(Names \cap what)
                      /\ (d \in what => In(Chosen(d, what), d))
    OBVIOUS
  <2>1. CASE d \in what
    <3>1. Chosen(d, what) = <<d>> /\ d \in Names \cap what
      BY <2>1 DEF Chosen
    <3>2. <<d>> \in Seq(Names \cap what) /\ 1 \in DOMAIN <<d>> /\ <<d>>[1] = d
      BY <3>1
    <3> QED BY <3>1, <3>2
  <2>2. CASE d \notin what
    BY <2>2 DEF Chosen
  <2> QED BY <2>1, <2>2
<1> HIDE DEF In
<1> DEFINE c1 == Chosen(Applies[1], what)
           c2 == Chosen(Applies[2], what)
           c3 == Chosen(Applies[3], what)
           c4 == Chosen(Applies[4], what)
           c5 == Chosen(Applies[5], what)
           c6 == Chosen(Applies[6], what)
           c7 == Chosen(Applies[7], what)
<1>4. /\ Applies[1] = "IP" /\ Applies[2] = "intf" /\ Applies[3] = "LB" /\ Applies[4] = "Session"
      /\ Applies[5] = "UlCl" /\ Applies[6] = "Firewall" /\ Applies[7] = "BFD"
  BY DEF Applies
<1>5. \A c \in {c1, c2, c3, c4, c5, c6, c7} : c \in Seq(Names \cap what)
  BY <1>3, <1>4 DEF Names
<1>6. ASSUME NEW d \in Names \cap what
      PROVE  In(c1, d) \/ In(c2, d) \/ In(c3, d) \/ In(c4, d) \/ In(c5, d) \/ In(c6, d) \/ In(c7, d)
  BY <1>3, <1>4, <1>6 DEF Names
<1>7. SelectedIn(Applies, what) = c1 \o c2 \o c3 \o c4 \o c5 \o c6 \o c7
  BY DEF SelectedIn
<1> HIDE DEF c1, c2, c3, c4, c5, c6, c7
<1> DEFINE p2 == c1 \o c2
           p3 == p2 \o c3
           p4 == p3 \o c4
           p5 == p4 \o c5
           p6 == p5 \o c6
<1>8. SelectedIn(Applies, what) = p6 \o c7
  BY <1>7
<1>9. p2 \in Seq(Names \cap what) /\ \A d : In(c1, d) \/ In(c2, d) => In(p2, d)
  BY <1>1, <1>2, <1>5
<1> HIDE DEF p2
<1>10. p3 \in Seq(Names \cap what) /\ \A d : In(p2, d) \/ In(c3, d) => In(p3, d)
  BY <1>1, <1>2, <1>5, <1>9
<1> HIDE DEF p3
<1>11. p4 \in Seq(Names \cap what) /\ \A d : In(p3, d) \/ In(c4, d) => In(p4, d)
  BY <1>1, <1>2, <1>5, <1>10
<1> HIDE DEF p4
<1>12. p5 \in Seq(Names \cap what) /\ \A d : In(p4, d) \/ In(c5, d) => In(p5, d)
  BY <1>1, <1>2, <1>5, <1>11
<1> HIDE DEF p5
<1>13. p6 \in Seq(Names \cap what) /\ \A d : In(p5, d) \/ In(c6, d) => In(p6, d)
  BY <1>1, <1>2, <1>5, <1>12
<1> HIDE DEF p6
<1>14. \A d : In(p6, d) \/ In(c7, d) => In(p6 \o c7, d)
  BY <1>2, <1>5, <1>13
<1>15. \A d \in Names \cap what : In(SelectedIn(Applies, what), d)
  BY <1>6, <1>8, <1>9, <1>10, <1>11, <1>12, <1>13, <1>14
<1>16. SelectedIn(Applies, what) \in Seq(Names \cap what)
  BY <1>1, <1>5, <1>8, <1>13
<1> QED BY <1>15, <1>16 DEF In

\* A domain leaves the list when it is taken from its head.
LEMMA StillFacts ==
  ASSUME NEW d, Still(d), NEW S, list \in Seq(S), list # << >>, list' = Tail(list),
         d # Head(list)
  PROVE  Still(d)'
<1>1. PICK i \in DOMAIN list : list[i] = d
  BY DEF Still
<1>2. i - 1 \in DOMAIN Tail(list) /\ Tail(list)[i - 1] = d
  BY <1>1
<1> QED BY <1>2 DEF Still

\* Apply brings domains back one by one, each rule once or more.
LEMMA RoundApplyStep == ASSUME PhaseInv, CopyInv, RoundInv, ApplyStep PROVE RoundInv'
<1>1. /\ pc \notin {"idle", "prerun"} /\ UNCHANGED <<menu, cmd>> /\ cmd.op = "apply"
      /\ pc' \in {"idle"} \cup Applying
  BY ApplySteps DEF Aside
<1>2. UNCHANGED <<cur, restarted>>
  BY DEF ApplyStep, ApplyCmd, EndApply, ApplyPerInterface, OpenDump, PostRule, EndDomain,
         files, world
<1>3. cmd' \in Menus[menu].commands /\ cmd \in Menus[menu].commands /\ menu \in DOMAIN Menus
  BY <1>1 DEF RoundInv
\* The running rules of the domains grow at most.
<1>4. ASSUME IsMap(running'), \A d \in Ruled : DomainInv(d)', ApplyInv' PROVE RoundInv'
  <2>1. DumpInv'
    BY <1>1 DEF DumpInv, Applying, Replacing
  <2> QED BY <1>1, <1>3, <1>4, <2>1 DEF RoundInv
<1>5. ASSUME UNCHANGED running, ApplyInv' PROVE RoundInv'
  <2>1. IsMap(running') /\ \A d \in Ruled : DomainInv(d)'
    BY <1>2, <1>5, DomainSame DEF RoundInv, IsMap
  <2> QED BY <1>4, <1>5, <2>1
<1>6. CASE ApplyCmd
  <2>1. CASE pc' = "idle"
    BY <1>1, <1>2, <1>3, <1>6, <2>1, RoundAside
       DEF ApplyCmd, End, Goto, world, Replacing, Applying, InvalidArgument, OK
  <2>2. CASE pc' # "idle"
    <3>1. /\ UNCHANGED running /\ pc' = "apply" /\ list' = SelectedIn(Applies, cmd.what)
      BY <1>6, <2>2 DEF ApplyCmd, End, Goto, world
    <3>2. cmd.what \cap Ruled \subseteq Names
      BY <1>1, <1>3, ApplyAssumption, DomainsAssumption DEF Ruled, Names
    <3>3. list' \in Seq(Names \cap cmd.what) /\ \A d \in cmd.what \cap Ruled : Still(d)'
      BY <3>1, <3>2, AppliesFacts DEF Still
    <3>4. ApplyInv'
      BY <1>1, <3>1, <3>3 DEF ApplyInv, Applying
    <3> QED BY <1>5, <3>1, <3>4
  <2> QED BY <2>1, <2>2
<1>7. CASE EndApply
  <2>1. pc = "apply" /\ pc' = "idle" /\ list = << >> /\ UNCHANGED <<clean, running>>
    BY <1>7 DEF EndApply, End, Keeps, world
  <2>2. ASSUME clean, restarted, NEW d \in cmd.what \cap Ruled PROVE Complete(d)'
    <3>1. ~Still(d)
      BY <2>1 DEF Still
    <3>2. Complete(d)
      BY <2>1, <2>2, <3>1 DEF RoundInv, ApplyInv, Applying
    <3> QED BY <1>2, <2>1, <3>2, CompleteSame
  <2>3. ApplyInv'
    BY <1>1, <1>2, <2>1, <2>2 DEF ApplyInv, Applying
  <2> QED BY <1>5, <2>1, <2>3
<1>8. CASE ApplyPerInterface
  <2>1. /\ pc = "apply" /\ list # << >> /\ Dumping = "intf" /\ (clean' => clean)
        /\ IF cmd.route THEN pc' = "idle" ELSE list' = Tail(list) /\ pc' = "apply"
    BY <1>8 DEF ApplyPerInterface, End, Keeps, Soils
  <2>2. IsMap(running') /\ \A d \in Ruled : running'[d] = running[d]
    <3>1. CASE UNCHANGED running
      BY <3>1 DEF RoundInv, IsMap
    <3>2. CASE \E items : running' = [running EXCEPT !["IP"] = items]
      BY <3>2 DEF RoundInv, IsMap, Ruled
    <3> QED BY <1>8, <3>1, <3>2 DEF ApplyPerInterface
  <2>3. list \in Seq(Names \cap cmd.what)
    BY <2>1 DEF RoundInv, ApplyInv, Applying
  <2>4. \A d \in Ruled : DomainInv(d)'
    BY <1>2, <2>2, DomainSame DEF RoundInv
  <2>5. CASE cmd.route
    <3>1. "intf" \in cmd.what
      BY <2>1, <2>3 DEF Dumping
    <3>2. ApplyInv'
      BY <1>1, <2>1, <2>5, <3>1 DEF ApplyInv, Applying, RoutesOnly
    <3> QED BY <1>4, <2>2, <2>4, <3>2
  <2>6. CASE ~cmd.route
    <3>1. ASSUME clean, restarted, NEW d \in cmd.what \cap Ruled PROVE Still(d)' \/ Complete(d)'
      <4>1. Still(d) \/ Complete(d)
        BY <2>1, <3>1 DEF RoundInv, ApplyInv, Applying
      <4>2. d # Head(list)
        BY <2>1, DomainsAssumption DEF Dumping, Ruled
      <4> QED BY <1>2, <2>1, <2>2, <2>3, <2>6, <4>1, <4>2, StillFacts, CompleteSame
    <3>2. list' \in Seq(Names \cap cmd.what)
      BY <2>1, <2>3, <2>6
    <3>3. ApplyInv'
      BY <1>1, <1>2, <2>1, <2>6, <3>1, <3>2 DEF ApplyInv, Applying
    <3> QED BY <1>4, <2>2, <2>4, <3>3
  <2> QED BY <2>5, <2>6
<1>9. CASE OpenDump
  <2>1. /\ pc = "apply" /\ list # << >> /\ Dumping # "intf" /\ UNCHANGED running
    BY <1>9 DEF OpenDump, world
  <2>2. list \in Seq(Names \cap cmd.what)
    BY <2>1 DEF RoundInv, ApplyInv, Applying
  <2>3. CASE Opens(Dumping)
    <3>1. /\ left' = cur[Dumping].data /\ pc' = "post" /\ UNCHANGED <<clean, list>>
      BY <1>9, <2>3 DEF OpenDump, Goto, Keeps
    <3>2. Dumping' = Dumping /\ Dumping # "IP" /\ cur[Dumping].state = "whole"
      BY <2>3, <3>1 DEF Dumping, Opens
    <3>3. ASSUME clean, restarted, NEW d \in cmd.what \cap Ruled PROVE Still(d)' \/ Complete(d)'
      <4>1. Still(d) \/ Complete(d)
        BY <2>1, <3>3 DEF RoundInv, ApplyInv, Applying
      <4> QED BY <1>2, <2>1, <3>1, <4>1, CompleteSame DEF Still
    <3>4. Dumping \in Ruled
      BY <1>1, <1>3, <2>1, <2>2, <3>2, ApplyAssumption DEF Dumping, Ruled, Names
    <3>5. ApplyInv'
      BY <1>1, <1>2, <2>1, <2>2, <3>1, <3>2, <3>3, <3>4 DEF ApplyInv, Applying
    <3> QED BY <1>5, <2>1, <3>5
  <2>4. CASE ~Opens(Dumping)
    <3>1. /\ list' = Tail(list) /\ pc' = "apply" /\ ~clean'
      BY <1>9, <2>1, <2>4 DEF OpenDump, Soils
    <3>2. ApplyInv'
      BY <1>1, <2>1, <2>2, <3>1 DEF ApplyInv, Applying
    <3> QED BY <1>5, <2>1, <3>2
  <2> QED BY <2>3, <2>4
<1>10. ASSUME pc = "post", pc' = "apply", list' = Tail(list), UNCHANGED running,
              clean' => clean, clean' => left = {}
       PROVE  RoundInv'
  <2>1. list \in Seq(Names \cap cmd.what) /\ list # << >>
    BY <1>10 DEF RoundInv, ApplyInv, Applying
  <2>2. ASSUME clean', restarted, NEW d \in cmd.what \cap Ruled PROVE Still(d)' \/ Complete(d)'
    <3>1. Still(d) \/ Complete(d)
      BY <1>10, <2>2 DEF RoundInv, ApplyInv, Applying
    <3>2. CASE d = Head(list)
      <4>1. \A r \in cur[d].data : Sent(d, r) \in running[d]
        BY <1>10, <2>2, <3>2 DEF RoundInv, ApplyInv, Dumping
      <4>2. Complete(d)
        BY <4>1 DEF Complete, Image
      <4> QED BY <1>2, <1>10, <4>2, CompleteSame
    <3>3. CASE d # Head(list)
      BY <1>2, <1>10, <2>1, <3>1, <3>3, StillFacts, CompleteSame
    <3> QED BY <3>2, <3>3
  <2>3. ApplyInv'
    BY <1>1, <1>2, <1>10, <2>1, <2>2 DEF ApplyInv, Applying
  <2> QED BY <1>5, <1>10, <2>3
<1>11. CASE EndDomain
  BY <1>10, <1>11 DEF EndDomain, Goto, Keeps, world
<1>12. CASE PostRule
  <2>1. PICK rule \in left :
          \/ /\ Authorised /\ Add(rule) /\ left' = left \ {rule} /\ Keeps /\ UNCHANGED list
             /\ Goto("post")
          \/ UNCHANGED <<running, list>> /\ left' = left \ {rule} /\ Soils /\ Goto("post")
          \/ /\ (Authorised /\ Add(rule)) \/ UNCHANGED running
             /\ left' = {} /\ list' = Tail(list) /\ Soils /\ Goto("apply")
    BY <1>12 DEF PostRule
  <2>2. /\ pc = "post" /\ list # << >> /\ Dumping \in Ruled /\ Dumping \in Domains
        /\ list \in Seq(Names \cap cmd.what)
        /\ cur[Dumping].state = "whole" /\ left \subseteq cur[Dumping].data
        /\ rule \in cur[Dumping].data /\ rule # "managed"
    <3>1. /\ pc = "post" /\ list # << >> /\ Dumping \in Ruled
          /\ list \in Seq(Names \cap cmd.what)
          /\ cur[Dumping].state = "whole" /\ left \subseteq cur[Dumping].data
      BY <1>12 DEF PostRule, RoundInv, ApplyInv, Applying
    <3>2. cur[Dumping].data = cur[Dumping].of \ {"managed"}
      BY <3>1 DEF RoundInv, DomainInv, Faithful
    <3> QED BY <3>1, <3>2 DEF Ruled
  <2>3. \/ UNCHANGED running
        \/ running' = [running EXCEPT ![Dumping] = @ \cup {Sent(Dumping, rule)}]
    BY <2>1 DEF Add
  <2>4. /\ IsMap(running') /\ \A d \in Ruled : running[d] \subseteq running'[d]
        /\ \A d \in Ruled : d # Dumping => running'[d] = running[d]
        /\ running'[Dumping] \in {running[Dumping], running[Dumping] \cup {Sent(Dumping, rule)}}
    BY <2>2, <2>3 DEF RoundInv, IsMap, Ruled
  <2>5. ASSUME NEW d \in Ruled PROVE DomainInv(d)'
    <3>1. DomainInv(d)
      BY <2>5 DEF RoundInv
    <3>2. CASE running'[d] = running[d]
      BY <1>2, <3>1, <3>2, DomainSame
    <3>3. CASE d = Dumping /\ running'[d] = running[d] \cup {Sent(d, rule)}
      <4>1. Image(d)' = Image(d) /\ Sent(d, rule) \in Image(d)
        BY <1>2, <2>2, <3>3 DEF Image
      <4>2. Sent(d, rule) # "managed" /\ Sent(d, Sent(d, rule)) = Sent(d, rule)
        BY <2>2, SentFacts
      <4> QED BY <1>2, <3>1, <3>3, <4>1, <4>2 DEF DomainInv, Faithful
    <3> QED BY <2>4, <3>2, <3>3
  <2>6. ApplyInv'
    <3>1. CASE pc' = "post" /\ UNCHANGED list /\ left' = left \ {rule}
      <4>1. (clean' => clean) /\ (clean' => Sent(Dumping, rule) \in running'[Dumping])
        <5>1. CASE Keeps /\ Add(rule)
          BY <2>2, <5>1 DEF Keeps, Add, RoundInv, IsMap
        <5>2. CASE Soils
          BY <5>2 DEF Soils
        <5> QED BY <2>1, <3>1, <5>1, <5>2 DEF Goto
      <4>2. Dumping' = Dumping
        BY <3>1 DEF Dumping
      <4>3. ASSUME clean, restarted, NEW d \in cmd.what \cap Ruled PROVE Still(d)' \/ Complete(d)'
        <5>1. Still(d) \/ Complete(d)
          BY <2>2, <4>3 DEF RoundInv, ApplyInv, Applying
        <5> QED BY <1>2, <2>4, <3>1, <5>1, CompleteSame DEF Still
      <4>4. ASSUME clean', restarted, NEW r \in cur[Dumping].data \ left'
            PROVE  Sent(Dumping, r) \in running'[Dumping]
        <5>1. CASE r = rule
          BY <4>1, <4>4, <5>1
        <5>2. CASE r # rule
          <6>1. r \in cur[Dumping].data \ left
            BY <3>1, <4>4, <5>2
          <6>2. Sent(Dumping, r) \in running[Dumping]
            BY <2>2, <4>1, <4>4, <6>1 DEF RoundInv, ApplyInv
          <6> QED BY <2>2, <2>4, <6>2
        <5> QED BY <5>1, <5>2
      <4> QED BY <1>1, <1>2, <2>2, <3>1, <4>1, <4>2, <4>3, <4>4 DEF ApplyInv, Applying
    <3>2. CASE pc' = "apply" /\ list' = Tail(list) /\ ~clean'
      BY <1>1, <2>2, <3>2 DEF ApplyInv, Applying
    <3> QED BY <2>1, <3>1, <3>2 DEF Goto, Soils
  <2> QED BY <1>4, <2>4, <2>5, <2>6
<1> QED BY <1>6, <1>7, <1>8, <1>9, <1>11, <1>12 DEF ApplyStep

\* No step brings back a rule that was not saved or, in a clean run, skips one.
LEMMA RoundStep == PhaseInv /\ CopyInv /\ RoundInv /\ [Next]_vars => RoundInv'
<1> SUFFICES ASSUME PhaseInv, CopyInv, RoundInv, [Next]_vars PROVE RoundInv'
  OBVIOUS
<1>1. CASE SaveStep \/ ApplyStep
  BY <1>1, RoundSaveStep, RoundApplyStep
<1>2. CASE Kill
  BY <1>2, RoundAside
     DEF Kill, KillSession, End, world, invocation, Killed, OK, Replacing, Applying
<1>3. CASE Restart
  <2>1. /\ pc = "idle" /\ pc' = "idle" /\ ~clean' /\ UNCHANGED <<menu, cur>>
        /\ running' = [d \in Domains |-> IF d = "IP" THEN Booted(topo) ELSE {}]
    BY <1>3 DEF Restart, Soils, invocation, files
  <2>2. ASSUME NEW d \in Ruled PROVE DomainInv(d)'
    <3>1. running'[d] = {}
      BY <2>1, <2>2 DEF Ruled
    <3>2. Faithful(cur[d])
      BY <2>2 DEF RoundInv, DomainInv
    <3> QED BY <2>1, <3>1, <3>2 DEF DomainInv, Faithful
  <2>3. IsMap(running')
    BY <2>1 DEF IsMap
  <2> QED BY <2>1, <2>2, <2>3 DEF RoundInv, DumpInv, ApplyInv, Replacing, Applying
<1>4. CASE OfSession /\ UNCHANGED <<world, files, list, left>>
  <2>1. UNCHANGED <<running, cur, restarted>>
    BY <1>4 DEF world, files
  <2>2. /\ pc # "idle" /\ UNCHANGED <<menu, cmd>> /\ pc' \notin Replacing \cup Applying
        /\ pc' = "idle" /\ exit' = OK => cmd.op # "apply"
    <3> USE DEF End, Goto, Is, Prompting, PrintAndSaveTokenResult, invocation, Replacing,
                Applying, OK, Precondition, InvalidArgument
    <3>1. CASE PersistentPreRunE
      <4>1. pc = "prerun" /\ UNCHANGED <<menu, cmd>>
        BY <3>1 DEF PersistentPreRunE
      <4>2. pc' = "run" \/ (pc' = "idle" /\ exit' = Precondition)
        BY <3>1 DEF PersistentPreRunE
      <4> QED BY <4>1, <4>2
    <3>2. CASE PasswordLogin \/ OperatorStep
      BY <3>2 DEF PasswordLogin, PhaseInv, OperatorStep, StdinEnds, TypePassword, GoogleLogin,
                  ManualLogin, TypedLogin
    <3>3. CASE PasswordLogout \/ ForgetTokens \/ Refresh \/ UnknownProvider
      BY <3>3 DEF PasswordLogout, ForgetTokens, Refresh, UnknownProvider, Removes
    <3>4. CASE FileStep \/ FillFile \/ FileFails
      <4>1. pc \in Writing /\ UNCHANGED <<menu, cmd>> /\ pc' \in {"idle"} \cup Writing
        BY <3>4 DEF FileStep, FillFile, FileFails, Writing
      <4> QED BY <4>1 DEF PhaseInv, Writing
    <3> QED BY <1>4, <3>1, <3>2, <3>3, <3>4 DEF OfSession, SessionStep
  <2>3. cmd' \in Menus[menu].commands
    BY <2>2 DEF RoundInv
  <2> QED BY <2>1, <2>2, <2>3, RoundAside
<1>5. CASE Invoke /\ UNCHANGED <<world, files, list, left>>
  BY <1>5, RoundAside DEF Invoke, world, files, Replacing, Applying
<1>6. CASE \/ Expire /\ UNCHANGED <<world, files, list, left>>
           \/ UNCHANGED vars
  <2>1. UNCHANGED <<menu, cmd, pc, exit, clean, running, restarted, cur, tmp, list, left>>
    BY <1>6 DEF Expire, vars, invocation, world, files
  <2>2. \A d \in Ruled : DomainInv(d)'
    BY <2>1, DomainSame DEF RoundInv
  <2>3. IsMap(running') /\ DumpInv'
    BY <2>1 DEF RoundInv, IsMap, DumpInv, Faithful, Dumping
  <2>4. \A d : (Complete(d) => Complete(d)') /\ (Still(d) => Still(d)')
    BY <2>1, CompleteSame DEF Still
  <2>5. Dumping' = Dumping /\ (RoutesOnly' <=> RoutesOnly)
    BY <2>1 DEF Dumping, RoutesOnly
  <2>6. ApplyInv'
    BY <2>1, <2>4, <2>5 DEF RoundInv, ApplyInv
  <2> QED BY <2>1, <2>2, <2>3, <2>6 DEF RoundInv
<1> QED BY <1>1, <1>2, <1>3, <1>4, <1>5, <1>6, Steps

\* Save, restart, apply, with nothing refused: the gateway has again what it
\* ran when the dump was taken, but for the rules it manages itself and the
\* load-balancer options apply does not send (apply.go, get_loadbalancer.go).
THEOREM RoundTrip == Spec => []RoundTripKeepsCore
<1>1. Init => PhaseInv /\ CopyInv /\ RoundInv
  BY PhaseInit, CopyInit, RoundInit
<1>2. PhaseInv /\ CopyInv /\ RoundInv /\ [Next]_vars => PhaseInv' /\ CopyInv' /\ RoundInv'
  BY PhaseStep, CopyStep, RoundStep
<1>3. RoundInv => RoundTripKeepsCore
  <2> SUFFICES ASSUME RoundInv, pc = "idle", exit = OK, clean, cmd.op = "apply", restarted,
                      ~RoutesOnly, NEW d \in cmd.what \cap (Domains \ {"IP"}), Good(cur[d])
               PROVE  running[d] = {Sent(d, r) : r \in cur[d].of \ {"managed"}}
    BY DEF RoundTripKeepsCore
  <2>1. cur[d].data = cur[d].of \ {"managed"}
    BY GoodFacts DEF RoundInv, DomainInv, Faithful, Ruled
  <2>2. running[d] \subseteq Image(d) /\ Image(d) \subseteq running[d]
    BY DEF RoundInv, DomainInv, ApplyInv, Complete, Ruled
  <2> QED BY <2>1, <2>2 DEF Image
<1> QED BY <1>1, <1>2, <1>3, PTL DEF Spec

=============================================================================
