----------------------------- MODULE SaveApply -----------------------------
(***************************************************************************)
(* save, which dumps configuration domains into local files one after the  *)
(* other, and apply, which sends the dumps back, run by the same operator  *)
(* who logs in and out (SessionToken) against a gateway that restarts.     *)
(*                                                                         *)
(* A dump is the rules the gateway listed, or for the IP domain the        *)
(* directory of IpConfig; "of" remembers what the gateway or host had when *)
(* it was taken.                                                           *)
(***************************************************************************)
EXTENDS SessionToken, IpConfig

CONSTANTS
  Domains,     \* the domains explored, of Dumps
  Config       \* the gateway's configuration: domain -> rules

ASSUME DomainsAssumption ==
  "IP" \in Domains /\ Domains \subseteq {"IP", "LB", "Session", "UlCl", "Firewall", "EndPoint", "BFD"}
\* The gateway manages load-balancer rules only, and apply has no EndPoint flag.
ASSUME ConfigAssumption == \A d \in Domains \ {"IP", "LB"} : "managed" \notin Config[d]
ASSUME ApplyAssumption ==
  \A m \in DOMAIN Menus : \A c \in Menus[m].commands :
    c.op = "apply" => c.what \subseteq (Domains \ {"EndPoint"}) \cup {"intf"}
\* The hosts are ones the kernel admits.
ASSUME HostsAssumption == \A m \in DOMAIN Menus : \A t \in Menus[m].topologies : Stacked(t)

VARIABLES
  running,   \* what the gateway (for IP, the host) has: domain -> rules or items
  topo,      \* the host's interfaces
  cur, bak,  \* the saved file of a domain and its .bk
  tmp,       \* the temporary file of the dump in progress
  list,      \* domains still to be dumped or applied
  left,      \* rules of the file still to be sent
  faults,    \* faults since the last good save of a domain, up to TwoFaults
  restarted, \* whether gateway and host were restarted
  applied    \* interfaces applied since

files == <<cur, bak, tmp, faults>>
world == <<running, topo, restarted, applied>>
vars  == <<invocation, pc, exit, clean, todo, tokens, world, files, list, left>>

-----------------------------------------------------------------------------
(* The domains                                                             *)

\* In the order of save, and of apply, which has no EndPoint and takes an
\* interface ("intf") after an IP script.
Dumps   == <<"IP", "LB", "Session", "UlCl", "Firewall", "EndPoint", "BFD">>
Applies == <<"IP", "intf", "LB", "Session", "UlCl", "Firewall", "BFD">>

\* Mutant: the rules the gateway manages itself are saved too.
LbdumpAll(rules) == rules
\* Managed rules, SNAT's and those of ipvs are left out of the dump of the
\* load balancers; the other dumps are what was listed.
Lbdump(rules) == rules \ {"managed"}
Listed(d) == CASE d = "IP" -> Nlpdump(topo, running[d])
               [] d = "LB" -> Lbdump(running[d])
               [] OTHER    -> running[d]
\* What a load-balancer rule is after a round trip: address, port, protocol,
\* selection, mode, BGP and endpoints are sent and its other options are not.
ApplyLbConfig(rule) == IF rule = "rich" THEN "stripped" ELSE rule
Sent(d, rule) == IF d = "LB" THEN ApplyLbConfig(rule) ELSE rule

Content(state, data, of, real) == [state |-> state, data |-> data, of |-> of, real |-> real]
Absent  == Content("absent", {}, {}, FALSE)
Cut     == Content("cut short", {}, {}, FALSE)   \* does not decode
Nothing == Content("whole", {}, {}, FALSE)       \* an error body decodes to no rules
DumpOf(d) == Content("whole", Listed(d), running[d], TRUE)
Good(c) == c.state = "whole" /\ c.real

TwoFaults == 2
Fault(d) == faults' = [faults EXCEPT ![d] = Min({@ + 1, TwoFaults})]
NoFault  == UNCHANGED faults

Init ==
  /\ InitSession
  /\ topo \in Menus[menu].topologies
  /\ running = [d \in Domains |-> IF d = "IP" THEN Items(topo) ELSE Config[d]]
  /\ cur = [d \in Domains |-> Absent] /\ bak = cur /\ tmp = Absent
  /\ faults = [d \in Domains |-> TwoFaults]
  /\ list = <<>> /\ left = {} /\ restarted = FALSE /\ applied = {}

-----------------------------------------------------------------------------
(* save                                                                    *)

\* The flags of the domains exclude each other; --all is all of them.
Selections == {{d} : d \in Domains} \cup {Domains}
\* --api goes with --ip only, and has no use for --config-path without it.
validateSaveOptions(c) ==
  IF c.api THEN c.what \in {{}, {"IP"}} /\ (c.path => c.what = {"IP"}) ELSE c.what \in Selections
Chosen(d, what) == IF d \in what THEN <<d>> ELSE << >>
SelectedIn(order, what) ==
  Chosen(order[1], what) \o Chosen(order[2], what) \o Chosen(order[3], what) \o Chosen(order[4], what)
    \o Chosen(order[5], what) \o Chosen(order[6], what) \o Chosen(order[7], what)

\* Mutant: the error of ensureConfigDir is not classified.
runSaveUnclassified ==
  /\ pc = "run" /\ cmd.op = "save"
  /\ End(1) /\ Soils
  /\ UNCHANGED <<invocation, tokens, world, files, list, left>>
runSave ==
  /\ pc = "run" /\ cmd.op = "save"
  /\ \/ ~validateSaveOptions(cmd) /\ End(InvalidArgument) /\ Keeps /\ UNCHANGED list
     \/ /\ validateSaveOptions(cmd)
        /\ \/ list' = SelectedIn(Dumps, cmd.what) /\ Goto("save") /\ Keeps
           \/ cmd.what # {} /\ End(Failed) /\ Soils /\ UNCHANGED list   \* ensureConfigDir
  /\ UNCHANGED <<invocation, tokens, world, files, left>>

\* Under --api the gateway persists its own configuration last.
Persist == \E code \in {OK, Auth, Unavailable, ContractMismatch, Failed, Partial} : End(code)
EndSave ==
  /\ pc = "save" /\ list = <<>>
  /\ IF cmd.api THEN Persist ELSE End(OK)
  /\ Keeps /\ UNCHANGED <<invocation, tokens, world, files, list, left>>

Dumping == Head(list)
\* A failure ends the save: the domains after it are not dumped.
Fail == End(Failed) /\ list' = <<>> /\ tmp' = Absent
Fetched(content) == tmp' = content /\ Goto(IF Dumping = "IP" THEN "remove" ELSE "move")
\* What becomes of an answer that is not 200: the dumps look at the body and
\* not at the status, but BFD's, which then saves nothing and says it did.
Undecodable(d) == IF d \in {"LB", "EndPoint"} THEN Fail ELSE Fetched(Cut) /\ UNCHANGED list
RefusedDump(d) ==
  IF d = "BFD" THEN list' = Tail(list) /\ UNCHANGED <<pc, exit, todo, tmp>>
  ELSE (Fetched(Nothing) /\ UNCHANGED list) \/ Undecodable(d)

\* Nlpdump asks the kernel; the other dumps ask the gateway.
Fetch ==
  /\ pc = "save" /\ list # <<>>
  /\ \/ /\ Dumping = "IP" \/ Authorised
        /\ Fetched(DumpOf(Dumping)) /\ Keeps /\ NoFault /\ UNCHANGED list
     \/ /\ Dumping # "IP" /\ RefusedDump(Dumping)
        /\ Soils /\ Fault(Dumping)
     \/ /\ Dumping \notin {"IP", "BFD"} /\ Undecodable(Dumping)      \* a body cut short
        /\ Soils /\ Fault(Dumping)
     \/ /\ Fetched(Cut)                                    \* the disk is full
        /\ Soils /\ Fault(Dumping) /\ UNCHANGED list
     \/ /\ Fail                                            \* no file, no answer
        /\ Soils /\ Fault(Dumping)
  /\ UNCHANGED <<invocation, tokens, world, cur, bak, left>>

\* rm -rf of the old backup directory, which mv needs out of its way.
RemoveBackup ==
  /\ pc = "remove"
  /\ \/ bak' = [bak EXCEPT ![Dumping] = Absent] /\ Keeps /\ NoFault
     \/ bak' = [bak EXCEPT ![Dumping] = Cut] /\ Soils /\ Fault(Dumping)
  /\ Goto("move")
  /\ UNCHANGED <<invocation, tokens, world, cur, tmp, list, left>>

\* Mutant: the dump is copied over the saved file.
MoveNothing ==
  /\ pc = "move" /\ Goto("copy") /\ Keeps /\ NoFault
  /\ UNCHANGED <<invocation, tokens, world, cur, bak, tmp, list, left>>
\* mv: the saved file becomes the backup; a directory that is still there
\* swallows it.
Move ==
  /\ pc = "move"
  /\ \/ /\ cur[Dumping].state = "absent" /\ UNCHANGED <<cur, bak, tmp, list>>
        /\ Goto("copy") /\ Keeps /\ NoFault
     \/ /\ cur[Dumping].state # "absent" /\ cur' = [cur EXCEPT ![Dumping] = Absent]
        /\ bak' = IF Dumping = "IP" /\ bak[Dumping].state # "absent" THEN bak
                  ELSE [bak EXCEPT ![Dumping] = cur[Dumping]]
        /\ Goto("copy") /\ Keeps /\ NoFault /\ UNCHANGED <<tmp, list>>
     \/ /\ cur[Dumping].state # "absent" /\ Fail /\ Soils /\ Fault(Dumping)
        /\ UNCHANGED <<cur, bak>>
  /\ UNCHANGED <<invocation, tokens, world, left>>

\* cp, in the order of its effects.
Copy ==
  /\ pc = "copy"
  /\ cur' = [cur EXCEPT ![Dumping] = Cut] /\ Goto("copying")
  /\ Keeps /\ NoFault /\ UNCHANGED <<invocation, tokens, world, bak, tmp, list, left>>
CopyDone ==
  /\ pc = "copying"
  /\ cur' = [cur EXCEPT ![Dumping] = tmp] /\ list' = Tail(list) /\ Goto("save")
  /\ faults' = IF Good(tmp) THEN [faults EXCEPT ![Dumping] = 0] ELSE faults
  /\ tmp' = Absent
  /\ Keeps /\ UNCHANGED <<invocation, tokens, world, bak, left>>
CopyFails ==
  /\ pc \in {"copy", "copying"} /\ Fail /\ Soils /\ Fault(Dumping)
  /\ UNCHANGED <<invocation, tokens, world, cur, bak, left>>

-----------------------------------------------------------------------------
(* apply                                                                   *)

ApplyCmd ==
  /\ pc = "run" /\ cmd.op = "apply"
  /\ IF cmd.what = {} THEN End(InvalidArgument) /\ UNCHANGED list
     ELSE list' = SelectedIn(Applies, cmd.what) /\ Goto("apply")
  /\ Keeps /\ UNCHANGED <<invocation, tokens, world, files, left>>
EndApply ==
  /\ pc = "apply" /\ list = <<>> /\ End(OK)
  /\ Keeps /\ UNCHANGED <<invocation, tokens, world, files, list, left>>

\* --per-intf: what the interface's directory says for its type, nothing
\* without one; with --ipv4route its routes only, and nothing after them.
Directory == IF cur["IP"].state = "whole" THEN cur["IP"].data ELSE << >>
ApplyPerInterface ==
  /\ pc = "apply" /\ list # <<>> /\ Dumping = "intf"
  /\ IF cmd.intf \notin DOMAIN Directory
     THEN UNCHANGED <<running, applied>> /\ Soils
     ELSE /\ running' = [running EXCEPT !["IP"] =
                           IF ~cmd.route THEN ApplyIpConfigPerInterface(Directory, cmd.intf, @)
                           ELSE IF cmd.intf \in Present(@) THEN @ \cup addRoute(Directory, cmd.intf)
                           ELSE @]
          /\ applied' = IF cmd.route THEN applied
                        ELSE applied \cup ({cmd.intf} \cap Present(running["IP"]))
          /\ Keeps
  /\ IF cmd.route THEN End(OK) /\ UNCHANGED list
     ELSE list' = Tail(list) /\ UNCHANGED <<pc, exit, todo>>
  /\ UNCHANGED <<invocation, tokens, topo, restarted, files, left>>

\* A file that is not there or does not decode is remarked on. The script
\* --ip takes is one save removes again before it names it.
Opens(d) == d # "IP" /\ cur[d].state = "whole"
\* Mutant: an unreadable file is tried again.
OpenDumpAgain ==
  /\ pc = "apply" /\ list # <<>> /\ Dumping # "intf"
  /\ IF Opens(Dumping)
     THEN left' = cur[Dumping].data /\ Goto("post") /\ Keeps /\ UNCHANGED list
     ELSE Soils /\ UNCHANGED <<pc, exit, todo, list, left>>
  /\ UNCHANGED <<invocation, tokens, world, files>>
OpenDump ==
  /\ pc = "apply" /\ list # <<>> /\ Dumping # "intf"
  /\ IF Opens(Dumping)
     THEN left' = cur[Dumping].data /\ Goto("post") /\ Keeps /\ UNCHANGED list
     ELSE list' = Tail(list) /\ Soils /\ UNCHANGED <<pc, exit, todo, left>>
  /\ UNCHANGED <<invocation, tokens, world, files>>

Add(rule) == running' = [running EXCEPT ![Dumping] = @ \cup {Sent(Dumping, rule)}]
\* One request per rule; its status is not looked at, a request without an
\* answer ends the domain, and the command exits 0 all the same.
PostRule ==
  /\ pc = "post" /\ left # {}
  /\ \E rule \in left :
       \/ Authorised /\ Add(rule) /\ left' = left \ {rule} /\ Keeps /\ UNCHANGED list /\ Goto("post")
       \/ UNCHANGED <<running, list>> /\ left' = left \ {rule} /\ Soils /\ Goto("post")
       \/ /\ (Authorised /\ Add(rule)) \/ UNCHANGED running
          /\ left' = {} /\ list' = Tail(list) /\ Soils /\ Goto("apply")
  /\ UNCHANGED <<invocation, tokens, topo, restarted, applied, files>>
EndDomain ==
  /\ pc = "post" /\ left = {} /\ list' = Tail(list) /\ Goto("apply")
  /\ Keeps /\ UNCHANGED <<invocation, tokens, world, files, left>>

-----------------------------------------------------------------------------
(* The environment, and the whole                                          *)

\* The gateway starts with no configuration of its own to replay, the host
\* with its physical interfaces.
Restart ==
  /\ pc = "idle" /\ ~restarted
  /\ restarted' = TRUE /\ applied' = {} /\ Soils
  /\ running' = [d \in Domains |-> IF d = "IP" THEN Booted(topo) ELSE {}]
  /\ UNCHANGED <<invocation, pc, exit, todo, tokens, topo, files, list, left>>

Kill ==
  /\ KillSession
  /\ IF pc \in {"save", "remove", "move", "copy", "copying"} /\ list # <<>>
     THEN Fault(Dumping) ELSE NoFault
  /\ list' = <<>> /\ left' = {} /\ tmp' = Absent
  /\ UNCHANGED <<world, cur, bak>>

Step ==
  \/ SessionStep /\ UNCHANGED <<world, files, list, left>>
  \/ runSave \/ EndSave \/ Fetch \/ RemoveBackup \/ Move \/ Copy \/ CopyDone \/ CopyFails
  \/ ApplyCmd \/ EndApply \/ ApplyPerInterface \/ OpenDump \/ PostRule \/ EndDomain
Next ==
  \/ Step \/ Kill \/ Restart
  \/ (Invoke \/ OperatorStep \/ Expire) /\ UNCHANGED <<world, files, list, left>>
  \/ pc = "idle" /\ UNCHANGED vars

\* A command goes on by itself: its requests have a deadline, its local
\* commands end. Nothing is assumed of the operator, who may never answer a
\* prompt, or of the gateway.
Spec == Init /\ [][Next]_vars /\ WF_vars(Step)

-----------------------------------------------------------------------------
(* Properties                                                              *)

\* Every variable has its type, and an invocation that ended by itself has an
\* exit code of the frozen table.
TypeOK ==
  /\ session \in {"absent"} \cup Typed /\ refresh \in {"absent"} \cup Typed
  /\ live \subseteq Accounts /\ tok \in Accounts \cup {NoToken}
  /\ exit \in Taxonomy \cup {Running, Killed} /\ (exit = Running) = (pc # "idle")
  /\ \A d \in Domains : /\ cur[d].state \in {"absent", "cut short", "whole"}
                         /\ bak[d].state \in {"absent", "cut short", "whole"}
                         /\ faults[d] \in 0..TwoFaults
  /\ pc \in {"save", "remove", "move", "copy", "copying"} => \A i \in DOMAIN list : list[i] \in Domains
  /\ applied \subseteq Links(topo)

\* The session file that shuts the operator out of every command, set login
\* included (root.go refuses an empty one), is left only by a blank token
\* typed in or by a write that failed or was killed half way, never by an
\* answer of the gateway or by the other order of the commands.
NoLockoutWithoutCause ==
  session = Blank => damaged \/ pc = "fill"

\* After a login that got its token and a logout that got its answer, with no
\* failed write, the file on disk agrees with the gateway: it holds the token
\* that was issued, or is gone together with the token it revoked.
SessionFollowsGateway ==
  pc = "idle" /\ exit = OK /\ clean /\ runs > 0 =>
    /\ cmd.op = "login" /\ cmd.provider = "password" => session = cmd.as
    /\ cmd.op = "logout" => /\ session = "absent"
                            /\ cmd.provider = "password" => tok \notin live
    /\ cmd.op = "refresh" => session \in Accounts /\ session = refresh

\* One fault after a good save (a kill, a full disk, a failed mv or cp, a
\* refused answer taken for a dump) leaves a good dump of the domain, in the
\* saved file or in its .bk.
SaveKeepsAGoodCopy ==
  pc = "idle" => \A d \in Domains : faults[d] < TwoFaults => Good(cur[d]) \/ Good(bak[d])

\* Save, restart, apply, with nothing refused: the gateway has again what it
\* ran when the dump was taken, but for the rules it manages itself and the
\* load-balancer options apply does not send. An --ipv4route for an interface
\* skips the other files (apply.go).
RoutesOnly == cmd.route /\ "intf" \in cmd.what
RoundTripKeepsCore ==
  pc = "idle" /\ exit = OK /\ clean /\ cmd.op = "apply" /\ restarted /\ ~RoutesOnly =>
    \A d \in cmd.what \cap (Domains \ {"IP"}) :
      Good(cur[d]) => running[d] = {Sent(d, r) : r \in cur[d].of \ {"managed"}}

\* After a reboot, applying the saved directory to every interface that exists,
\* in any order, brings an expressible topology back, all but the routes that
\* have no gateway or several next hops; nothing else appears.
InterfacesRoundTrip ==
  LET saved == Good(cur["IP"]) /\ cur["IP"].of = Items(topo)
  IN restarted /\ pc = "idle" /\ Expressible(topo) /\ saved /\ Present(running["IP"]) \subseteq applied
       => running["IP"] = Recoverable(topo)

\* Every invocation ends by itself, whatever files and answers it meets, but
\* for a set login whose prompt is never answered: that waits without a deadline
\* (set_login.go), at the prompt and nowhere else.
EveryInvocationEnds == pc # "idle" ~> (pc = "idle" \/ []Prompting)

\* cmd/dump/save.go on a dump that failed: "report it and exit non-zero rather
\* than leave the caller believing the earlier lines cover everything". Exit 0
\* means that every selected domain was saved.
SavedMeansSaved ==
  pc = "idle" /\ exit = OK /\ cmd.op = "save" => \A d \in cmd.what : Good(cur[d])

=============================================================================
