---------------------------- MODULE CrudCommands ----------------------------
(***************************************************************************)
(* The create, delete and set commands: for a command line, what is        *)
(* refused before anything is sent, which gateway features it needs, and   *)
(* the requests it sends one after the other.                              *)
(*                                                                         *)
(* A command line is abstracted to                                         *)
(*   n     the number of positional arguments,                             *)
(*   bad   the values that do not have their shape ("ip": an argument that *)
(*         net.ParseIP refuses, "int": one that strconv.Atoi refuses, ...),*)
(*   given the flags that were given (the empty string is not given),      *)
(*   items the values of the flag that makes one request each,             *)
(*   lb    the options of create lb (LbOptions), kind the kind a            *)
(*         configuration file names.                                       *)
(***************************************************************************)
EXTENDS ExitCode, LbOptions, SequencesExt

\* A Go panic ends the process with status 2, which is also INVALID_ARGUMENT.
PanicExit == 2

Refused(code) == [code |-> code, gates |-> <<>>, plans |-> {}]
Invalid       == Refused(InvalidArgument)
Panics        == Refused(PanicExit)

\* A gate is a feature and whether its token must be advertised for the
\* request to go out (RequireAdvertised) or only looked for (Require).
Gate(feature)    == [feature |-> feature, strict |-> FALSE]
Advertised(feature) == [feature |-> feature, strict |-> TRUE]

\* A request: its method; the feature whose path it is for, if any; the
\* features whose fields it carries; the answers the command takes for
\* success; what it does with the body of such an answer; its exit code when
\* no answer comes; the numbers it puts on the wire.
Statuses == {200, 201, 204, 400, 401, 404, 409, 500, 503, 504}
Request(method, ok, reads) ==
  [method |-> method, path |-> "none", fields |-> {}, ok |-> ok, reads |-> reads,
   lost |-> Unavailable, nums |-> << >>]
Post   == Request("POST", {200}, "printed")
Delete == Request("DELETE", {200}, "printed")
Upload == Request("POST", {200, 201}, "printed")
Erase == Request("DELETE", {200, 204}, "printed")
Switch == Request("POST", {200, 204}, "printed")
On(feature, r) == [r EXCEPT !.path = feature]
With(features, r) == [r EXCEPT !.fields = features]
\* printOperationResult decodes the body under -o json only.
Operation(l, r) == [r EXCEPT !.reads = IF "-o json" \in l.given THEN "decoded" ELSE "printed"]

\* A value the command parses only when its turn in the loop comes.
Unparsed == Request("none", {}, "printed")

SendsEach(gates, reqs) == [code |-> OK, gates |-> gates, plans |-> {reqs}]
Sends(r) == SendsEach(<<>>, <<r>>)
\* One request per key of a Go map: any order.
SendsInAnyOrder(gates, reqs) ==
  [code |-> OK, gates |-> gates,
   plans |-> {[i \in DOMAIN s |-> reqs[s[i]]] : s \in SetToSeqs(DOMAIN reqs)}]

Fits(l, shapes) == l.bad \cap shapes = {}
\* The command that needs lo to hi arguments of the given shapes.
Args(l, lo, hi, shapes, verdict) ==
  IF l.n \in lo..hi /\ Fits(l, shapes) THEN verdict ELSE Invalid
\* The command that needs flags and ignores its arguments.
Needs(l, flags, verdict) == IF flags \subseteq l.given THEN verdict ELSE Invalid
AnyMore == 9

-----------------------------------------------------------------------------
(* create                                                                  *)

CreateBFD(l)         == Args(l, 1, 1, {"ip"}, Sends(Post))
CreateBGPNeighbor(l) == Args(l, 2, 2, {"ip", "int"}, Sends(Post))

\* certCreateBody: a CA bundle has no key, the others need one.
CertUsageFits(l) == /\ "usage" \notin l.bad
                    /\ ("--usage=ca" \in l.given) # ("--key-file" \in l.given)
CreateCert(l) ==
  IF "--cert-file" \notin l.given \/ ~CertUsageFits(l) THEN Invalid
  ELSE IF "file" \in l.bad THEN Refused(Precondition)
  ELSE Sends(Upload)

ProbeShapes == {"ip", "probetype", "probeport"}
CreateEndPoint(l)   == Args(l, 1, AnyMore, ProbeShapes \cup {"period"}, Sends(Post))
CreateFDB(l)        == Args(l, 2, 2, {"mac"}, Sends(Post))
CreateFirewall(l)   == Needs(l, {"--firewallRule"},
                             IF Fits(l, {"pair", "snat"}) THEN Sends(Post) ELSE Invalid)
CreateIPv4Address(l) == Args(l, 2, 2, {"cidr"}, Sends(Post))

\* Creating a profile needs its path, a priority class needs the objectives.
CreateJWTAuthProfile(l) ==
  LET objectives == IF "--priority-class" \in l.given THEN {"objectives"} ELSE {}
      gates == <<Gate("jwt_auth_profile")>>
                 \o (IF objectives = {} THEN <<>> ELSE <<Gate("objectives")>>)
      request == Operation(l, On("jwt_auth_profile", With(objectives, Upload)))
  IN Args(l, 1, 1, {"enum"}, Needs(l, {"--issuer"}, SendsEach(gates, <<request>>)))

\* The gates are passed before the lists and the ports are looked at, and the
\* ports of a protocol only when its turn comes; no protocol, no request.
Needed(o, gate) == IF gate.feature \in LbFeatures(o) THEN <<gate>> ELSE <<>>
requireLBFeatures(o) ==
  Needed(o, Gate("bands")) \o Needed(o, Gate("reservation"))
    \o Needed(o, Gate("objectives")) \o Needed(o, Advertised("epp"))
LbRequest(o) == [With(LbFeatures(o), Post) EXCEPT !.nums = applyAIServiceOptions(o)]
CreateLoadBalancer(l) ==
  LET requests == [p \in DOMAIN l.lb.ports |->
                     IF PortsFit(l.lb, l.lb.ports[p]) THEN LbRequest(l.lb) ELSE Unparsed]
  IN IF l.n = 0 \/ "ip" \in l.bad \/ ~validateLBAIOptions(l.lb) THEN Invalid
     ELSE IF \/ "secips" \in l.lb.set /\ "sctp" \notin DOMAIN l.lb.ports
             \/ "endpoint" \in l.bad
             \/ ~parseEndpointRoles(l.lb) \/ ~alignNixlPorts(l.lb)
     THEN [Invalid EXCEPT !.gates = requireLBFeatures(l.lb)]
     ELSE SendsInAnyOrder(requireLBFeatures(l.lb), requests)

CreateMirror(l)    == Args(l, 1, 2, {"pair"}, Sends(Post))
CreateNeighbors(l) == Args(l, 2, 4, {"ip"}, Sends(Post))
CreateNetIdentity(l) ==
  Args(l, 1, 1, {"enum", "range", "cidr"}, Needs(l, {"--tenant"},
       SendsEach(<<Gate("netidentity")>>, <<Operation(l, On("netidentity", Upload))>>)))
CreateObjective(l) ==
  Args(l, 1, 1, {}, SendsEach(<<Gate("objectives")>>, <<Operation(l, On("objectives", Upload))>>))
\* More than one identifier is remarked on and not refused.
CreatePolicy(l)    == Args(l, 1, AnyMore, {"rate", "block", "target"}, Sends(Post))
CreateRoute(l)     == Args(l, 2, 3, {"cidr", "ip"}, Sends(Post))
CreateSession(l)   == Args(l, 2, 3, {"ip", "tunnel"}, Sends(Post))
\* One request per --ulclArgs value; none when the flag is not given.
CreateSessionUlCl(l) ==
  Args(l, 1, 2, {"pair"}, SendsEach(<<>>, [i \in 1..l.items |-> Post]))
CreateSNI(l)        == Needs(l, {"--hostname"}, Sends(Upload))
CreateUser(l)       == Needs(l, {"--username", "--password"}, Sends(Upload))
CreateVlanBridge(l) == Args(l, 1, 1, {"int"}, Sends(Post))
CreateVlanMember(l) == Args(l, 2, 3, {"int"}, Sends(Post))
CreateVxlanBridge(l) == Args(l, 2, 3, {"int"}, Sends(Post))
\* The count check lets one argument through and the second one is read.
CreateVxlanPeer(l)  == IF l.n = 1 THEN Panics ELSE Args(l, 2, 2, {"ip"}, Sends(Post))

\* readImportedAPIKey: both sources, an unreadable one, a key out of shape.
ImportVerdict(l) ==
  LET sources == {"--api-key-file", "--api-key-stdin"} IN
  IF sources \cap l.given = {} THEN OK
  ELSE IF sources \subseteq l.given THEN InvalidArgument
  ELSE IF "file" \in l.bad THEN Precondition
  ELSE IF "key" \in l.bad THEN InvalidArgument
  ELSE OK
\* The gate is passed before an imported key is read.
CreateAPIKey(l) ==
  LET objectives == IF "--priority-class" \in l.given THEN {"objectives"} ELSE {}
      gates == IF objectives = {} THEN <<>> ELSE <<Gate("objectives")>>
      request == [With(objectives, Upload) EXCEPT !.reads = "decoded"]
  IN IF "--tenant-id" \notin l.given \/ "enum" \in l.bad THEN Invalid
     ELSE IF ImportVerdict(l) # OK THEN [Refused(ImportVerdict(l)) EXCEPT !.gates = gates]
     ELSE SendsEach(gates, <<request>>)

-----------------------------------------------------------------------------
(* delete                                                                  *)

DeleteAPIKey(l)      == Args(l, 1, 1, {}, Sends(Erase))
DeleteBFD(l)         == Args(l, 1, AnyMore, {"ip"}, Sends(Delete))
\* The AS number must fit 16 bits here, though create takes any integer.
DeleteBGPNeighbor(l) == Args(l, 2, AnyMore, {"ip", "int", "as16"}, Sends(Delete))
DeleteCert(l)        == Args(l, 1, 1, {}, Sends(Erase))
DeleteEndPoint(l)    == Args(l, 1, AnyMore, ProbeShapes, Sends(Delete))
DeleteFDB(l)         == Args(l, 2, AnyMore, {"mac"}, Sends(Delete))
DeleteFirewall(l)    == Needs(l, {"--firewallRule"},
                              IF "pair" \in l.bad THEN Invalid ELSE Sends(Delete))
DeleteIPv4Address(l) == Args(l, 2, AnyMore, {"cidr"}, Sends(Delete))

Gated(l, feature) == Args(l, 1, 1, {}, SendsEach(<<Gate(feature)>>, <<On(feature, Erase)>>))
DeleteJWTAuthProfile(l) == Gated(l, "jwt_auth_profile")
DeleteNetIdentity(l)    == Gated(l, "netidentity")
DeleteObjective(l)      == Gated(l, "objectives")

\* By name: one request. Otherwise one per protocol, in the map's order, the
\* ports of each parsed when its turn comes; no protocol, no request.
DeleteLoadBalancer(l) ==
  LET requests == [p \in {"tcp", "udp", "sctp", "icmp"} \cap l.given |->
                     IF p \in l.bad THEN Unparsed ELSE Delete]
  IN IF "--name" \in l.given THEN Sends(Delete)
     ELSE IF l.n = 0 \/ "ports" \in l.bad THEN Invalid
     ELSE SendsInAnyOrder(<<>>, requests)
DeleteMirror(l)    == Args(l, 1, AnyMore, {}, Sends(Delete))
DeleteNeighbors(l) == Args(l, 2, AnyMore, {"ip"}, Sends(Delete))
DeleteOPA(l)       == Sends(Erase)
DeletePolicy(l)    == Args(l, 1, AnyMore, {}, Sends(Delete))
\* The message about a malformed network quotes a second argument.
DeleteRoute(l)     == IF l.n = 1 /\ "cidr" \in l.bad THEN Panics
                      ELSE Args(l, 1, AnyMore, {"cidr"}, Sends(Delete))
DeleteSession(l)   == Args(l, 1, AnyMore, {}, Sends(Delete))
DeleteSessionUlCl(l) ==
  Args(l, 1, AnyMore, {}, SendsEach(<<>>, [i \in 1..l.items |-> Delete]))
DeleteSNI(l)        == Needs(l, {"--hostname"}, Sends(Erase))
DeleteVlanBridge(l) == Args(l, 1, AnyMore, {"int"}, Sends(Delete))
\* A second argument is read unchecked by the next two.
DeleteVlanMember(l) == IF l.n = 1 /\ Fits(l, {"int"}) THEN Panics
                       ELSE Args(l, 2, AnyMore, {"int"}, Sends(Delete))
DeleteVxlanBridge(l) == Args(l, 1, AnyMore, {"int"}, Sends(Delete))
DeleteVxlanPeer(l)  == IF l.n = 1 /\ Fits(l, {"int"}) THEN Panics
                       ELSE Args(l, 2, AnyMore, {"int"}, Sends(Delete))

-----------------------------------------------------------------------------
(* set                                                                     *)

ExactlyOne(l, flags) == Cardinality(flags \cap l.given) = 1
Toggle(l, flags, verdict) == IF ExactlyOne(l, flags) THEN verdict ELSE Invalid

\* At least one patchable field; the priority ones need the objectives.
SetAPIKeyFlags == {"--enabled", "--rate-limit-rps", "--priority-class"}
Prioritised(l, request) ==
  IF "--priority-class" \in l.given
  THEN SendsEach(<<Gate("objectives")>>, <<With({"objectives"}, request)>>)
  ELSE Sends(request)
SetAPIKey(l) ==
  IF SetAPIKeyFlags \cap l.given = {} THEN Invalid
  ELSE Args(l, 1, 1, {"enum"}, Prioritised(l, Request("PATCH", {200, 204}, "printed")))
SetRateLimit(l) ==
  Needs(l, {"--tenant-id"},
        IF Fits(l, {"range", "pair", "enum"}) THEN Prioritised(l, Switch) ELSE Invalid)

SetBFD(l)      == Args(l, 1, 1, {"ip"}, Sends(Post))
SetLogLevel(l) == Args(l, 1, 1, {"enum"}, Sends(Post))

\* reportPost classifies the answers of the rest.
SetDPU(l) == IF \/ "--action=unregister" \in l.given /\ "--plugin" \in l.given
                \/ "--action=cb_force" \in l.given /\ "mode" \notin l.bad
             THEN Sends(Switch) ELSE Invalid
SetGPU(l) == Toggle(l, {"--enable", "--disable", "--cleanup"}, Sends(Switch))
\* --sampling-rate is an action of its own only when no other is given.
SetL4Trace(l) ==
  LET actions == {"--enable", "--disable", "--reset-stats"} \cap l.given
  IN IF \/ Cardinality(actions) = 1
        \/ actions = {} /\ "--sampling-rate" \in l.given
     THEN Sends(IF actions = {} THEN Request("PUT", {200, 204}, "printed") ELSE Switch)
     ELSE Invalid
SetLlamaFirewall(l) ==
  Toggle(l, {"--enable", "--disable", "--configure", "--scanners", "--health"}, Sends(Switch))
SetMetrics(l) == Toggle(l, {"--enable", "--disable"},
                        Sends(IF "--enable" \in l.given THEN Switch ELSE Erase))
SetOPA(l) == Needs(l, {"--opa-url"}, Sends(Switch))
SetPII(l) == Toggle(l, {"--enable", "--disable", "--configure", "--url-patterns"},
                    IF "--url-patterns" \in l.given THEN Needs(l, {"--url-mode"}, Sends(Switch))
                    ELSE Sends(Switch))
SetTrace(l) ==
  Toggle(l, {"--enable", "--disable", "--otlp"},
         IF "--otlp" \notin l.given THEN Sends(Switch)
         ELSE Needs(l, {"--otlp-endpoint", "--otlp-protocol"},
                    IF "pair" \in l.bad THEN Invalid ELSE Sends(Switch)))

-----------------------------------------------------------------------------
(* Configuration files: apply -f and delete -f                             *)

\* A file whose kind is known gives one request whose status is not looked
\* at; an error, or a file that cannot be read or decoded, is FAILED.
FileRequest(method) == [Request(method, Statuses, "ignored") EXCEPT !.lost = Failed]
FileKinds == {"lb", "endpoint", "fdb", "firewall", "ip", "mirror", "neighbor", "policy", "route",
              "session", "ulcl", "vlanmember", "vlan", "vxlanpeer", "vxlan", "bfd"}
FromFile(l, request) == IF Fits(l, {"file", "yaml"}) THEN Sends(request) ELSE Refused(Failed)

CreatesSpec(l) == FromFile(l, FileRequest("POST"))
SessionCreateWithFile(l) == IF "spec" \in l.bad THEN Refused(Failed) ELSE CreatesSpec(l)
ApplyFileConfig(l) ==
  IF l.kind \notin FileKinds THEN Refused(Failed)
  ELSE IF l.kind = "session" THEN SessionCreateWithFile(l)
  ELSE CreatesSpec(l)

\* The deletions of a load balancer and of a BFD session drop any error.
DeletesSpec(l) == FromFile(l, FileRequest("DELETE"))
DropsAnyError(l) == FromFile(l, [FileRequest("DELETE") EXCEPT !.lost = OK])
LoadBalancerDeleteWithFile(l) == DropsAnyError(l)
BFDDeleteWithFile(l)          == DropsAnyError(l)
\* An unknown kind is remarked on and not refused.
DeleteFileConfig(l) ==
  CASE l.kind = "lb"  -> LoadBalancerDeleteWithFile(l)
    [] l.kind = "bfd" -> BFDDeleteWithFile(l)
    [] OTHER          -> IF l.kind \in FileKinds THEN DeletesSpec(l)
                         ELSE IF Fits(l, {"file"}) THEN SendsEach(<<>>, <<>>)
                         ELSE Refused(Failed)

-----------------------------------------------------------------------------
(* The commands by name                                                    *)

CreateCmd(l) ==
  CASE l.cmd = "create lb"             -> CreateLoadBalancer(l)
    [] l.cmd = "create session"        -> CreateSession(l)
    [] l.cmd = "create sessionulcl"    -> CreateSessionUlCl(l)
    [] l.cmd = "create policy"         -> CreatePolicy(l)
    [] l.cmd = "create route"          -> CreateRoute(l)
    [] l.cmd = "create ip"             -> CreateIPv4Address(l)
    [] l.cmd = "create neighbor"       -> CreateNeighbors(l)
    [] l.cmd = "create fdb"            -> CreateFDB(l)
    [] l.cmd = "create vlan"           -> CreateVlanBridge(l)
    [] l.cmd = "create vlanmember"     -> CreateVlanMember(l)
    [] l.cmd = "create vxlan"          -> CreateVxlanBridge(l)
    [] l.cmd = "create vxlanpeer"      -> CreateVxlanPeer(l)
    [] l.cmd = "create mirror"         -> CreateMirror(l)
    [] l.cmd = "create firewall"       -> CreateFirewall(l)
    [] l.cmd = "create endpoint"       -> CreateEndPoint(l)
    [] l.cmd = "create bgpneighbor"    -> CreateBGPNeighbor(l)
    [] l.cmd = "create bfd"            -> CreateBFD(l)
    [] l.cmd = "create apikey"         -> CreateAPIKey(l)
    [] l.cmd = "create objective"      -> CreateObjective(l)
    [] l.cmd = "create netidentity"    -> CreateNetIdentity(l)
    [] l.cmd = "create jwtauthprofile" -> CreateJWTAuthProfile(l)
    [] l.cmd = "create user"           -> CreateUser(l)
    [] l.cmd = "create cert"           -> CreateCert(l)
    [] l.cmd = "create sni"            -> CreateSNI(l)
    [] OTHER                           -> Invalid

DeleteCmd(l) ==
  CASE l.cmd = "delete -f"             -> DeleteFileConfig(l)
    [] l.cmd = "delete lb"             -> DeleteLoadBalancer(l)
    [] l.cmd = "delete session"        -> DeleteSession(l)
    [] l.cmd = "delete sessionulcl"    -> DeleteSessionUlCl(l)
    [] l.cmd = "delete policy"         -> DeletePolicy(l)
    [] l.cmd = "delete route"          -> DeleteRoute(l)
    [] l.cmd = "delete ip"             -> DeleteIPv4Address(l)
    [] l.cmd = "delete neighbor"       -> DeleteNeighbors(l)
    [] l.cmd = "delete fdb"            -> DeleteFDB(l)
    [] l.cmd = "delete vlan"           -> DeleteVlanBridge(l)
    [] l.cmd = "delete vlanmember"     -> DeleteVlanMember(l)
    [] l.cmd = "delete vxlan"          -> DeleteVxlanBridge(l)
    [] l.cmd = "delete vxlanpeer"      -> DeleteVxlanPeer(l)
    [] l.cmd = "delete mirror"         -> DeleteMirror(l)
    [] l.cmd = "delete firewall"       -> DeleteFirewall(l)
    [] l.cmd = "delete endpoint"       -> DeleteEndPoint(l)
    [] l.cmd = "delete bgpneighbor"    -> DeleteBGPNeighbor(l)
    [] l.cmd = "delete bfd"            -> DeleteBFD(l)
    [] l.cmd = "delete apikey"         -> DeleteAPIKey(l)
    [] l.cmd = "delete objective"      -> DeleteObjective(l)
    [] l.cmd = "delete netidentity"    -> DeleteNetIdentity(l)
    [] l.cmd = "delete jwtauthprofile" -> DeleteJWTAuthProfile(l)
    [] l.cmd = "delete cert"           -> DeleteCert(l)
    [] l.cmd = "delete sni"            -> DeleteSNI(l)
    [] l.cmd = "delete opa"            -> DeleteOPA(l)
    [] OTHER                           -> Invalid

SetParamCmd(l) ==
  CASE l.cmd = "set loglevel"      -> SetLogLevel(l)
    [] l.cmd = "set bfd"           -> SetBFD(l)
    [] l.cmd = "set apikey"        -> SetAPIKey(l)
    [] l.cmd = "set ratelimit"     -> SetRateLimit(l)
    [] l.cmd = "set metrics"       -> SetMetrics(l)
    [] l.cmd = "set gpu"           -> SetGPU(l)
    [] l.cmd = "set pii"           -> SetPII(l)
    [] l.cmd = "set llamafirewall" -> SetLlamaFirewall(l)
    [] l.cmd = "set trace"         -> SetTrace(l)
    [] l.cmd = "set l4trace"       -> SetL4Trace(l)
    [] l.cmd = "set opa"           -> SetOPA(l)
    [] l.cmd = "set dpu"           -> SetDPU(l)
    [] OTHER                       -> Invalid

Verdict(l) ==
  CASE l.verb = "create" -> CreateCmd(l)
    [] l.verb = "delete" -> DeleteCmd(l)
    [] l.verb = "set"    -> SetParamCmd(l)
    [] OTHER             -> ApplyFileConfig(l)

=============================================================================
