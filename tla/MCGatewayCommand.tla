-------------------------- MODULE MCGatewayCommand --------------------------
(***************************************************************************)
(* Command lines and gateway builds for the model checker: every command   *)
(* with every number of arguments up to one too many, each way one of its  *)
(* values can be out of shape, and the flag sets its checks tell apart.    *)
(***************************************************************************)
EXTENDS GatewayCommand

Pair(services, first, last) ==
  [form |-> "pair", services |-> services, first |-> first, last |-> last]
NoLb == [enum |-> << >>, num |-> << >>, set |-> {}, roles |-> <<>>, nixl |-> 0,
         endpoints |-> 2, ports |-> [tcp |-> <<Pair({80}, 8080, 8080)>>]]

Line(cmd, n, bad, given, items) ==
  [verb |-> cmd[1], cmd |-> cmd[1] \o " " \o cmd[2], n |-> n, bad |-> bad, given |-> given,
   items |-> items, lb |-> NoLb, kind |-> ""]

\* A command with exactly n arguments, with one too few or too many, and with
\* n of which one is out of shape.
Takes(verb, cmd, n, shapes) ==
  {Line(<<verb, cmd>>, k, {}, {}, 0) : k \in {n - 1, n, n + 1} \cap Nat}
    \cup {Line(<<verb, cmd>>, k, {b}, {}, 0) : k \in {1, n}, b \in shapes}
\* A command with flags, of which the given sets are explored.
Flags(verb, cmd, n, shapes, givens) ==
  {Line(<<verb, cmd>>, k, bad, g, 0) :
     k \in {n}, g \in givens, bad \in {{}} \cup {{b} : b \in shapes}}
Repeats(verb, cmd, n, shapes) ==
  {Line(<<verb, cmd>>, n, bad, {}, k) : k \in 0..2, bad \in {{}} \cup {{b} : b \in shapes}}

CreateLines ==
  UNION {Takes("create", "bfd", 1, {"ip"}), Takes("create", "bgpneighbor", 2, {"ip", "int"}),
         Takes("create", "endpoint", 1, {"ip", "period"}), Takes("create", "fdb", 2, {"mac"}),
         Takes("create", "ip", 2, {"cidr"}), Takes("create", "mirror", 1, {"pair"}),
         Takes("create", "neighbor", 2, {"ip"}), Takes("create", "policy", 1, {"rate", "target"}),
         Takes("create", "route", 2, {"cidr"}), Takes("create", "session", 2, {"tunnel"}),
         Takes("create", "vlan", 1, {"int"}), Takes("create", "vlanmember", 2, {"int"}),
         Takes("create", "vxlan", 2, {"int"}), Takes("create", "vxlanpeer", 2, {"ip"}),
         Repeats("create", "sessionulcl", 1, {"pair"}),
         Flags("create", "cert", 0, {"file", "usage"},
               {{}, {"--cert-file"}, {"--cert-file", "--key-file"}, {"--cert-file", "--usage=ca"}}),
         Flags("create", "firewall", 0, {"pair"}, {{}, {"--firewallRule"}}),
         Flags("create", "jwtauthprofile", 1, {"enum"},
               {{}, {"--issuer"}, {"--issuer", "--priority-class", "-o json"}}),
         Flags("create", "netidentity", 1, {"range"}, {{}, {"--tenant"}, {"--tenant", "-o json"}}),
         Flags("create", "objective", 1, {}, {{}, {"-o json"}}),
         Flags("create", "sni", 0, {}, {{}, {"--hostname"}}),
         Flags("create", "user", 0, {}, {{"--username"}, {"--username", "--password"}}),
         Flags("create", "apikey", 0, {"enum", "file", "key"},
               {{}, {"--tenant-id"}, {"--tenant-id", "--client-op-id"},
                {"--tenant-id", "--client-op-id", "--priority-class"},
                {"--tenant-id", "--api-key-file"},
                {"--tenant-id", "--api-key-file", "--api-key-stdin"}})}

DeleteLines ==
  UNION {Takes("delete", "apikey", 1, {}), Takes("delete", "bfd", 1, {"ip"}),
         Takes("delete", "bgpneighbor", 2, {"as16"}), Takes("delete", "cert", 1, {}),
         Takes("delete", "endpoint", 1, {"probetype"}), Takes("delete", "fdb", 2, {"mac"}),
         Takes("delete", "ip", 2, {"cidr"}), Takes("delete", "jwtauthprofile", 1, {}),
         Takes("delete", "netidentity", 1, {}), Takes("delete", "objective", 1, {}),
         Takes("delete", "mirror", 1, {}), Takes("delete", "neighbor", 2, {"ip"}),
         Takes("delete", "opa", 0, {}), Takes("delete", "policy", 1, {}),
         Takes("delete", "route", 1, {"cidr"}), Takes("delete", "session", 1, {}),
         Takes("delete", "vlan", 1, {"int"}), Takes("delete", "vlanmember", 2, {"int"}),
         Takes("delete", "vxlan", 1, {"int"}), Takes("delete", "vxlanpeer", 2, {"int"}),
         Repeats("delete", "sessionulcl", 1, {}),
         Flags("delete", "sni", 0, {}, {{}, {"--hostname"}}),
         Flags("delete", "firewall", 0, {"pair"}, {{}, {"--firewallRule"}}),
         Flags("delete", "lb", 0, {}, {{}, {"--name"}}),
         Flags("delete", "lb", 1, {"ports", "udp"}, {{}, {"tcp"}, {"tcp", "udp"}})}

SetLines ==
  UNION {Takes("set", "loglevel", 1, {"enum"}), Takes("set", "bfd", 1, {"ip"}),
         Flags("set", "apikey", 1, {"enum"}, {{}, {"--enabled"}, {"--priority-class"}}),
         Flags("set", "ratelimit", 0, {"pair"},
               {{}, {"--tenant-id"}, {"--tenant-id", "--priority-class"}}),
         Flags("set", "metrics", 0, {}, {{}, {"--enable"}, {"--disable"}}),
         Flags("set", "gpu", 0, {}, {{"--cleanup"}, {"--enable", "--disable"}}),
         Flags("set", "pii", 0, {}, {{"--enable"}, {"--url-patterns"}, {"--url-patterns", "--url-mode"}}),
         Flags("set", "llamafirewall", 0, {}, {{}, {"--scanners"}}),
         Flags("set", "trace", 0, {"pair"},
               {{"--enable"}, {"--otlp"}, {"--otlp", "--otlp-endpoint", "--otlp-protocol"}}),
         Flags("set", "l4trace", 0, {}, {{}, {"--enable"}, {"--sampling-rate"}}),
         Flags("set", "opa", 0, {}, {{}, {"--opa-url"}}),
         Flags("set", "dpu", 0, {"mode"},
               {{"--action=unregister"}, {"--action=unregister", "--plugin"}, {"--action=cb_force"}})}

\* create lb: a plain rule, a rule for exact KV routing over the ranks of an
\* engine, a disaggregated one, and each with one more option, at and past
\* its limits.
Lb(o) == [Line(<<"create", "lb">>, 1, {}, {}, 0) EXCEPT !.lb = o]
Kv == [NoLb EXCEPT !.enum = [mode |-> "fullproxy"], !.num = [kvmode |-> 3]]
Pd == [NoLb EXCEPT !.enum = [mode |-> "fullproxy"], !.num = [kvmode |-> 1],
                   !.set = {"pd-disagg"}, !.roles = <<"prefill", "decode">>]
Numbered(o, nums) == [o EXCEPT !.num = [f \in DOMAIN nums \cup DOMAIN @ |->
                                          IF f \in DOMAIN nums THEN nums[f] ELSE o.num[f]]]
Named(o, enums) == [o EXCEPT !.enum = [f \in DOMAIN enums \cup DOMAIN @ |->
                                         IF f \in DOMAIN enums THEN enums[f] ELSE o.enum[f]]]
LbRules ==
  {NoLb, Kv, Pd}
    \cup {Numbered(NoLb, n) :
            n \in {[depth |-> 0], [depth |-> 5], [depth |-> 65536], [depth |-> 65537],
                   [waitms |-> 0], [depth |-> 5, waitms |-> 0], [depth |-> 0, waitms |-> 0],
                   [depth |-> 5, waitms |-> 9], [tenantshare |-> 101], [weights |-> 62],
                   [weights |-> 63], [maxtokens |-> 4], [epptimeout |-> 600001], [kvmode |-> 3]}}
    \cup {Numbered(o, n) : o \in {Kv, Pd},
            n \in {[ranks |-> 8, zmq |-> 65528], [ranks |-> 8, zmq |-> 65529],
                   [ranks |-> 1, zmq |-> 65535], [ranks |-> 2, zmq |-> 65535], [ranks |-> 9],
                   [zmq |-> 65536], [kvmode |-> 2], [bootstrap |-> 9000], [prefilltimeout |-> 3601],
                   [kvblock |-> 32], [kvblock |-> 0], [zmq |-> 0, weights |-> 0]}}
    \cup {Named(o, e) : o \in {NoLb, Kv, Pd},
            e \in {[mode |-> "dsr"], [kvengine |-> "sglang"], [kvengine |-> "llamacpp"],
                   [kvhash |-> "sha256_sglang"], [shed |-> "inherit"], [wake |-> "fifo"],
                   [sockmap |-> "both"], [eppfailure |-> "FailOpen"], [fcmode |-> "always"]}}
    \cup {Named(NoLb, e) : e \in {[apikeyauth |-> "jwt"], [select |-> "chwbl"]}}
    \cup {[o EXCEPT !.set = @ \cup {f}] : o \in {NoLb, Kv, Pd},
            f \in {"epp-endpoint", "ai-objective-strict", "pd-cache-aware", "pd-disagg", "secips",
                   "backend-ca-cert-id", "mtls-backend-ca-path", "jwt-auth-profile"}}
    \cup {Named([Pd EXCEPT !.set = @ \cup {"epp-endpoint"}], [eppfailure |-> "FailOpen"])}
    \cup {[Pd EXCEPT !.roles = r] : r \in {<<>>, <<"prefill", "prefill">>, <<"prefill", "unknown">>,
                                          <<"prefill", "decode", "normal">>}}
    \cup {[NoLb EXCEPT !.nixl = n] : n \in 1..2}
    \cup {[NoLb EXCEPT !.ports = [tcp |-> ps]] :
            ps \in {<<Pair({80}, 8080, 8079)>>, <<Pair({80, 65616}, 8080, 8081)>>,
                    <<Pair({80}, 8080, 8080), Pair({443}, 8443, 8443)>>,
                    <<Pair({80}, 1, 1), Pair({81}, 1, 1), Pair({82}, 1, 1)>>,
                    <<[Pair({80}, 1, 1) EXCEPT !.form = "odd"]>>,
                    <<[Pair({80}, 1, 1) EXCEPT !.form = "bad"]>>}}
    \cup {[NoLb EXCEPT !.ports = << >>],
          [Numbered(NoLb, [depth |-> 5]) EXCEPT
             !.ports = [tcp |-> <<Pair({80}, 8080, 8080)>>, udp |-> <<Pair({53}, 53, 53)>>]],
          [NoLb EXCEPT !.ports = [tcp |-> <<Pair({80}, 80, 80)>>,
                                  udp |-> <<[Pair({53}, 53, 53) EXCEPT !.form = "bad"]>>]]}
LbLines == {Lb(o) : o \in LbRules}
             \cup {Line(<<"create", "lb">>, 0, {}, {}, 0), Line(<<"create", "lb">>, 1, {"ip"}, {}, 0)}

FileLines ==
  {[Line(<<verb, "-f">>, 0, bad, {}, 0) EXCEPT !.kind = kind] :
     verb \in {"apply", "delete"}, kind \in {"lb", "bfd", "session", "route", "no such kind"},
     bad \in {{}, {"file"}, {"spec"}}}

AllLines == CreateLines \cup DeleteLines \cup SetLines \cup LbLines \cup FileLines

\* A current gateway, one that serves more than it advertises, one from before
\* the gated features, and a peer that is no gateway.
Features == {"bands", "reservation", "objectives", "epp", "netidentity", "jwt_auth_profile"}
AllBuilds ==
  {[gateway |-> TRUE, tokens |-> Features, serves |-> Features],
   [gateway |-> TRUE, tokens |-> {}, serves |-> Features],
   [gateway |-> TRUE, tokens |-> {"objectives"}, serves |-> {"objectives"}],
   [gateway |-> FALSE, tokens |-> {}, serves |-> {}]}

SeededFields == [depth |-> 7, waitms |-> 7, weights |-> 7, kvblock |-> 7, zmq |-> 7]

=============================================================================
