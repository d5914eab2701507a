----------------------------- MODULE LbOptions -----------------------------
(***************************************************************************)
(* The options of "create lb": which combinations are refused before the   *)
(* request is built, which gateway features they need, and what goes on    *)
(* the wire.  An option record holds                                       *)
(*   enum  the values of the string flags that were given,                 *)
(*   num   the values of the numeric flags that were given (of a band      *)
(*         triple, its largest value),                                     *)
(*   set   the other flags that were given,                                *)
(*   roles, nixl, endpoints   the per-endpoint lists,                      *)
(*   ports the port pairs of each protocol flag that was given.            *)
(* The order of the checks only decides which message is printed: every    *)
(* refusal is INVALID_ARGUMENT.                                            *)
(***************************************************************************)
EXTENDS Integers, Sequences, FiniteSets, FiniteSetsExt

\* The empty default of a string flag: the flag was not given.
Unset == "unset"
Enum(o, f) == IF f \in DOMAIN o.enum THEN o.enum[f] ELSE Unset
Num(o, f)  == IF f \in DOMAIN o.num THEN o.num[f] ELSE 0

\* The string flags with a closed set of values; --mode, --select and
\* --security are not among them, an unknown value of those is the default.
APIKeyAuths   == {"disabled", "required", "jwt", "apikey-or-jwt"}
SockMapModes  == {"off", "request", "response", "both"}
EppFailures   == {"FailOpen", "FailClose"}
Inheritable   == {"on", "off", "inherit"}
FcEnums ==
  [fcmode |-> {"off", "observe", "enforce", "inherit"}, fcadaptive |-> Inheritable,
   fcexpose |-> Inheritable]
BandEnums ==
  [wake |-> {"strict", "weighted", "inherit"}, shed |-> Inheritable,
   tenantwake |-> {"fifo", "rr", "inherit"}, llmd |-> Inheritable, reservation |-> Inheritable]
InEnum(o, f, values) == Enum(o, f) \in values \cup {Unset}
InEnums(o, table) == \A f \in DOMAIN table : InEnum(o, f, table[f])

FcCeilings ==
  [depth |-> 65536, waitms |-> 3600000, outstanding |-> 100000, epinflight |-> 100000,
   prefillinflight |-> 100000, decodeinflight |-> 100000,
   stalems |-> 3600000, warmupms |-> 3600000, ttftms |-> 3600000, tenantshare |-> 100]
BandCeilings ==
  [weights |-> 62, minshare |-> 100, bandwaitms |-> 3600000, queuepct |-> 100,
   reserve |-> 100, maxtokens |-> 100000000]
Within(o, table) == \A f \in DOMAIN table : Num(o, f) <= table[f]

validateFcBandOptions(o)  == InEnums(o, BandEnums) /\ Within(o, BandCeilings)
\* A depth needs a wait; the rule's stored one counts, a given zero does not.
validateFcQueueOptions(o) ==
  /\ Within(o, FcCeilings)
  /\ ~(Num(o, "depth") > 0 /\ "waitms" \in DOMAIN o.num /\ Num(o, "waitms") = 0)
  /\ InEnums(o, FcEnums)
  /\ validateFcBandOptions(o)

EppTimeoutMsMax == 600000
validateEppOptions(o) ==
  /\ InEnum(o, "eppfailure", EppFailures)
  /\ Num(o, "epptimeout") \in 0..EppTimeoutMsMax
  /\ "epp-endpoint too long" \notin o.set
  /\ "epp-endpoint" \in o.set /\ "pd-disagg" \in o.set => Enum(o, "eppfailure") = "FailOpen"

Fullproxy(o) == Enum(o, "mode") = "fullproxy"
EndToEnd(o)  == Enum(o, "security") \in {"e2ehttps", "e2etls"}
RetiredFlags == {"mtls-backend-ca-path", "mtls-backend-cert-path", "mtls-backend-key-path",
                 "mtls-backend-verify-server"}
lbBackendTLSRequested(o) ==
  o.set \cap {"backend-ca-cert-id", "backend-client-cert-id", "backend-tls-server-name"} # {}
validateBackendTLSOptions(o) ==
  /\ o.set \cap RetiredFlags = {}
  /\ lbBackendTLSRequested(o) => Fullproxy(o) /\ EndToEnd(o)

\* What only an L7 rule has; --backend-protocol and the queue are not in it.
lbMtlsFrontendRequested(o) == "mtls-client" \in o.set
L7Selects == {"chwbl", "gpuaware", "wrr-hash", "chwbl-wrr"}
lbAIRequested(o) ==
  \/ o.set \cap {"model-name", "path-prefix", "path-match-mode", "session-header-name",
                 "trace-type", "sse-mode", "jwt-auth-profile", "max-stream-duration",
                 "backend-keepalive", "cb-enable", "epp-endpoint", "chwbl-knobs", "pd-disagg",
                 "pd-cache-aware", "pd-thresholds", "hsts"} # {}
  \/ \E f \in {"sockmap", "apikeyauth", "kvengine", "kvhash"} : Enum(o, f) # Unset
  \/ \E f \in {"bootstrap", "prefilltimeout", "kvmode", "kvblock", "zmq", "ranks", "kvwarmup"} :
       Num(o, f) # 0
  \/ o.roles # <<>> \/ o.nixl > 0
  \/ lbMtlsFrontendRequested(o) \/ lbBackendTLSRequested(o)
  \/ Enum(o, "select") \in L7Selects

HashesOf(engine) ==
  CASE engine = "vllm"   -> {"sha256_cbor", "xxhash_cbor"}
    [] engine = "sglang" -> {"sha256_sglang"}
    [] engine = "trtllm" -> {"blockhash_trtllm"}
    [] OTHER             -> {}
validateKVHashForEngine(o, engine) == Enum(o, "kvhash") \in HashesOf(engine) \cup {Unset}

DefaultZmqPort == 5557
MaxPort        == 65535
Engine(o)  == IF Enum(o, "kvengine") = Unset THEN "vllm" ELSE Enum(o, "kvengine")
ZmqBase(o) == IF Num(o, "zmq") = 0 THEN DefaultZmqPort ELSE Num(o, "zmq")

\* Mutant: the last rank's port is compared with the number of ports.
KvNumbersFitOffByOne(o) ==
  /\ Num(o, "ranks") \in 0..8
  /\ Num(o, "zmq") \in 0..MaxPort
  /\ Num(o, "kvblock") >= 0 /\ Num(o, "kvwarmup") >= 0
  /\ Num(o, "kvmode") \in {0, 1, 3}
  /\ Num(o, "kvmode") # 0 /\ Num(o, "ranks") > 0 => ZmqBase(o) + Num(o, "ranks") - 1 <= MaxPort + 1

\* The numbers of the KV options, rank ports included.
KvNumbersFit(o) ==
  /\ Num(o, "ranks") \in 0..8
  /\ Num(o, "zmq") \in 0..MaxPort
  /\ Num(o, "kvblock") >= 0 /\ Num(o, "kvwarmup") >= 0
  /\ Num(o, "kvmode") \in {0, 1, 3}
  /\ Num(o, "kvmode") # 0 /\ Num(o, "ranks") > 0 => ZmqBase(o) + Num(o, "ranks") - 1 <= MaxPort

Disaggregated(o) == "pd-disagg" \in o.set
\* What prefill/decode disaggregation needs and what needs it.
PdFits(o) ==
  /\ Num(o, "kvmode") = 1 => Disaggregated(o)
  /\ Num(o, "kvmode") = 3 => ~Disaggregated(o)
  /\ Num(o, "bootstrap") \in 0..MaxPort
  /\ Num(o, "bootstrap") # 0 => Disaggregated(o) /\ Engine(o) = "sglang"
  /\ Num(o, "prefilltimeout") \in 0..3600
  /\ Num(o, "prefilltimeout") # 0 => Disaggregated(o)
  /\ Disaggregated(o) => /\ \A i \in DOMAIN o.roles : o.roles[i] # "unknown"
                         /\ \E i \in DOMAIN o.roles : o.roles[i] = "prefill"
                         /\ \E i \in DOMAIN o.roles : o.roles[i] = "decode"

\* The options an engine has no use for are refused unless they are its default.
EngineFits(o) ==
  /\ Engine(o) \in {"vllm", "sglang", "trtllm", "llamacpp"}
  /\ Engine(o) \in {"trtllm", "llamacpp"} =>
       Num(o, "zmq") \in {0, DefaultZmqPort} /\ Num(o, "ranks") <= 1
  /\ Engine(o) = "llamacpp" =>
       Num(o, "kvmode") = 0 /\ ~Disaggregated(o) /\ Num(o, "kvblock") \in {0, 16}
validateKVEngineOptions(o) ==
  KvNumbersFit(o) /\ validateKVHashForEngine(o, Engine(o)) /\ PdFits(o) /\ EngineFits(o)

JWTFits(o) == /\ (Enum(o, "apikeyauth") \in {"jwt", "apikey-or-jwt"})
                   = ("jwt-auth-profile" \in o.set)
              /\ "jwt-auth-profile too long" \notin o.set
\* The checks of the second half are made only when an L7 option was given.
validateLBAIOptions(o) ==
  /\ InEnum(o, "apikeyauth", APIKeyAuths) /\ JWTFits(o)
  /\ validateEppOptions(o)
  /\ InEnum(o, "sockmap", SockMapModes)
  /\ validateFcQueueOptions(o)
  /\ validateBackendTLSOptions(o)
  /\ lbAIRequested(o) =>
       /\ Fullproxy(o)
       /\ "pd-cache-aware" \in o.set => Disaggregated(o)
       /\ validateKVEngineOptions(o)

-----------------------------------------------------------------------------
(* Features                                                                *)

lbBandsRequested(o) ==
  \/ \E f \in {"wake", "shed", "tenantwake", "llmd"} : Enum(o, f) # Unset
  \/ {"weights", "minshare", "reserve", "bandwaitms", "queuepct"} \cap DOMAIN o.num # {}
ReservationRequested(o) == Enum(o, "reservation") # Unset \/ "maxtokens" \in DOMAIN o.num
LbFeature(o, feature) ==
  CASE feature = "bands"       -> lbBandsRequested(o)
    [] feature = "reservation" -> ReservationRequested(o)
    [] feature = "objectives"  -> "ai-objective-strict" \in o.set
    [] OTHER                   -> "epp-endpoint" \in o.set
LbFeatures(o) == {f \in {"bands", "reservation", "objectives", "epp"} : LbFeature(o, f)}

-----------------------------------------------------------------------------
(* The per-endpoint lists and the ports                                    *)

\* Lists are aligned with --endpoints by position; an absent list is zeros.
RolesFit(o) == o.roles = <<>> \/ Len(o.roles) = o.endpoints
parseEndpointRoles(o) == RolesFit(o) /\ \A i \in DOMAIN o.roles : o.roles[i] # "unknown"
alignNixlPorts(o) == o.nixl \in {0, o.endpoints}

\* A port pair: the service ports, the first and last target port; "odd"
\* when it has not one colon or a target of more than two bounds, "bad"
\* when a port is not a number.
UInt16(n) == n % 65536
TargetsFit(pair) == pair.form = "odd" \/ (pair.form = "pair" /\ pair.first <= pair.last)
\* GetPortPairList: odd pairs are skipped, a later pair replaces an earlier
\* one for the same port, and every port is cut to 16 bits.
PortPairs(pairs) ==
  LET used == {i \in DOMAIN pairs : pairs[i].form = "pair"}
      named(p) == {i \in used : p \in {UInt16(s) : s \in pairs[i].services}}
  IN [p \in {UInt16(s) : s \in UNION {pairs[i].services : i \in used}} |->
        {UInt16(t) : t \in pairs[Max(named(p))].first..pairs[Max(named(p))].last}]
\* One port, or two that are taken for the bounds of a range; the targets are
\* those of the lower one; no translation in dsr mode.
PortsFit(o, pairs) ==
  /\ \A i \in DOMAIN pairs : TargetsFit(pairs[i])
  /\ Cardinality(DOMAIN PortPairs(pairs)) \in 1..2
  /\ LET start == Min(DOMAIN PortPairs(pairs))
     IN Enum(o, "mode") = "dsr" /\ o.endpoints > 0 => PortPairs(pairs)[start] \subseteq {start}

-----------------------------------------------------------------------------
(* The numbers on the wire                                                 *)

\* The pointer fields: nil when the flag was not given.
SentWhenGiven == DOMAIN FcCeilings \cup DOMAIN BandCeilings
\* Mutant: a pointer field's zero is left out, as a plain omitempty number's.
u32IfNonZero(o, f) == f \in SentWhenGiven /\ Num(o, f) # 0
\* A pointer field goes on the wire when its flag was given, a zero too.
u32IfGiven(o, f) == f \in SentWhenGiven /\ f \in DOMAIN o.num
\* The other numbers are plain omitempty ones: a zero, given or not, is left out.
OmitEmpty(o, f) == f \notin SentWhenGiven /\ Num(o, f) # 0
Sent(o) == {f \in DOMAIN o.num : u32IfGiven(o, f) \/ OmitEmpty(o, f)}
applyAIServiceOptions(o) == [f \in Sent(o) |-> o.num[f]]

=============================================================================
