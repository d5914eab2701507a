------------------------ MODULE GatewayCommandProof ------------------------
(***************************************************************************)
(* What is proved of the create, delete, set and file commands, for every  *)
(* set of command lines and of gateway builds.                             *)
(*                                                                         *)
(* The argument has two halves.  VerdictFits says of a command's verdict   *)
(* all that the properties need to know of it (its requests, their codes,  *)
(* the gates before them); it is proved once for every command.  CommandInv*)
(* is the inductive invariant; its proof looks at a request only through   *)
(* VerdictFits.                                                            *)
(***************************************************************************)
EXTENDS GatewayCommand, FiniteSetTheorems, TLAPS

NoChange  == {InvalidArgument, Auth, Precondition, FeatureUnavailable}
Success   == {200, 201, 204}
\* The features a command looks for, and the one it will not do without.
LooseFeatures == {"bands", "reservation", "objectives", "netidentity", "jwt_auth_profile"}
Gates     == [feature : LooseFeatures \cup {"epp"}, strict : BOOLEAN]

\* A request of line l: only a file command takes any status for success or
\* drops a lost answer; a load balancer carries its numbers.
RequestFits(l, r) ==
  /\ r.lost \in {OK, Unavailable, Failed}
  /\ l.cmd \notin FileCommands => r.ok \subseteq Success /\ r.lost = Unavailable
  /\ l.cmd = "create lb" /\ r.method # "none" => r.nums = applyAIServiceOptions(l.lb)
\* A gate for feature f is among gs; the endpoint picker's is a strict one.
Guarded(gs, f) == \E j \in DOMAIN gs : gs[j].feature = f /\ (f = "epp" => gs[j].strict)
\* A plan of line l, after the gates gs.
PlanFits(l, gs, p) ==
  /\ Len(p) \in Nat /\ DOMAIN p = 1..Len(p) /\ (Len(p) = 0 => p = <<>>)
  /\ l.cmd \in FileCommands => Len(p) <= 1
  /\ \A i \in DOMAIN p : /\ RequestFits(l, p[i])
                         /\ \A f \in p[i].fields : Guarded(gs, f)
VerdictFits(l, v) ==
  /\ v.code \in Taxonomy /\ v.gates \in Seq(Gates)
  /\ \A p \in v.plans : PlanFits(l, v.gates, p)

Carries(l, f) == \E p \in Verdict(l).plans : \E i \in DOMAIN p : f \in p[i].fields

PlanInv ==
  /\ plan = <<>> \/ (Verdict(line).code = OK /\ plan \in Verdict(line).plans)
  /\ pc = "gate" => plan = <<>> /\ next = 1 /\ changed = {} /\ dropped = {}
  /\ pc \in {"send", "wait"} => next \in DOMAIN plan
  /\ pc = "wait" => Current.method # "none"
LateInv ==
  \A m \in late :
    /\ m.attempt \in 1..attempt /\ m.request.method # "none" /\ RequestFits(line, m.request)
    /\ m.attempt = attempt => m.index \in DOMAIN plan /\ m.request = plan[m.index]
HarmlessInv ==
  pc # "done" \/ exit \in NoChange =>
    /\ next \in DOMAIN plan \/ plan = <<>>
    /\ changed \subseteq 1..(next - 1) /\ \A m \in late : m.attempt # attempt
EarnedInv ==
  /\ pc \in {"send", "wait"} => 1..(next - 1) \subseteq changed
  /\ SuccessIsEarned
\* The pointer numbers that were not given have the rule's values, the numbers
\* on the wire the given ones.
Kept(nums)  ==
  \A f \in (DOMAIN nums \cap SentWhenGiven) \ DOMAIN line.lb.num : nums[f] = StoredFields[f]
Given(nums) == \A f \in DOMAIN nums \cap Sent(line.lb) : nums[f] = line.lb.num[f]
NumInv ==
  line.cmd = "create lb" => Kept(stored) /\ (changed # {} => Given(stored))
GateInv ==
  /\ gates \in Seq(Gates) /\ (plan # <<>> => gates = <<>>)
  /\ \A f : Carries(line, f) =>
       \/ Guarded(gates, f)
       \/ version # Unread /\ f \in version.tokens
       \/ f \in warned /\ f # "epp"
  /\ ~replaced /\ version # Unread => version.tokens = peer.tokens
  /\ DroppedFieldWasWarned

CommandInv == TypeOK /\ PlanInv /\ LateInv /\ HarmlessInv /\ EarnedInv /\ NumInv /\ GateInv

-----------------------------------------------------------------------------
(* What a verdict promises                                                 *)

\* The codes of the table, none of which is "still running".
LEMMA CodesExist ==
  /\ {OK, InvalidArgument, Auth, Precondition, Unavailable, ContractMismatch, Failed, Partial,
      FeatureUnavailable, PanicExit} \subseteq Taxonomy
  /\ \A c \in Taxonomy : c # Running
BY DEF OK, InvalidArgument, Auth, Precondition, Unavailable, ContractMismatch, Failed, Partial,
       FeatureUnavailable, PanicExit, Taxonomy, Running

\* A refusal is not a success.
LEMMA CodesDiffer == OK # InvalidArgument
BY DEF OK, InvalidArgument

\* A refusal fits, whatever its code and the gates before it.
LEMMA RefusedFits ==
  ASSUME NEW l, NEW code \in Taxonomy, NEW gs \in Seq(Gates)
  PROVE  VerdictFits(l, [code |-> code, gates |-> gs, plans |-> {}])
BY DEF VerdictFits

\* A command of one request fits if its request does.
LEMMA SendsFits ==
  ASSUME NEW l, NEW gs \in Seq(Gates), NEW r, RequestFits(l, r),
         \A f \in r.fields : Guarded(gs, f)
  PROVE  VerdictFits(l, SendsEach(gs, <<r>>))
<1> DEFINE p == <<r>>
<1>1. Len(p) = 1 /\ DOMAIN p = 1..1 /\ p[1] = r  OBVIOUS
<1>2. PlanFits(l, gs, p)
  <2> HIDE DEF p
  <2> QED  BY <1>1 DEF PlanFits
<1> QED  BY <1>2, CodesExist DEF VerdictFits, SendsEach

\* The verdicts of most commands.
Changes == Request("PUT", {200, 204}, "printed")
Simple == {Invalid, Panics, Refused(Precondition), Sends(Post), Sends(Delete), Sends(Upload),
           Sends(Erase), Sends(Switch), Sends(Changes)}
PlainLine(l) == l.cmd \notin FileCommands \cup {"create lb", "create apikey"}

\* A command may have no gate.
LEMMA NoGates == <<>> \in Seq(Gates)
OBVIOUS

\* The refusal of a command without a gate.
LEMMA RefusalFits ==
  ASSUME NEW l, NEW code \in Taxonomy
  PROVE  VerdictFits(l, Refused(code))
BY RefusedFits, NoGates DEF Refused

\* A request of a command that is not one of the special ones.
LEMMA PlainRequest ==
  ASSUME NEW l, PlainLine(l), NEW method, NEW ok \in SUBSET Success, NEW reads
  PROVE  /\ RequestFits(l, Request(method, ok, reads))
         /\ Request(method, ok, reads).fields = {}
BY DEF PlainLine, RequestFits, Request, Unavailable, OK, Failed

\* A command that sends one such request.
LEMMA PlainSends ==
  ASSUME NEW l, PlainLine(l), NEW method, NEW ok \in SUBSET Success, NEW reads
  PROVE  VerdictFits(l, Sends(Request(method, ok, reads)))
<1> DEFINE r == Request(method, ok, reads)
<1>1. RequestFits(l, r) /\ r.fields = {}  BY PlainRequest
<1>2. \A f \in r.fields : Guarded(<<>>, f)  BY <1>1
<1> HIDE DEF r
<1>3. VerdictFits(l, SendsEach(<<>>, <<r>>))  BY <1>1, <1>2, NoGates, SendsFits
<1> QED  BY <1>3 DEF Sends, r

\* Each of the simple verdicts fits a plain line.
LEMMA SimpleFits ==
  ASSUME NEW l, PlainLine(l), NEW v \in Simple
  PROVE  VerdictFits(l, v)
<1>1. {200} \in SUBSET Success /\ {200, 201} \in SUBSET Success /\ {200, 204} \in SUBSET Success
  BY DEF Success
<1>2. /\ InvalidArgument \in Taxonomy /\ PanicExit \in Taxonomy /\ Precondition \in Taxonomy
  BY CodesExist
<1>3. CASE v = Invalid  BY <1>2, <1>3, RefusalFits DEF Invalid
<1>4. CASE v = Panics  BY <1>2, <1>4, RefusalFits DEF Panics
<1>5. CASE v = Refused(Precondition)  BY <1>2, <1>5, RefusalFits
<1>6. CASE v = Sends(Post)  BY <1>1, <1>6, PlainSends DEF Post
<1>7. CASE v = Sends(Delete)  BY <1>1, <1>7, PlainSends DEF Delete
<1>8. CASE v = Sends(Upload)  BY <1>1, <1>8, PlainSends DEF Upload
<1>9. CASE v = Sends(Erase)  BY <1>1, <1>9, PlainSends DEF Erase
<1>10. CASE v = Sends(Switch)  BY <1>1, <1>10, PlainSends DEF Switch
<1>11. CASE v = Sends(Changes)  BY <1>1, <1>11, PlainSends DEF Changes
<1> QED
  BY <1>3, <1>4, <1>5, <1>6, <1>7, <1>8, <1>9, <1>10, <1>11 DEF Simple

\* The create commands that refuse their line or send one request.
LEMMA SimpleCreate ==
  ASSUME NEW l
  PROVE  /\ CreateBFD(l) \in Simple /\ CreateBGPNeighbor(l) \in Simple /\ CreateCert(l) \in Simple
         /\ CreateEndPoint(l) \in Simple /\ CreateFDB(l) \in Simple /\ CreateFirewall(l) \in Simple
         /\ CreateIPv4Address(l) \in Simple /\ CreateMirror(l) \in Simple /\ CreateNeighbors(l) \in Simple
         /\ CreatePolicy(l) \in Simple /\ CreateRoute(l) \in Simple /\ CreateSession(l) \in Simple
         /\ CreateSNI(l) \in Simple /\ CreateUser(l) \in Simple /\ CreateVlanBridge(l) \in Simple
         /\ CreateVlanMember(l) \in Simple /\ CreateVxlanBridge(l) \in Simple /\ CreateVxlanPeer(l) \in Simple
<1>1. CreateBFD(l) \in Simple  BY DEF CreateBFD, Args, Needs, Simple
<1>2. CreateBGPNeighbor(l) \in Simple  BY DEF CreateBGPNeighbor, Args, Needs, Simple
<1>3. CreateCert(l) \in Simple  BY DEF CreateCert, Args, Needs, Simple
<1>4. CreateEndPoint(l) \in Simple  BY DEF CreateEndPoint, Args, Needs, Simple
<1>5. CreateFDB(l) \in Simple  BY DEF CreateFDB, Args, Needs, Simple
<1>6. CreateFirewall(l) \in Simple  BY DEF CreateFirewall, Args, Needs, Simple
<1>7. CreateIPv4Address(l) \in Simple  BY DEF CreateIPv4Address, Args, Needs, Simple
<1>8. CreateMirror(l) \in Simple  BY DEF CreateMirror, Args, Needs, Simple
<1>9. CreateNeighbors(l) \in Simple  BY DEF CreateNeighbors, Args, Needs, Simple
<1>10. CreatePolicy(l) \in Simple  BY DEF CreatePolicy, Args, Needs, Simple
<1>11. CreateRoute(l) \in Simple  BY DEF CreateRoute, Args, Needs, Simple
<1>12. CreateSession(l) \in Simple  BY DEF CreateSession, Args, Needs, Simple
<1>13. CreateSNI(l) \in Simple  BY DEF CreateSNI, Args, Needs, Simple
<1>14. CreateUser(l) \in Simple  BY DEF CreateUser, Args, Needs, Simple
<1>15. CreateVlanBridge(l) \in Simple  BY DEF CreateVlanBridge, Args, Needs, Simple
<1>16. CreateVlanMember(l) \in Simple  BY DEF CreateVlanMember, Args, Needs, Simple
<1>17. CreateVxlanBridge(l) \in Simple  BY DEF CreateVxlanBridge, Args, Needs, Simple
<1>18. CreateVxlanPeer(l) \in Simple  BY DEF CreateVxlanPeer, Args, Needs, Simple
<1> QED
  BY <1>1, <1>2, <1>3, <1>4, <1>5, <1>6, <1>7, <1>8, <1>9, <1>10, <1>11, <1>12, <1>13, <1>14,
     <1>15, <1>16, <1>17, <1>18

\* The delete commands of that kind.
LEMMA SimpleDelete ==
  ASSUME NEW l
  PROVE  /\ DeleteAPIKey(l) \in Simple /\ DeleteBFD(l) \in Simple /\ DeleteBGPNeighbor(l) \in Simple
         /\ DeleteCert(l) \in Simple /\ DeleteEndPoint(l) \in Simple /\ DeleteFDB(l) \in Simple
         /\ DeleteFirewall(l) \in Simple /\ DeleteIPv4Address(l) \in Simple /\ DeleteMirror(l) \in Simple
         /\ DeleteNeighbors(l) \in Simple /\ DeleteOPA(l) \in Simple /\ DeletePolicy(l) \in Simple
         /\ DeleteRoute(l) \in Simple /\ DeleteSession(l) \in Simple /\ DeleteSNI(l) \in Simple
         /\ DeleteVlanBridge(l) \in Simple /\ DeleteVlanMember(l) \in Simple /\ DeleteVxlanBridge(l) \in Simple
         /\ DeleteVxlanPeer(l) \in Simple
<1>1. DeleteAPIKey(l) \in Simple  BY DEF DeleteAPIKey, Args, Needs, Simple
<1>2. DeleteBFD(l) \in Simple  BY DEF DeleteBFD, Args, Needs, Simple
<1>3. DeleteBGPNeighbor(l) \in Simple  BY DEF DeleteBGPNeighbor, Args, Needs, Simple
<1>4. DeleteCert(l) \in Simple  BY DEF DeleteCert, Args, Needs, Simple
<1>5. DeleteEndPoint(l) \in Simple  BY DEF DeleteEndPoint, Args, Needs, Simple
<1>6. DeleteFDB(l) \in Simple  BY DEF DeleteFDB, Args, Needs, Simple
<1>7. DeleteFirewall(l) \in Simple  BY DEF DeleteFirewall, Args, Needs, Simple
<1>8. DeleteIPv4Address(l) \in Simple  BY DEF DeleteIPv4Address, Args, Needs, Simple
<1>9. DeleteMirror(l) \in Simple  BY DEF DeleteMirror, Args, Needs, Simple
<1>10. DeleteNeighbors(l) \in Simple  BY DEF DeleteNeighbors, Args, Needs, Simple
<1>11. DeleteOPA(l) \in Simple  BY DEF DeleteOPA, Args, Needs, Simple
<1>12. DeletePolicy(l) \in Simple  BY DEF DeletePolicy, Args, Needs, Simple
<1>13. DeleteRoute(l) \in Simple  BY DEF DeleteRoute, Args, Needs, Simple
<1>14. DeleteSession(l) \in Simple  BY DEF DeleteSession, Args, Needs, Simple
<1>15. DeleteSNI(l) \in Simple  BY DEF DeleteSNI, Args, Needs, Simple
<1>16. DeleteVlanBridge(l) \in Simple  BY DEF DeleteVlanBridge, Args, Needs, Simple
<1>17. DeleteVlanMember(l) \in Simple  BY DEF DeleteVlanMember, Args, Needs, Simple
<1>18. DeleteVxlanBridge(l) \in Simple  BY DEF DeleteVxlanBridge, Args, Needs, Simple
<1>19. DeleteVxlanPeer(l) \in Simple  BY DEF DeleteVxlanPeer, Args, Needs, Simple
<1> QED
  BY <1>1, <1>2, <1>3, <1>4, <1>5, <1>6, <1>7, <1>8, <1>9, <1>10, <1>11, <1>12, <1>13, <1>14,
     <1>15, <1>16, <1>17, <1>18, <1>19

\* The set commands of that kind.
LEMMA SimpleSet ==
  ASSUME NEW l
  PROVE  /\ SetBFD(l) \in Simple /\ SetLogLevel(l) \in Simple /\ SetDPU(l) \in Simple
         /\ SetGPU(l) \in Simple /\ SetL4Trace(l) \in Simple /\ SetLlamaFirewall(l) \in Simple
         /\ SetMetrics(l) \in Simple /\ SetOPA(l) \in Simple /\ SetPII(l) \in Simple
         /\ SetTrace(l) \in Simple
<1>1. SetBFD(l) \in Simple  BY DEF SetBFD, Args, Needs, Toggle, Simple
<1>2. SetLogLevel(l) \in Simple  BY DEF SetLogLevel, Args, Needs, Toggle, Simple
<1>3. SetDPU(l) \in Simple  BY DEF SetDPU, Args, Needs, Toggle, Simple
<1>4. SetGPU(l) \in Simple  BY DEF SetGPU, Args, Needs, Toggle, Simple
<1>5. SetL4Trace(l) \in Simple  BY DEF SetL4Trace, Args, Needs, Toggle, Changes, Simple
<1>6. SetLlamaFirewall(l) \in Simple  BY DEF SetLlamaFirewall, Args, Needs, Toggle, Simple
<1>7. SetMetrics(l) \in Simple  BY DEF SetMetrics, Args, Needs, Toggle, Simple
<1>8. SetOPA(l) \in Simple  BY DEF SetOPA, Args, Needs, Toggle, Simple
<1>9. SetPII(l) \in Simple  BY DEF SetPII, Args, Needs, Toggle, Simple
<1>10. SetTrace(l) \in Simple  BY DEF SetTrace, Args, Needs, Toggle, Simple
<1> QED
  BY <1>1, <1>2, <1>3, <1>4, <1>5, <1>6, <1>7, <1>8, <1>9, <1>10

-----------------------------------------------------------------------------
(* The commands behind a feature gate                                      *)

\* A plain command of one request behind gates for all its fields.
LEMMA GatedSends ==
  ASSUME NEW l, PlainLine(l), NEW gs \in Seq(Gates), NEW r,
         r.ok \subseteq Success, r.lost = Unavailable, \A f \in r.fields : Guarded(gs, f)
  PROVE  VerdictFits(l, SendsEach(gs, <<r>>))
<1>1. RequestFits(l, r)  BY DEF PlainLine, RequestFits
<1> QED  BY <1>1, SendsFits

\* One loose gate guards its feature.
LEMMA OneGate ==
  ASSUME NEW f \in LooseFeatures
  PROVE  <<Gate(f)>> \in Seq(Gates) /\ Guarded(<<Gate(f)>>, f)
<1>0. f # "epp"  BY DEF LooseFeatures
<1>1. Gate(f) \in Gates /\ Gate(f).feature = f  BY DEF Gate, Gates
<1> DEFINE g == Gate(f)
<1> HIDE DEF g
<1>2. g \in Gates /\ g.feature = f  BY <1>1 DEF g
<1>3. <<g>> \in Seq(Gates) /\ DOMAIN <<g>> = 1..1 /\ <<g>>[1] = g  BY <1>2
<1>4. Guarded(<<g>>, f)  BY <1>0, <1>2, <1>3 DEF Guarded
<1> QED  BY <1>3, <1>4 DEF g

\* Gates put together guard what each of them guards.
LEMMA JoinedGates ==
  ASSUME NEW a \in Seq(Gates), NEW b \in Seq(Gates)
  PROVE  /\ a \o b \in Seq(Gates)
         /\ \A f : Guarded(a, f) \/ Guarded(b, f) => Guarded(a \o b, f)
<1> DEFINE c == a \o b
<1>1. /\ c \in Seq(Gates) /\ Len(c) = Len(a) + Len(b)
      /\ \A i \in 1..Len(a) : i \in 1..Len(c) /\ c[i] = a[i]
      /\ \A i \in 1..Len(b) : Len(a) + i \in 1..Len(c) /\ c[Len(a) + i] = b[i]
  OBVIOUS
<1>2. DOMAIN a = 1..Len(a) /\ DOMAIN b = 1..Len(b) /\ DOMAIN c = 1..Len(c)  BY <1>1
<1> HIDE DEF c
<1>3. ASSUME NEW f, Guarded(a, f)  PROVE  Guarded(c, f)
  <2>1. PICK j \in DOMAIN a : a[j].feature = f /\ (f = "epp" => a[j].strict)
    BY <1>3 DEF Guarded
  <2>2. j \in DOMAIN c /\ c[j] = a[j]  BY <1>1, <1>2, <2>1
  <2> QED  BY <2>1, <2>2 DEF Guarded
<1>4. ASSUME NEW f, Guarded(b, f)  PROVE  Guarded(c, f)
  <2>1. PICK j \in DOMAIN b : b[j].feature = f /\ (f = "epp" => b[j].strict)
    BY <1>4 DEF Guarded
  <2>2. Len(a) + j \in DOMAIN c /\ c[Len(a) + j] = b[j]  BY <1>1, <1>2, <2>1
  <2> QED  BY <2>1, <2>2 DEF Guarded
<1> QED  BY <1>1, <1>3, <1>4 DEF c

\* INVALID_ARGUMENT fits every line.
LEMMA InvalidFits ==
  ASSUME NEW l
  PROVE  VerdictFits(l, Invalid)
BY CodesExist, RefusalFits DEF Invalid

\* The request parts the gated commands put together.
LEMMA UploadParts ==
  ASSUME NEW l, NEW feature, NEW fs
  PROVE  /\ Operation(l, On(feature, Upload)).fields = {}
         /\ Operation(l, On(feature, Upload)).ok \subseteq Success
         /\ Operation(l, On(feature, Upload)).lost = Unavailable
         /\ Operation(l, On(feature, With(fs, Upload))).fields = fs
         /\ Operation(l, On(feature, With(fs, Upload))).ok \subseteq Success
         /\ Operation(l, On(feature, With(fs, Upload))).lost = Unavailable
         /\ On(feature, Erase).fields = {}
         /\ On(feature, Erase).ok \subseteq Success
         /\ On(feature, Erase).lost = Unavailable
BY DEF Operation, On, With, Upload, Erase, Request, Success

\* The commands that are one feature path.
LEMMA GatedFits ==
  ASSUME NEW l, PlainLine(l)
  PROVE  /\ VerdictFits(l, CreateNetIdentity(l)) /\ VerdictFits(l, CreateObjective(l))
         /\ VerdictFits(l, DeleteJWTAuthProfile(l)) /\ VerdictFits(l, DeleteNetIdentity(l))
         /\ VerdictFits(l, DeleteObjective(l))
<1>1. ASSUME NEW feature \in LooseFeatures
      PROVE  /\ VerdictFits(l, SendsEach(<<Gate(feature)>>, <<Operation(l, On(feature, Upload))>>))
             /\ VerdictFits(l, SendsEach(<<Gate(feature)>>, <<On(feature, Erase)>>))
  BY OneGate, UploadParts, GatedSends
<1> DEFINE creates(feature) == SendsEach(<<Gate(feature)>>, <<Operation(l, On(feature, Upload))>>)
           deletes(feature) == SendsEach(<<Gate(feature)>>, <<On(feature, Erase)>>)
<1>0. /\ VerdictFits(l, creates("netidentity")) /\ VerdictFits(l, creates("objectives"))
      /\ VerdictFits(l, deletes("jwt_auth_profile")) /\ VerdictFits(l, deletes("netidentity"))
      /\ VerdictFits(l, deletes("objectives"))
  <2>1. {"netidentity", "objectives", "jwt_auth_profile"} \subseteq LooseFeatures
    BY DEF LooseFeatures
  <2> QED  BY <1>1, <2>1
<1>2. VerdictFits(l, CreateNetIdentity(l))
  BY <1>0, InvalidFits DEF CreateNetIdentity, Args, Needs
<1>3. VerdictFits(l, CreateObjective(l))
  BY <1>0, InvalidFits DEF CreateObjective, Args
<1>4. VerdictFits(l, DeleteJWTAuthProfile(l))
  BY <1>0, InvalidFits DEF DeleteJWTAuthProfile, Gated, Args
<1>5. VerdictFits(l, DeleteNetIdentity(l))
  BY <1>0, InvalidFits DEF DeleteNetIdentity, Gated, Args
<1>6. VerdictFits(l, DeleteObjective(l))
  BY <1>0, InvalidFits DEF DeleteObjective, Gated, Args
<1> QED  BY <1>2, <1>3, <1>4, <1>5, <1>6

\* A profile with a priority class looks for the objectives too.
LEMMA CreateJWTAuthProfileFits ==
  ASSUME NEW l, PlainLine(l)
  PROVE  VerdictFits(l, CreateJWTAuthProfile(l))
<1> DEFINE path == <<Gate("jwt_auth_profile")>>
           prio == <<Gate("objectives")>>
           plain == Operation(l, On("jwt_auth_profile", With({}, Upload)))
           classed == Operation(l, On("jwt_auth_profile", With({"objectives"}, Upload)))
<1>1. path \in Seq(Gates) /\ prio \in Seq(Gates) /\ Guarded(prio, "objectives")
  <2>1. {"objectives", "jwt_auth_profile"} \subseteq LooseFeatures  BY DEF LooseFeatures
  <2> QED  BY <2>1, OneGate
<1>2. path \o <<>> \in Seq(Gates) /\ path \o prio \in Seq(Gates) /\ Guarded(path \o prio, "objectives")
  BY <1>1, NoGates, JoinedGates
<1>3. /\ plain.fields = {} /\ plain.ok \subseteq Success /\ plain.lost = Unavailable
      /\ classed.fields = {"objectives"} /\ classed.ok \subseteq Success /\ classed.lost = Unavailable
  BY UploadParts
<1> HIDE DEF path, prio, plain, classed
<1>4. /\ VerdictFits(l, SendsEach(path \o <<>>, <<plain>>))
      /\ VerdictFits(l, SendsEach(path \o prio, <<classed>>))
  BY <1>2, <1>3, GatedSends
<1>5. CreateJWTAuthProfile(l) \in {Invalid, SendsEach(path \o <<>>, <<plain>>),
                                   SendsEach(path \o prio, <<classed>>)}
  BY DEF CreateJWTAuthProfile, Args, Needs, path, prio, plain, classed
<1> QED  BY <1>4, <1>5, InvalidFits

\* The set commands with a priority class.
LEMMA PrioritisedFits ==
  ASSUME NEW l, PlainLine(l)
  PROVE  VerdictFits(l, SetAPIKey(l)) /\ VerdictFits(l, SetRateLimit(l))
<1>1. ASSUME NEW method
      PROVE  VerdictFits(l, Prioritised(l, Request(method, {200, 204}, "printed")))
  <2> DEFINE r == Request(method, {200, 204}, "printed")
             classed == With({"objectives"}, r)
  <2>1. /\ classed.fields = {"objectives"} /\ classed.ok \subseteq Success
        /\ classed.lost = Unavailable
    BY DEF With, Request, Success
  <2>2. VerdictFits(l, Sends(r))
    <3>1. {200, 204} \in SUBSET Success  BY DEF Success
    <3> QED  BY <3>1, PlainSends
  <2> HIDE DEF classed
  <2>3. VerdictFits(l, SendsEach(<<Gate("objectives")>>, <<classed>>))
    <3>1. "objectives" \in LooseFeatures  BY DEF LooseFeatures
    <3> QED  BY <2>1, <3>1, OneGate, GatedSends
  <2> QED  BY <2>2, <2>3 DEF Prioritised, classed
<1>2. VerdictFits(l, SetAPIKey(l))  BY <1>1, InvalidFits DEF SetAPIKey, Args
<1>3. VerdictFits(l, SetRateLimit(l))  BY <1>1, InvalidFits DEF SetRateLimit, Needs, Switch
<1> QED  BY <1>2, <1>3

-----------------------------------------------------------------------------
(* The commands of several requests                                        *)

\* One request for each value of a flag.
LEMMA RepeatedFits ==
  ASSUME NEW l, PlainLine(l), NEW n \in Nat, NEW method
  PROVE  VerdictFits(l, SendsEach(<<>>, [i \in 1..n |-> Request(method, {200}, "printed")]))
<1> DEFINE r == Request(method, {200}, "printed")
<1>1. RequestFits(l, r) /\ r.fields = {}
  <2>1. {200} \in SUBSET Success  BY DEF Success
  <2> QED  BY <2>1, PlainRequest
<1> HIDE DEF r
<1> DEFINE p == [i \in 1..n |-> r]
<1>2. /\ Len(p) = n /\ DOMAIN p = 1..n /\ \A i \in 1..n : p[i] = r
      /\ n = 0 => p = <<>>
  OBVIOUS
<1> HIDE DEF p
<1>3. PlanFits(l, <<>>, p)  BY <1>1, <1>2 DEF PlanFits, PlainLine
<1>4. VerdictFits(l, SendsEach(<<>>, p))
  BY <1>3, NoGates, CodesExist DEF VerdictFits, SendsEach
<1> QED  BY <1>4 DEF p, r

\* Whatever order a Go map is read in.
LEMMA AnyOrderFits ==
  ASSUME NEW l, l.cmd \notin FileCommands, NEW gs \in Seq(Gates), NEW reqs,
         IsFiniteSet(DOMAIN reqs),
         \A k \in DOMAIN reqs : /\ RequestFits(l, reqs[k])
                                /\ \A f \in reqs[k].fields : Guarded(gs, f)
  PROVE  VerdictFits(l, SendsInAnyOrder(gs, reqs))
<1> DEFINE D == DOMAIN reqs
           n == Cardinality(D)
<1>1. n \in Nat  BY FS_CardinalityType
<1>2. ASSUME NEW s \in SetToSeqs(D)
      PROVE  PlanFits(l, gs, [i \in DOMAIN s |-> reqs[s[i]]])
  <2>1. s \in [1..n -> D]  BY <1>2 DEF SetToSeqs
  <2> HIDE DEF n
  <2> DEFINE p == [i \in DOMAIN s |-> reqs[s[i]]]
  <2>2. DOMAIN p = 1..n /\ \A i \in 1..n : s[i] \in D /\ p[i] = reqs[s[i]]  BY <2>1
  <2>3. Len(p) = n /\ (n = 0 => p = <<>>)  BY <1>1, <2>1
  <2> HIDE DEF p
  <2>4. PlanFits(l, gs, p)  BY <1>1, <2>2, <2>3 DEF PlanFits
  <2> QED  BY <2>4 DEF p
<1> HIDE DEF D
<1> DEFINE v == SendsInAnyOrder(gs, reqs)
<1>3. /\ v.code = OK /\ v.gates = gs
      /\ v.plans = {[i \in DOMAIN s |-> reqs[s[i]]] : s \in SetToSeqs(D)}
  BY DEF SendsInAnyOrder, D
<1>4. \A p \in v.plans : PlanFits(l, gs, p)
  <2> HIDE DEF v
  <2> QED  BY <1>2, <1>3
<1> HIDE DEF v
<1>5. VerdictFits(l, v)
  BY <1>3, <1>4, CodesExist DEF VerdictFits
<1> QED  BY <1>5 DEF v

\* delete lb: one request per protocol, some of them never parsed.
LEMMA DeleteLoadBalancerFits ==
  ASSUME NEW l, PlainLine(l)
  PROVE  VerdictFits(l, DeleteLoadBalancer(l))
<1> DEFINE D == {"tcp", "udp", "sctp", "icmp"} \cap l.given
           reqs == [p \in D |-> IF p \in l.bad THEN Unparsed ELSE Delete]
<1>1. IsFiniteSet(D)
  <2>1. IsFiniteSet({"tcp", "udp", "sctp", "icmp"})
    <3>1. IsFiniteSet({"tcp"} \cup {"udp"})  BY FS_Singleton, FS_AddElement
    <3>2. IsFiniteSet({"tcp", "udp"} \cup {"sctp"})
      <4>1. {"tcp", "udp"} = {"tcp"} \cup {"udp"}  OBVIOUS
      <4> QED  BY <3>1, <4>1, FS_AddElement
    <3>3. IsFiniteSet({"tcp", "udp", "sctp"} \cup {"icmp"})
      <4>1. {"tcp", "udp", "sctp"} = {"tcp", "udp"} \cup {"sctp"}  OBVIOUS
      <4> QED  BY <3>2, <4>1, FS_AddElement
    <3>4. {"tcp", "udp", "sctp", "icmp"} = {"tcp", "udp", "sctp"} \cup {"icmp"}  OBVIOUS
    <3> QED  BY <3>3, <3>4
  <2> QED  BY <2>1, FS_Subset
<1>2. /\ RequestFits(l, Unparsed) /\ Unparsed.fields = {}
      /\ RequestFits(l, Delete) /\ Delete.fields = {}
  <2>1. {} \in SUBSET Success /\ {200} \in SUBSET Success  BY DEF Success
  <2> QED  BY <2>1, PlainRequest DEF Unparsed, Delete
<1>3. DOMAIN reqs = D /\ \A k \in D : reqs[k] \in {Unparsed, Delete}  OBVIOUS
<1>4. l.cmd \notin FileCommands  BY DEF PlainLine
<1>5. VerdictFits(l, SendsInAnyOrder(<<>>, reqs))
  <2> HIDE DEF D, reqs
  <2> QED  BY <1>1, <1>2, <1>3, <1>4, NoGates, AnyOrderFits
<1>6. VerdictFits(l, Sends(Delete))
  <2>1. Sends(Delete) \in Simple  BY DEF Simple
  <2> QED  BY <2>1, SimpleFits
<1> QED  BY <1>5, <1>6, InvalidFits DEF DeleteLoadBalancer

\* create lb: a gate for every feature whose fields the request carries.
LEMMA NeededGates ==
  ASSUME NEW o, NEW g \in Gates, g.feature = "epp" => g.strict
  PROVE  /\ Needed(o, g) \in Seq(Gates)
         /\ g.feature \in LbFeatures(o) => Guarded(Needed(o, g), g.feature)
<1>1. Needed(o, g) \in {<<>>, <<g>>} /\ (g.feature \in LbFeatures(o) => Needed(o, g) = <<g>>)
  BY DEF Needed
<1>2. <<g>> \in Seq(Gates) /\ DOMAIN <<g>> = 1..1 /\ <<g>>[1] = g  OBVIOUS
<1>3. Guarded(<<g>>, g.feature)  BY <1>2 DEF Guarded
<1> QED  BY <1>1, <1>2, <1>3, NoGates

\* All the gates of create lb.
LEMMA RequiredGates ==
  ASSUME NEW o
  PROVE  /\ requireLBFeatures(o) \in Seq(Gates)
         /\ \A f \in LbFeatures(o) : Guarded(requireLBFeatures(o), f)
<1> DEFINE b == Gate("bands")
           r == Gate("reservation")
           j == Gate("objectives")
           e == Advertised("epp")
<1>1. /\ b \in Gates /\ r \in Gates /\ j \in Gates /\ e \in Gates
      /\ b.feature = "bands" /\ r.feature = "reservation" /\ j.feature = "objectives"
      /\ e.feature = "epp" /\ e.strict
  BY DEF Gate, Advertised, Gates, LooseFeatures
<1> HIDE DEF b, r, j, e
<1>2. /\ Needed(o, b) \in Seq(Gates) /\ Needed(o, r) \in Seq(Gates)
      /\ Needed(o, j) \in Seq(Gates) /\ Needed(o, e) \in Seq(Gates)
      /\ "bands" \in LbFeatures(o) => Guarded(Needed(o, b), "bands")
      /\ "reservation" \in LbFeatures(o) => Guarded(Needed(o, r), "reservation")
      /\ "objectives" \in LbFeatures(o) => Guarded(Needed(o, j), "objectives")
      /\ "epp" \in LbFeatures(o) => Guarded(Needed(o, e), "epp")
  BY <1>1, NeededGates
<1> DEFINE two == Needed(o, b) \o Needed(o, r)
           three == two \o Needed(o, j)
           four == three \o Needed(o, e)
<1>3. /\ two \in Seq(Gates)
      /\ \A f : Guarded(Needed(o, b), f) \/ Guarded(Needed(o, r), f) => Guarded(two, f)
  BY <1>2, JoinedGates
<1> HIDE DEF two
<1>4. three \in Seq(Gates) /\ \A f : Guarded(two, f) \/ Guarded(Needed(o, j), f) => Guarded(three, f)
  BY <1>2, <1>3, JoinedGates
<1> HIDE DEF three
<1>5. four \in Seq(Gates) /\ \A f : Guarded(three, f) \/ Guarded(Needed(o, e), f) => Guarded(four, f)
  BY <1>2, <1>4, JoinedGates
<1> HIDE DEF four
<1>6. LbFeatures(o) \subseteq {"bands", "reservation", "objectives", "epp"}  BY DEF LbFeatures
<1>7. \A f \in LbFeatures(o) : Guarded(four, f)  BY <1>2, <1>3, <1>4, <1>5, <1>6
<1>8. requireLBFeatures(o) = four
  BY DEF requireLBFeatures, four, three, two, b, r, j, e
<1> QED  BY <1>5, <1>7, <1>8

\* A line that is refused after its gates.
LEMMA GatedRefusalFits ==
  ASSUME NEW l, NEW gs \in Seq(Gates), NEW code \in Taxonomy
  PROVE  VerdictFits(l, [Refused(code) EXCEPT !.gates = gs])
<1> DEFINE v == [Refused(code) EXCEPT !.gates = gs]
<1>1. v.code = code /\ v.gates = gs /\ v.plans = {}  BY DEF Refused
<1> HIDE DEF v
<1>2. VerdictFits(l, v)  BY <1>1 DEF VerdictFits
<1> QED  BY <1>2 DEF v

\* create lb: one request per protocol behind its gates.
LEMMA CreateLoadBalancerFits ==
  ASSUME NEW l, l.cmd = "create lb", IsFiniteSet(DOMAIN l.lb.ports)
  PROVE  VerdictFits(l, CreateLoadBalancer(l))
<1> DEFINE gs == requireLBFeatures(l.lb)
           one == LbRequest(l.lb)
           reqs == [p \in DOMAIN l.lb.ports |->
                      IF PortsFit(l.lb, l.lb.ports[p]) THEN one ELSE Unparsed]
<1>1. gs \in Seq(Gates) /\ \A f \in LbFeatures(l.lb) : Guarded(gs, f)  BY RequiredGates
<1>2. one.fields = LbFeatures(l.lb) /\ RequestFits(l, one)
  BY DEF LbRequest, With, Post, Request, RequestFits, FileCommands, Success,
         OK, Unavailable, Failed
<1>3. Unparsed.fields = {} /\ RequestFits(l, Unparsed)
  BY DEF Unparsed, Request, RequestFits, FileCommands, Success, OK, Unavailable, Failed
<1> HIDE DEF one
<1>4. DOMAIN reqs = DOMAIN l.lb.ports /\ \A k \in DOMAIN reqs : reqs[k] \in {one, Unparsed}
  OBVIOUS
<1>5. VerdictFits(l, SendsInAnyOrder(gs, reqs))
  <2>1. l.cmd \notin FileCommands  BY DEF FileCommands
  <2> HIDE DEF gs, reqs
  <2> QED  BY <1>1, <1>2, <1>3, <1>4, <2>1, AnyOrderFits
<1>6. CreateLoadBalancer(l)
        \in {Invalid, [Invalid EXCEPT !.gates = gs], SendsInAnyOrder(gs, reqs)}
  BY DEF CreateLoadBalancer, one
<1> HIDE DEF gs, reqs
<1>7. VerdictFits(l, [Invalid EXCEPT !.gates = gs])
  BY <1>1, CodesExist, GatedRefusalFits DEF Invalid
<1> QED  BY <1>5, <1>6, <1>7, InvalidFits

-----------------------------------------------------------------------------
(* API keys and configuration files                                        *)

\* A key creation, behind its gate when it has a priority class.
LEMMA CreateAPIKeyFits ==
  ASSUME NEW l, l.cmd = "create apikey"
  PROVE  VerdictFits(l, CreateAPIKey(l))
<1> DEFINE key(fs) == [With(fs, Upload) EXCEPT !.reads = "decoded"]
           prio == <<Gate("objectives")>>
<1>1. ASSUME NEW fs
      PROVE  key(fs).fields = fs /\ RequestFits(l, key(fs))
  <2>1. key(fs).fields = fs /\ key(fs).ok = {200, 201} /\ key(fs).lost = Unavailable
    BY DEF With, Upload, Request
  <2> HIDE DEF key
  <2>2. {200, 201} \subseteq Success  BY DEF Success
  <2> QED  BY <2>1, <2>2 DEF RequestFits, OK, Unavailable, Failed
<1>2. prio \in Seq(Gates) /\ Guarded(prio, "objectives")
  <2>1. "objectives" \in LooseFeatures  BY DEF LooseFeatures
  <2> QED  BY <2>1, OneGate
<1>3. key({}).fields = {} /\ RequestFits(l, key({}))  BY <1>1
<1>4. key({"objectives"}).fields = {"objectives"} /\ RequestFits(l, key({"objectives"}))  BY <1>1
<1> HIDE DEF key, prio
<1>5. VerdictFits(l, SendsEach(<<>>, <<key({})>>))  BY <1>3, NoGates, SendsFits
<1>6. VerdictFits(l, SendsEach(prio, <<key({"objectives"})>>))  BY <1>2, <1>4, SendsFits
<1> DEFINE code == ImportVerdict(l)
<1>7. code \in Taxonomy  BY CodesExist DEF ImportVerdict
<1> HIDE DEF code
<1>8. /\ VerdictFits(l, [Refused(code) EXCEPT !.gates = <<>>])
      /\ VerdictFits(l, [Refused(code) EXCEPT !.gates = prio])
  BY <1>2, <1>7, NoGates, GatedRefusalFits
<1>9. CASE "--priority-class" \in l.given
  <2>1. \/ CreateAPIKey(l) = Invalid
        \/ CreateAPIKey(l) = [Refused(code) EXCEPT !.gates = prio]
        \/ CreateAPIKey(l) = SendsEach(prio, <<key({"objectives"})>>)
    BY <1>9, Zenon DEF CreateAPIKey, code, prio, key
  <2> QED  BY <1>6, <1>8, <2>1, InvalidFits
<1>10. CASE "--priority-class" \notin l.given
  <2>1. \/ CreateAPIKey(l) = Invalid
        \/ CreateAPIKey(l) = [Refused(code) EXCEPT !.gates = <<>>]
        \/ CreateAPIKey(l) = SendsEach(<<>>, <<key({})>>)
    BY <1>10, Zenon DEF CreateAPIKey, code, prio, key
  <2> QED  BY <1>5, <1>8, <2>1, InvalidFits
<1> QED  BY <1>9, <1>10

\* The file commands send at most one request.
LEMMA FileFits ==
  ASSUME NEW l, l.cmd \in FileCommands
  PROVE  VerdictFits(l, ApplyFileConfig(l)) /\ VerdictFits(l, DeleteFileConfig(l))
<1>1. ASSUME NEW method
      PROVE  /\ VerdictFits(l, Sends(FileRequest(method)))
             /\ VerdictFits(l, Sends([FileRequest(method) EXCEPT !.lost = OK]))
  <2> DEFINE r == FileRequest(method)
             q == [FileRequest(method) EXCEPT !.lost = OK]
  <2>1. r.fields = {} /\ r.lost = Failed /\ q.fields = {} /\ q.lost = OK
    BY DEF FileRequest, Request
  <2> HIDE DEF r, q
  <2>2. RequestFits(l, r) /\ RequestFits(l, q)
    BY <2>1 DEF RequestFits, FileCommands
  <2>3. VerdictFits(l, SendsEach(<<>>, <<r>>)) /\ VerdictFits(l, SendsEach(<<>>, <<q>>))
    BY <2>1, <2>2, NoGates, SendsFits
  <2> QED  BY <2>3 DEF Sends, r, q
<1>2. VerdictFits(l, Refused(Failed))  BY CodesExist, RefusalFits
<1>3. VerdictFits(l, SendsEach(<<>>, <<>>))
  <2> DEFINE p == <<>>
  <2>1. Len(p) = 0 /\ DOMAIN p = 1..0 /\ p = <<>>  OBVIOUS
  <2>2. PlanFits(l, <<>>, p)
    <3> HIDE DEF p
    <3> QED  BY <2>1 DEF PlanFits
  <2> QED  BY <2>2, NoGates, CodesExist DEF VerdictFits, SendsEach
<1>4. /\ VerdictFits(l, CreatesSpec(l)) /\ VerdictFits(l, DeletesSpec(l))
      /\ VerdictFits(l, DropsAnyError(l))
  BY <1>1, <1>2 DEF CreatesSpec, DeletesSpec, DropsAnyError, FromFile
<1>5. VerdictFits(l, ApplyFileConfig(l))
  BY <1>2, <1>4 DEF ApplyFileConfig, SessionCreateWithFile
<1>6. VerdictFits(l, DeleteFileConfig(l))
  BY <1>2, <1>3, <1>4 DEF DeleteFileConfig, LoadBalancerDeleteWithFile, BFDDeleteWithFile
<1> QED  BY <1>5, <1>6

-----------------------------------------------------------------------------
(* Every command                                                           *)

\* The two sessionulcl commands.
LEMMA UlClFits ==
  ASSUME NEW l, PlainLine(l), l.items \in Nat
  PROVE  VerdictFits(l, CreateSessionUlCl(l)) /\ VerdictFits(l, DeleteSessionUlCl(l))
<1>1. /\ VerdictFits(l, SendsEach(<<>>, [i \in 1..l.items |-> Post]))
      /\ VerdictFits(l, SendsEach(<<>>, [i \in 1..l.items |-> Delete]))
  BY RepeatedFits DEF Post, Delete
<1> DEFINE creates == SendsEach(<<>>, [i \in 1..l.items |-> Post])
           deletes == SendsEach(<<>>, [i \in 1..l.items |-> Delete])
<1>2. CreateSessionUlCl(l) \in {Invalid, creates} /\ DeleteSessionUlCl(l) \in {Invalid, deletes}
  BY DEF CreateSessionUlCl, DeleteSessionUlCl, Args
<1>3. VerdictFits(l, creates) /\ VerdictFits(l, deletes)  BY <1>1
<1> HIDE DEF creates, deletes
<1> QED  BY <1>2, <1>3, InvalidFits

\* Every create command.
LEMMA CreateCmdFits ==
  ASSUME NEW l, l.items \in Nat, IsFiniteSet(DOMAIN l.lb.ports)
  PROVE  VerdictFits(l, CreateCmd(l))
<1>1. CASE l.cmd \in FileCommands
  <2>1. CreateCmd(l) = Invalid  BY <1>1 DEF CreateCmd, FileCommands
  <2> QED  BY <2>1, InvalidFits
<1>2. CASE l.cmd = "create lb"
  <2>1. CreateCmd(l) = CreateLoadBalancer(l)  BY <1>2 DEF CreateCmd
  <2> QED  BY <1>2, <2>1, CreateLoadBalancerFits
<1>3. CASE l.cmd = "create apikey"
  <2>1. CreateCmd(l) = CreateAPIKey(l)  BY <1>3 DEF CreateCmd
  <2> QED  BY <1>3, <2>1, CreateAPIKeyFits
<1>4. CASE PlainLine(l)
  <2>1. l.cmd \notin {"create lb", "create apikey"}  BY <1>4 DEF PlainLine
  <2>2. \/ CreateCmd(l) \in Simple
        \/ CreateCmd(l) \in {CreateSessionUlCl(l), CreateObjective(l), CreateNetIdentity(l),
                             CreateJWTAuthProfile(l)}
    <3>1. Invalid \in Simple  BY DEF Simple
    <3> QED  BY <2>1, <3>1, SimpleCreate DEF CreateCmd
  <2> QED  BY <1>4, <2>2, SimpleFits, UlClFits, GatedFits, CreateJWTAuthProfileFits
<1> QED  BY <1>1, <1>2, <1>3, <1>4 DEF PlainLine

\* Every delete command.
LEMMA DeleteCmdFits ==
  ASSUME NEW l, l.items \in Nat
  PROVE  VerdictFits(l, DeleteCmd(l))
<1>1. CASE l.cmd = "delete -f"
  <2>1. DeleteCmd(l) = DeleteFileConfig(l)  BY <1>1 DEF DeleteCmd
  <2>2. l.cmd \in FileCommands  BY <1>1 DEF FileCommands
  <2> QED  BY <2>1, <2>2, FileFits
<1>2. CASE l.cmd \in {"apply -f", "create lb", "create apikey"}
  <2>1. DeleteCmd(l) = Invalid  BY <1>2 DEF DeleteCmd
  <2> QED  BY <2>1, InvalidFits
<1>3. CASE PlainLine(l)
  <2>1. l.cmd # "delete -f"  BY <1>3 DEF PlainLine, FileCommands
  <2>2. \/ DeleteCmd(l) \in Simple
        \/ DeleteCmd(l) \in {DeleteSessionUlCl(l), DeleteObjective(l), DeleteNetIdentity(l),
                             DeleteJWTAuthProfile(l), DeleteLoadBalancer(l)}
    <3>1. Invalid \in Simple  BY DEF Simple
    <3> QED  BY <2>1, <3>1, SimpleDelete DEF DeleteCmd
  <2> QED  BY <1>3, <2>2, SimpleFits, UlClFits, GatedFits, DeleteLoadBalancerFits
<1> QED  BY <1>1, <1>2, <1>3 DEF PlainLine, FileCommands

\* Every set command.
LEMMA SetParamCmdFits ==
  ASSUME NEW l
  PROVE  VerdictFits(l, SetParamCmd(l))
<1>1. CASE ~PlainLine(l)
  <2>1. l.cmd \in {"apply -f", "delete -f", "create lb", "create apikey"}
    BY <1>1 DEF PlainLine, FileCommands
  <2>2. SetParamCmd(l) = Invalid  BY <2>1 DEF SetParamCmd
  <2> QED  BY <2>2, InvalidFits
<1>2. CASE PlainLine(l)
  <2>1. \/ SetParamCmd(l) \in Simple
        \/ SetParamCmd(l) \in {SetAPIKey(l), SetRateLimit(l)}
    <3>1. Invalid \in Simple  BY DEF Simple
    <3> QED  BY <3>1, SimpleSet DEF SetParamCmd
  <2> QED  BY <1>2, <2>1, SimpleFits, PrioritisedFits
<1> QED  BY <1>1, <1>2

\* Every command line: what it sends, behind which gates and with which codes.
THEOREM EveryVerdictFits == \A l \in Lines : VerdictFits(l, Verdict(l))
<1> SUFFICES ASSUME NEW l \in Lines
             PROVE  VerdictFits(l, Verdict(l))
  OBVIOUS
<1>1. /\ l.verb \notin {"create", "delete", "set"} => l.cmd = "apply -f"
      /\ l.items \in Nat /\ IsFiniteSet(DOMAIN l.lb.ports)
  BY LinesAssumption
<1>2. CASE l.verb = "create"
  <2>1. Verdict(l) = CreateCmd(l)  BY <1>2 DEF Verdict
  <2> QED  BY <1>1, <2>1, CreateCmdFits
<1>3. CASE l.verb = "delete"
  <2>1. Verdict(l) = DeleteCmd(l)  BY <1>3 DEF Verdict
  <2> QED  BY <1>1, <2>1, DeleteCmdFits
<1>4. CASE l.verb = "set"
  <2>1. Verdict(l) = SetParamCmd(l)  BY <1>4 DEF Verdict
  <2> QED  BY <2>1, SetParamCmdFits
<1>5. CASE l.verb \notin {"create", "delete", "set"}
  <2>1. Verdict(l) = ApplyFileConfig(l)  BY <1>5 DEF Verdict
  <2>2. l.cmd \in FileCommands  BY <1>1, <1>5 DEF FileCommands
  <2> QED  BY <2>1, <2>2, FileFits
<1> QED  BY <1>2, <1>3, <1>4, <1>5

-----------------------------------------------------------------------------
(* The invariant                                                           *)

\* What CommandInv says of the plan in hand.
LEMMA PlanFacts ==
  ASSUME CommandInv
  PROVE  /\ Len(plan) \in Nat /\ DOMAIN plan = 1..Len(plan)
         /\ line.cmd \in FileCommands => Len(plan) <= 1
         /\ \A i \in DOMAIN plan : /\ RequestFits(line, plan[i])
                                   /\ \A f \in plan[i].fields : Carries(line, f)
<1>1. line \in Lines  BY DEF CommandInv, TypeOK
<1>2. VerdictFits(line, Verdict(line))  BY <1>1, EveryVerdictFits
<1>3. CASE plan = <<>>
  <2>1. Len(plan) = 0 /\ DOMAIN plan = 1..0  BY <1>3
  <2> QED  BY <2>1
<1>4. CASE plan # <<>>
  <2>1. plan \in Verdict(line).plans  BY <1>4 DEF CommandInv, PlanInv
  <2>2. PlanFits(line, Verdict(line).gates, plan)  BY <1>2, <2>1 DEF VerdictFits
  <2>3. \A i \in DOMAIN plan : \A f \in plan[i].fields : Carries(line, f)
    BY <2>1 DEF Carries
  <2> QED  BY <2>2, <2>3 DEF PlanFits
<1> QED  BY <1>3, <1>4

\* Only an answer that says so means that nothing was changed.
LEMMA AnswerCodes ==
  ASSUME NEW r, NEW status \in Refusals \cup Unclear
  PROVE  /\ ClassifyAnswer(r, status) \in Taxonomy \ {OK}
         /\ status \in Unclear => ClassifyAnswer(r, status) \notin NoChange
BY DEF ClassifyAnswer, PathNotFound, FromHTTPStatus, Refusals, Unclear, NoChange, Taxonomy,
       OK, InvalidArgument, Auth, Precondition, Unavailable, ContractMismatch, Failed, Partial,
       FeatureUnavailable

\* A failed /version request is never reported as success.
LEMMA ReadFailureCodes == ReadFailures \subseteq Taxonomy \ {OK}
BY DEF ReadFailures, FromHTTPStatus, Taxonomy,
       OK, InvalidArgument, Auth, Precondition, Unavailable, ContractMismatch, Failed, Partial,
       FeatureUnavailable

\* What applying a request does to the stored numbers.
LEMMA ApplyEffect ==
  ASSUME CommandInv, line' = line, NEW of, NEW i, NEW r, RequestFits(line, r), r.method # "none",
         Apply(of, i, r)
  PROVE  /\ DOMAIN stored' = DOMAIN stored
         /\ line.cmd = "create lb" => Kept(stored') /\ Given(stored')
<1>1. PICK keeps \in BOOLEAN : stored' = StoredAfter(r, keeps)  BY DEF Apply
<1>2. /\ DOMAIN stored' = DOMAIN stored
      /\ \A f \in DOMAIN stored : f \in DOMAIN r.nums => stored'[f] = r.nums[f]
      /\ \A f \in DOMAIN stored : f \notin DOMAIN r.nums /\ f \in SentWhenGiven => stored'[f] = stored[f]
  BY <1>1 DEF StoredAfter
<1>3. ASSUME line.cmd = "create lb"  PROVE  Kept(stored') /\ Given(stored')
  <2>1. r.nums = applyAIServiceOptions(line.lb)  BY <1>3 DEF RequestFits
  <2>2. DOMAIN r.nums = Sent(line.lb) /\ \A f \in DOMAIN r.nums : r.nums[f] = line.lb.num[f]
    BY <2>1 DEF applyAIServiceOptions
  <2>3. Sent(line.lb) \subseteq DOMAIN line.lb.num  BY DEF Sent
  <2>4. Kept(stored)  BY <1>3 DEF CommandInv, NumInv
  <2>5. Kept(stored')  BY <1>2, <2>2, <2>3, <2>4 DEF Kept
  <2>6. Given(stored')  BY <1>2, <2>2 DEF Given
  <2> QED  BY <2>5, <2>6
<1> QED  BY <1>2, <1>3

\* Before the gates: every carried field has its gate.
LEMMA CarriedIsGuarded ==
  ASSUME line \in Lines
  PROVE  /\ Verdict(line).gates \in Seq(Gates) /\ Verdict(line).code \in Taxonomy
         /\ \A f : Carries(line, f) => Guarded(Verdict(line).gates, f)
<1>1. VerdictFits(line, Verdict(line))  BY EveryVerdictFits
<1>2. ASSUME NEW f, Carries(line, f)  PROVE  Guarded(Verdict(line).gates, f)
  <2>1. PICK p \in Verdict(line).plans : \E i \in DOMAIN p : f \in p[i].fields
    BY <1>2 DEF Carries
  <2>2. PlanFits(line, Verdict(line).gates, p)  BY <1>1 DEF VerdictFits
  <2> QED  BY <2>1, <2>2 DEF PlanFits
<1> QED  BY <1>1, <1>2 DEF VerdictFits

\* The invariant holds when the command starts.
LEMMA CommandInit == Init => CommandInv
<1> SUFFICES ASSUME Init  PROVE  CommandInv
  OBVIOUS
<1> USE DEF Init
<1>0. line \in Lines /\ Len(plan) = 0 /\ DOMAIN plan = {} /\ 1..0 = {}  OBVIOUS
<1>1. TypeOK
  <2>1. replaced \in BOOLEAN /\ Busy /\ exit = Running  BY DEF Busy
  <2>2. (exit = Running) = Busy  BY <2>1, Zenon
  <2>3. /\ attempt \in 1..MaxAttempts /\ next \in 1..Len(plan) + 1 /\ changed \subseteq DOMAIN plan
        /\ DOMAIN stored = DOMAIN StoredFields /\ peer \in Builds /\ late = {} /\ pc = "gate"
    BY <1>0, MaxAttemptsAssumption
  <2> QED  BY <1>0, <2>1, <2>2, <2>3 DEF TypeOK
<1>2. PlanInv /\ LateInv  BY DEF PlanInv, LateInv
<1>3. HarmlessInv  BY <1>0 DEF HarmlessInv
<1>4. EarnedInv  BY <1>0 DEF EarnedInv, SuccessIsEarned
<1>5. NumInv  BY DEF NumInv, Kept
<1>6. GateInv  BY <1>0, CarriedIsGuarded DEF GateInv, DroppedFieldWasWarned
<1> QED  BY <1>1, <1>2, <1>3, <1>4, <1>5, <1>6 DEF CommandInv

\* The operator runs the line again: only the late requests are left.
LEMMA AgainKeeps ==
  ASSUME CommandInv, Again
  PROVE  CommandInv'
<1>1. /\ line' = line /\ peer' = peer /\ late' = late /\ stored' = stored
      /\ attempt' = attempt + 1 /\ attempt < MaxAttempts /\ pc' = "gate"
      /\ gates' = Verdict(line).gates /\ version' = Unread /\ plan' = <<>> /\ next' = 1
      /\ exit' = Running /\ warned' = {} /\ replaced' = FALSE /\ changed' = {} /\ dropped' = {}
  BY DEF Again
<1>2. line \in Lines /\ attempt \in 1..MaxAttempts /\ peer \in Builds
      /\ DOMAIN stored = DOMAIN StoredFields
  BY DEF CommandInv, TypeOK
<1>3. \A m \in late : m.attempt \in 1..attempt /\ m.request.method # "none" /\ RequestFits(line, m.request)
  BY DEF CommandInv, LateInv
<1>4. attempt' \in 1..MaxAttempts /\ \A m \in late : m.attempt \in 1..attempt' /\ m.attempt # attempt'
  BY <1>1, <1>2, <1>3, MaxAttemptsAssumption
<1>5. Len(plan') = 0 /\ DOMAIN plan' = {} /\ 1..0 = {}  BY <1>1
<1>6. TypeOK'
  <2>1. replaced' \in BOOLEAN /\ Busy' /\ exit' = Running  BY <1>1 DEF Busy
  <2>2. (exit' = Running) = Busy'  BY <2>1, Zenon
  <2>3. /\ next' \in 1..Len(plan') + 1 /\ changed' \subseteq DOMAIN plan'
        /\ \A m \in late' : m.attempt <= attempt'
    BY <1>1, <1>2, <1>3, <1>4, <1>5
  <2>4. /\ line' \in Lines /\ peer' \in Builds /\ pc' \in {"gate", "send", "wait", "done"}
        /\ DOMAIN stored' = DOMAIN StoredFields
    BY <1>1, <1>2
  <2> QED  BY <1>4, <2>1, <2>2, <2>3, <2>4 DEF TypeOK
<1>7. PlanInv' /\ LateInv'  BY <1>1, <1>3, <1>4 DEF PlanInv, LateInv
<1>8. HarmlessInv'  BY <1>1, <1>4 DEF HarmlessInv
<1>9. EarnedInv'  BY <1>1, <1>5 DEF EarnedInv, SuccessIsEarned
<1>10. NumInv'
  BY <1>1 DEF CommandInv, NumInv, Kept, Given
<1>11. GateInv'
  <2>1. Verdict(line').gates \in Seq(Gates) /\ \A f : Carries(line', f) => Guarded(Verdict(line').gates, f)
    BY <1>1, <1>2, CarriedIsGuarded
  <2> QED  BY <1>1, <2>1 DEF GateInv, DroppedFieldWasWarned
<1> QED  BY <1>6, <1>7, <1>8, <1>9, <1>10, <1>11 DEF CommandInv

\* The steps before a request is sent leave the gateway alone.
LEMMA GatewayKept ==
  ASSUME CommandInv, UNCHANGED <<line, gateway>>
  PROVE  NumInv'
BY DEF CommandInv, NumInv, Kept, Given, gateway

\* A command that ends at its gates.
LEMMA GateEnds ==
  ASSUME CommandInv, NEW code \in Taxonomy \ {OK}, pc = "gate", pc' = "done", exit' = code,
         UNCHANGED <<line, attempt, gates, version, plan, next, warned, gateway>>
  PROVE  CommandInv'
<1>1. /\ pc = "gate" /\ pc' = "done" /\ exit' = code
      /\ UNCHANGED <<line, attempt, gates, version, plan, next, warned, gateway>>
      /\ UNCHANGED <<peer, replaced, changed, dropped, late, stored>>
  BY DEF gateway
<1>2. code \in Taxonomy /\ code # OK /\ code # Running  BY CodesExist
<1>3. TypeOK'  BY <1>1, <1>2 DEF CommandInv, TypeOK, Busy
<1>4. PlanInv' /\ LateInv'  BY <1>1 DEF CommandInv, PlanInv, LateInv, Current
<1>5. HarmlessInv'  BY <1>1 DEF CommandInv, HarmlessInv
<1>6. EarnedInv'  BY <1>1, <1>2 DEF EarnedInv, SuccessIsEarned
<1>7. GateInv'  BY <1>1 DEF CommandInv, GateInv, DroppedFieldWasWarned
<1> QED  BY <1>1, <1>3, <1>4, <1>5, <1>6, <1>7, GatewayKept DEF CommandInv

\* /version is read and cached.
LEMMA ReadVersionKeeps ==
  ASSUME CommandInv, ReadVersion
  PROVE  CommandInv'
<1>1. /\ pc = "gate" /\ version = Unread /\ version'.tokens = peer.tokens
      /\ UNCHANGED <<line, attempt, pc, gates, plan, next, exit, warned, gateway>>
      /\ UNCHANGED <<peer, replaced, changed, dropped, late, stored>>
  BY DEF ReadVersion, gateway
<1>2. TypeOK'  BY <1>1 DEF CommandInv, TypeOK, Busy
<1>3. PlanInv' /\ LateInv'  BY <1>1 DEF CommandInv, PlanInv, LateInv, Current
<1>4. HarmlessInv' /\ EarnedInv'
  BY <1>1 DEF CommandInv, HarmlessInv, EarnedInv, SuccessIsEarned
<1>5. GateInv'  BY <1>1 DEF CommandInv, GateInv, DroppedFieldWasWarned
<1> QED  BY <1>1, <1>2, <1>3, <1>4, <1>5, GatewayKept DEF CommandInv

\* /version cannot be read.
LEMMA ReadFailsKeeps ==
  ASSUME CommandInv, NEW code \in ReadFailures, ReadFails(code)
  PROVE  CommandInv'
BY ReadFailureCodes, GateEnds DEF ReadFails, End

\* A gate is passed, warned about or refuses.
LEMMA PassGateKeeps ==
  ASSUME CommandInv, PassGate
  PROVE  CommandInv'
<1>1. /\ pc = "gate" /\ gates # <<>> /\ version # Unread
      /\ UNCHANGED <<line, attempt, version, plan, next, gateway>>
  BY DEF PassGate
<1>2. FeatureUnavailable \in Taxonomy \ {OK}  BY CodesExist DEF FeatureUnavailable, OK
<1> DEFINE g == Head(gates)
<1>3. gates \in Seq(Gates) /\ g = gates[1] /\ g \in Gates  BY <1>1 DEF CommandInv, GateInv
<1>4. \/ pc' = "done" /\ exit' = FeatureUnavailable /\ UNCHANGED <<gates, warned>>
      \/ /\ gates' = Tail(gates) /\ UNCHANGED <<pc, exit, warned>>
         /\ g.feature \in version.tokens
      \/ /\ gates' = Tail(gates) /\ UNCHANGED <<pc, exit>> /\ ~g.strict
         /\ warned' = IF g.feature \in version.tokens THEN warned ELSE warned \cup {g.feature}
  BY DEF PassGate, End, RequireAdvertised, Require
<1> HIDE DEF g
<1>5. CASE pc' = "done" /\ exit' = FeatureUnavailable /\ UNCHANGED <<gates, warned>>
  BY <1>1, <1>2, <1>5, GateEnds
<1>6. CASE /\ gates' = Tail(gates) /\ UNCHANGED <<pc, exit>> /\ warned \subseteq warned'
           /\ \/ g.feature \in version.tokens
              \/ g.feature \in warned' /\ ~g.strict
  <2>1. /\ UNCHANGED <<line, attempt, pc, exit, version, plan, next>>
        /\ UNCHANGED <<peer, replaced, changed, dropped, late, stored>>
    BY <1>1, <1>6 DEF gateway
  <2>2. TypeOK'  BY <2>1 DEF CommandInv, TypeOK, Busy
  <2>3. PlanInv' /\ LateInv'  BY <1>1, <2>1 DEF CommandInv, PlanInv, LateInv, Current
  <2>4. HarmlessInv' /\ EarnedInv'
    BY <2>1 DEF CommandInv, HarmlessInv, EarnedInv, SuccessIsEarned
  <2>5. ASSUME NEW f, Carries(line, f)
        PROVE  \/ Guarded(gates', f)
               \/ version # Unread /\ f \in version.tokens
               \/ f \in warned' /\ f # "epp"
    <3>1. CASE Guarded(gates, f)
      <4>1. PICK j \in DOMAIN gates : gates[j].feature = f /\ (f = "epp" => gates[j].strict)
        BY <3>1 DEF Guarded
      <4>2. CASE j = 1
        <5>1. g.feature = f /\ (f = "epp" => g.strict)  BY <1>3, <4>1, <4>2
        <5> QED  BY <1>1, <1>6, <5>1
      <4>3. CASE j # 1
        <5>1. /\ Tail(gates) \in Seq(Gates) /\ j - 1 \in DOMAIN Tail(gates)
              /\ Tail(gates)[j - 1] = gates[j]
          BY <1>1, <1>3, <4>1, <4>3
        <5> QED  BY <1>6, <4>1, <5>1 DEF Guarded
      <4> QED  BY <4>2, <4>3
    <3>2. CASE ~Guarded(gates, f)
      <4>1. \/ version # Unread /\ f \in version.tokens
            \/ f \in warned /\ f # "epp"
        BY <2>5, <3>2 DEF CommandInv, GateInv
      <4> QED  BY <1>6, <4>1
    <3> QED  BY <3>1, <3>2
  <2>6. gates' \in Seq(Gates) /\ plan = <<>>
    BY <1>1, <1>3, <1>6 DEF CommandInv, PlanInv
  <2>7. DroppedFieldWasWarned'
    BY <1>6, <2>1 DEF CommandInv, GateInv, DroppedFieldWasWarned
  <2>8. GateInv'
    BY <2>1, <2>5, <2>6, <2>7 DEF CommandInv, GateInv
  <2> QED  BY <1>1, <2>2, <2>3, <2>4, <2>8, GatewayKept DEF CommandInv
<1>7. CASE gates' = Tail(gates) /\ UNCHANGED <<pc, exit, warned>> /\ g.feature \in version.tokens
  BY <1>6, <1>7
<1>8. CASE /\ gates' = Tail(gates) /\ UNCHANGED <<pc, exit>> /\ ~g.strict
           /\ warned' = IF g.feature \in version.tokens THEN warned ELSE warned \cup {g.feature}
  BY <1>6, <1>8
<1> QED  BY <1>4, <1>5, <1>7, <1>8

\* The line is refused or its first request goes out.
LEMMA DecideKeeps ==
  ASSUME CommandInv, Decide
  PROVE  CommandInv'
<1>1. /\ pc = "gate" /\ gates = <<>>
      /\ UNCHANGED <<line, attempt, gates, version, next, warned, gateway>>
      /\ UNCHANGED <<peer, replaced, changed, dropped, late, stored>>
  BY DEF Decide, gateway
<1>2. line \in Lines  BY DEF CommandInv, TypeOK
<1>3. VerdictFits(line, Verdict(line))  BY <1>2, EveryVerdictFits
<1>4. CASE Verdict(line).code # OK
  <2>1. Verdict(line).code \in Taxonomy  BY <1>3 DEF VerdictFits
  <2>2. pc' = "done" /\ exit' = Verdict(line).code /\ plan' = plan
    BY <1>4 DEF Decide, End
  <2> QED  BY <1>1, <1>4, <2>1, <2>2, GateEnds
<1>5. CASE Verdict(line).code = OK
  <2>1. /\ plan' \in Verdict(line).plans
        /\ \/ plan' = <<>> /\ pc' = "done" /\ exit' = OK
           \/ plan' # <<>> /\ pc' = "send" /\ exit' = exit
    BY <1>5 DEF Decide, End
  <2>2. /\ Len(plan') \in Nat /\ DOMAIN plan' = 1..Len(plan') /\ (Len(plan') = 0 => plan' = <<>>)
    BY <1>3, <2>1 DEF VerdictFits, PlanFits
  <2>3. next = 1 /\ changed = {} /\ dropped = {} /\ exit = Running
        /\ \A m \in late : m.attempt # attempt
    BY <1>1 DEF CommandInv, PlanInv, HarmlessInv, TypeOK, Busy
  <2>4. pc' = "send" => next \in DOMAIN plan' /\ 1..(next - 1) = {}  BY <2>1, <2>2, <2>3
  <2>5. exit' \in Taxonomy \cup {Running} /\ (exit' = Running <=> pc' # "done")
    BY <2>1, <2>3, CodesExist
  <2>6. TypeOK'
    <3>1. (exit' = Running) = Busy'  BY <2>5, Zenon DEF Busy
    <3>2. next' \in 1..Len(plan') + 1 /\ changed' \subseteq DOMAIN plan'
      BY <1>1, <2>2, <2>3
    <3>3. pc' \in {"gate", "send", "wait", "done"}  BY <2>1
    <3> QED  BY <1>1, <2>5, <3>1, <3>2, <3>3 DEF CommandInv, TypeOK
  <2>7. PlanInv'  BY <1>1, <1>5, <2>1, <2>4 DEF PlanInv
  <2>8. LateInv'  BY <1>1, <2>3 DEF CommandInv, LateInv
  <2>9. HarmlessInv'
    <3>1. OK \notin NoChange
      BY DEF OK, NoChange, InvalidArgument, Auth, Precondition, FeatureUnavailable
    <3> QED  BY <1>1, <2>1, <2>3, <2>4, <3>1 DEF HarmlessInv
  <2>10. EarnedInv'
    <3>1. exit' = OK => plan' = <<>> /\ DOMAIN plan' = {}  BY <2>1, <2>3, CodesExist
    <3> QED  BY <1>1, <2>1, <2>3, <2>4, <3>1 DEF EarnedInv, SuccessIsEarned
  <2>11. GateInv'  BY <1>1 DEF CommandInv, GateInv, DroppedFieldWasWarned
  <2> QED  BY <1>1, <2>6, <2>7, <2>8, <2>9, <2>10, <2>11, GatewayKept DEF CommandInv
<1> QED  BY <1>4, <1>5

\* A request goes out, or its value turns out not to parse.
LEMMA SendKeeps ==
  ASSUME CommandInv, Send
  PROVE  CommandInv'
<1>1. /\ pc = "send"
      /\ UNCHANGED <<line, attempt, gates, version, plan, next, warned, gateway>>
      /\ UNCHANGED <<peer, replaced, changed, dropped, late, stored>>
      /\ \/ pc' = "done" /\ exit' = InvalidArgument
         \/ pc' = "wait" /\ exit' = exit /\ Current.method # "none"
  BY DEF Send, End, gateway
<1>2. InvalidArgument \in Taxonomy /\ InvalidArgument # OK /\ InvalidArgument # Running
  BY CodesExist DEF InvalidArgument, OK
<1>3. TypeOK'  BY <1>1, <1>2 DEF CommandInv, TypeOK, Busy
<1>4. PlanInv'  BY <1>1 DEF CommandInv, PlanInv, Current
<1>5. LateInv' /\ HarmlessInv'  BY <1>1 DEF CommandInv, LateInv, HarmlessInv
<1>6. EarnedInv'
  <2>1. exit = Running  BY <1>1 DEF CommandInv, TypeOK, Busy
  <2>2. exit' # OK  BY <1>1, <1>2, <2>1, CodesExist
  <2> QED  BY <1>1, <2>2 DEF CommandInv, EarnedInv, SuccessIsEarned
<1>7. GateInv'  BY <1>1 DEF CommandInv, GateInv, DroppedFieldWasWarned
<1> QED  BY <1>1, <1>3, <1>4, <1>5, <1>6, <1>7, GatewayKept DEF CommandInv

\* What the peer leaves out of a request of the plan was warned about.
LEMMA DropEffect ==
  ASSUME CommandInv, ~replaced, NEW i \in DOMAIN plan
  PROVE  /\ plan[i].fields \ peer.serves \subseteq warned
         /\ "epp" \notin plan[i].fields \ peer.serves
<1>1. plan # <<>>
  <2>1. DOMAIN <<>> = {}  OBVIOUS
  <2> QED  BY <2>1
<1>2. gates = <<>> /\ \A f : ~Guarded(gates, f)
  <2>1. gates = <<>>  BY <1>1 DEF CommandInv, GateInv
  <2>2. DOMAIN <<>> = {}  OBVIOUS
  <2> QED  BY <2>1, <2>2 DEF Guarded
<1>3. peer.tokens \subseteq peer.serves  BY BuildsAssumption DEF CommandInv, TypeOK
<1>4. version # Unread => version.tokens = peer.tokens  BY DEF CommandInv, GateInv
<1>5. ASSUME NEW f \in plan[i].fields \ peer.serves  PROVE  f \in warned /\ f # "epp"
  <2>1. Carries(line, f)  BY <1>5, PlanFacts
  <2>2. \/ version # Unread /\ f \in version.tokens
        \/ f \in warned /\ f # "epp"
    BY <1>2, <2>1 DEF CommandInv, GateInv
  <2> QED  BY <1>3, <1>4, <1>5, <2>2
<1> QED  BY <1>5

\* The gateway is replaced by another build.
LEMMA ReplaceKeeps ==
  ASSUME CommandInv, Replace
  PROVE  CommandInv'
<1>1. /\ peer' \in Builds /\ replaced' = TRUE
      /\ UNCHANGED <<line, attempt, pc, changed, dropped, late, stored>>
      /\ UNCHANGED <<gates, version, plan, next, exit, warned>>
  BY DEF Replace, command
<1>2. replaced' \in BOOLEAN /\ replaced'  BY <1>1, Zenon
<1>3. TypeOK'
  <2>1. (exit' = Running) = Busy'  BY <1>1 DEF CommandInv, TypeOK, Busy
  <2> QED  BY <1>1, <1>2, <2>1 DEF CommandInv, TypeOK
<1>4. PlanInv' /\ LateInv'  BY <1>1 DEF CommandInv, PlanInv, LateInv, Current
<1>5. HarmlessInv' /\ EarnedInv'
  BY <1>1 DEF CommandInv, HarmlessInv, EarnedInv, SuccessIsEarned
<1>6. NumInv'  BY <1>1 DEF CommandInv, NumInv, Kept, Given
<1>7. GateInv'
  <2>1. DroppedFieldWasWarned'  BY <1>2 DEF DroppedFieldWasWarned
  <2>2. /\ gates' \in Seq(Gates) /\ (plan' # <<>> => gates' = <<>>)
        /\ \A f : Carries(line', f) =>
             \/ Guarded(gates', f)
             \/ version' # Unread /\ f \in version'.tokens
             \/ f \in warned' /\ f # "epp"
    BY <1>1 DEF CommandInv, GateInv
  <2> QED  BY <1>2, <2>1, <2>2 DEF GateInv
<1> QED  BY <1>3, <1>4, <1>5, <1>6, <1>7 DEF CommandInv

\* A late request touches this attempt only if it is this attempt's, and then
\* the attempt has ended with a code that promises nothing about it.
LEMMA ArriveLateKeeps ==
  ASSUME CommandInv, ArriveLate
  PROVE  CommandInv'
<1>1. PICK m \in late :
        /\ late' = late \ {m}
        /\ \/ ~Unserved(m.request) /\ Apply(m.attempt, m.index, m.request)
           \/ Ignore
        /\ UNCHANGED <<line, attempt, pc, command, peer, replaced>>
  BY DEF ArriveLate
<1>2. /\ UNCHANGED <<line, attempt, pc, peer, replaced>>
      /\ UNCHANGED <<gates, version, plan, next, exit, warned>>
  BY <1>1 DEF command
<1>3. /\ m.attempt \in 1..attempt /\ m.request.method # "none" /\ RequestFits(line, m.request)
      /\ m.attempt = attempt => m.index \in DOMAIN plan /\ m.request = plan[m.index]
  BY DEF CommandInv, LateInv
<1>4. m.attempt = attempt => pc = "done" /\ exit \notin NoChange
  BY DEF CommandInv, HarmlessInv
<1>5. LateInv'  BY <1>1, <1>2 DEF CommandInv, LateInv
<1>6. PlanInv' /\ changed \subseteq changed' /\ changed' \subseteq DOMAIN plan
      /\ (m.attempt # attempt => changed' = changed)
  <2>1. changed \subseteq DOMAIN plan  BY DEF CommandInv, TypeOK
  <2>2. \/ changed' = changed /\ dropped' = dropped
        \/ m.attempt = attempt /\ changed' = changed \cup {m.index}
    BY <1>1 DEF Apply, Ignore
  <2>3. PlanInv'  BY <1>2, <1>4, <2>2 DEF CommandInv, PlanInv, Current
  <2> QED  BY <1>1, <1>3, <2>1, <2>2, <2>3 DEF Apply, Ignore
<1>7. HarmlessInv'  BY <1>1, <1>2, <1>4, <1>6 DEF CommandInv, HarmlessInv
<1>8. EarnedInv'  BY <1>2, <1>4, <1>6 DEF CommandInv, EarnedInv, SuccessIsEarned
<1>9. NumInv' /\ DOMAIN stored' = DOMAIN stored
  <2>1. CASE Ignore
    BY <1>2, <2>1 DEF Ignore, CommandInv, NumInv, Kept, Given
  <2>2. CASE Apply(m.attempt, m.index, m.request)
    <3>1. /\ DOMAIN stored' = DOMAIN stored
          /\ line.cmd = "create lb" => Kept(stored') /\ Given(stored')
      BY <1>2, <1>3, <2>2, ApplyEffect
    <3> QED  BY <1>2, <3>1 DEF NumInv, Kept, Given
  <2> QED  BY <1>1, <2>1, <2>2
<1>10. TypeOK'
  <2>1. /\ changed' \subseteq DOMAIN plan' /\ DOMAIN stored' = DOMAIN StoredFields
        /\ \A n \in late' : n.attempt <= attempt'
    BY <1>1, <1>2, <1>6, <1>9 DEF CommandInv, TypeOK
  <2>2. (exit' = Running) = Busy'  BY <1>2 DEF CommandInv, TypeOK, Busy
  <2> QED  BY <1>2, <2>1, <2>2 DEF CommandInv, TypeOK
<1>11. GateInv'
  <2>1. DroppedFieldWasWarned'
    <3> SUFFICES ASSUME ~replaced'
                 PROVE  dropped' \subseteq warned' /\ "epp" \notin dropped'
      BY DEF DroppedFieldWasWarned
    <3>1. ~replaced  BY <1>2
    <3>2. dropped \subseteq warned /\ "epp" \notin dropped
      BY <3>1 DEF CommandInv, GateInv, DroppedFieldWasWarned
    <3>3. \/ dropped' = dropped
          \/ m.attempt = attempt /\ dropped' = dropped \cup (m.request.fields \ peer.serves)
      BY <1>1 DEF Apply, Ignore
    <3>4. CASE m.attempt = attempt
      <4>1. /\ m.request.fields \ peer.serves \subseteq warned
            /\ "epp" \notin m.request.fields \ peer.serves
        BY <1>3, <3>1, <3>4, DropEffect
      <4> QED  BY <1>2, <3>2, <3>3, <4>1
    <3> QED  BY <1>2, <3>2, <3>3, <3>4
  <2>2. /\ gates' \in Seq(Gates) /\ (plan' # <<>> => gates' = <<>>)
        /\ \A f : Carries(line', f) =>
             \/ Guarded(gates', f)
             \/ version' # Unread /\ f \in version'.tokens
             \/ f \in warned' /\ f # "epp"
        /\ ~replaced' /\ version' # Unread => version'.tokens = peer'.tokens
    BY <1>2 DEF CommandInv, GateInv
  <2> QED  BY <2>1, <2>2 DEF GateInv
<1> QED  BY <1>5, <1>6, <1>7, <1>8, <1>9, <1>10, <1>11 DEF CommandInv

\* Whatever became of the request in flight, the store and the warnings agree.
LEMMA TouchKeeps ==
  ASSUME CommandInv, pc = "wait", Apply(attempt, next, Current) \/ Ignore,
         UNCHANGED <<line, attempt, gates, version, plan, warned, peer, replaced>>
  PROVE  NumInv' /\ GateInv' /\ DOMAIN stored' = DOMAIN stored
<1>1. next \in DOMAIN plan /\ Current = plan[next] /\ Current.method # "none"
  BY DEF CommandInv, PlanInv, Current
<1>2. RequestFits(line, Current)  BY <1>1, PlanFacts
<1>3. NumInv' /\ DOMAIN stored' = DOMAIN stored
  <2>1. CASE Ignore
    BY <2>1 DEF Ignore, CommandInv, NumInv, Kept, Given
  <2>2. CASE Apply(attempt, next, Current)
    <3>1. /\ DOMAIN stored' = DOMAIN stored
          /\ line.cmd = "create lb" => Kept(stored') /\ Given(stored')
      BY <1>1, <1>2, <2>2, ApplyEffect
    <3> QED  BY <3>1 DEF NumInv, Kept, Given
  <2> QED  BY <2>1, <2>2
<1>4. DroppedFieldWasWarned'
  <2> SUFFICES ASSUME ~replaced'
               PROVE  dropped' \subseteq warned' /\ "epp" \notin dropped'
    BY DEF DroppedFieldWasWarned
  <2>1. ~replaced /\ dropped \subseteq warned /\ "epp" \notin dropped
    BY DEF CommandInv, GateInv, DroppedFieldWasWarned
  <2>2. dropped' = dropped \/ dropped' = dropped \cup (Current.fields \ peer.serves)
    BY DEF Apply, Ignore
  <2>3. Current.fields \ peer.serves \subseteq warned /\ "epp" \notin Current.fields \ peer.serves
    BY <1>1, <2>1, DropEffect
  <2> QED  BY <2>1, <2>2, <2>3
<1>5. GateInv'  BY <1>4 DEF CommandInv, GateInv
<1> QED  BY <1>3, <1>5

\* No answer within the deadline.
LEMMA TimeoutKeeps ==
  ASSUME CommandInv, Timeout
  PROVE  CommandInv'
<1> DEFINE left == [attempt |-> attempt, index |-> next, request |-> Current]
<1>1. /\ pc = "wait" /\ pc' = "done" /\ exit' = Current.lost
      /\ UNCHANGED <<line, attempt, gates, version, plan, next, warned, peer, replaced>>
      /\ Apply(attempt, next, Current) \/ Ignore
      /\ late' = late \/ late' = late \cup {left}
  BY DEF Timeout, End
<1>2. next \in DOMAIN plan /\ Current = plan[next] /\ Current.method # "none"
  BY <1>1 DEF CommandInv, PlanInv, Current
<1>3. RequestFits(line, Current)  BY <1>2, PlanFacts
<1>4. /\ exit' \in Taxonomy /\ exit' # Running /\ exit' \notin NoChange
      /\ line.cmd \notin FileCommands => exit' # OK
  <2>1. exit' \in {OK, Unavailable, Failed} /\ (line.cmd \notin FileCommands => exit' = Unavailable)
    BY <1>1, <1>3 DEF RequestFits
  <2>2. {OK, Unavailable, Failed} \cap NoChange = {} /\ Unavailable # OK
    BY DEF OK, Unavailable, Failed, NoChange, InvalidArgument, Auth, Precondition, FeatureUnavailable
  <2> QED  BY <2>1, <2>2, CodesExist
<1>5. /\ left.attempt = attempt /\ left.index = next /\ left.request = Current  OBVIOUS
<1> HIDE DEF left
<1>6. NumInv' /\ GateInv' /\ DOMAIN stored' = DOMAIN stored
  BY <1>1, TouchKeeps
<1>7. attempt \in 1..MaxAttempts /\ attempt \in 1..attempt
  <2>1. attempt \in 1..MaxAttempts  BY DEF CommandInv, TypeOK
  <2> QED  BY <2>1, MaxAttemptsAssumption
<1>8. LateInv'
  <2>1. ASSUME NEW m \in late'
        PROVE  /\ m.attempt \in 1..attempt' /\ m.request.method # "none" /\ RequestFits(line', m.request)
               /\ m.attempt = attempt' => m.index \in DOMAIN plan' /\ m.request = plan'[m.index]
    <3>1. CASE m \in late  BY <1>1, <3>1 DEF CommandInv, LateInv
    <3>2. CASE m = left  BY <1>1, <1>2, <1>3, <1>5, <1>7, <3>2
    <3> QED  BY <1>1, <2>1, <3>1, <3>2
  <2> QED  BY <2>1 DEF LateInv
<1>9. changed' \subseteq DOMAIN plan'
  BY <1>1, <1>2 DEF CommandInv, TypeOK, Apply, Ignore
<1>10. TypeOK'
  <2>1. (exit' = Running) = Busy'  BY <1>1, <1>4 DEF Busy
  <2>2. \A m \in late' : m.attempt <= attempt'  BY <1>8, <1>7, <1>1, MaxAttemptsAssumption DEF LateInv
  <2>3. DOMAIN stored' = DOMAIN StoredFields  BY <1>6 DEF CommandInv, TypeOK
  <2> QED  BY <1>1, <1>4, <1>9, <2>1, <2>2, <2>3 DEF CommandInv, TypeOK
<1>11. PlanInv'  BY <1>1 DEF CommandInv, PlanInv
<1>12. HarmlessInv'  BY <1>1, <1>4 DEF HarmlessInv
<1>13. EarnedInv'  BY <1>1, <1>4 DEF EarnedInv, SuccessIsEarned
<1> QED  BY <1>6, <1>8, <1>10, <1>11, <1>12, <1>13 DEF CommandInv

\* An answer, the request it is for having been applied or not.
LEMMA AnswerCases ==
  ASSUME CommandInv, Answer
  PROVE  \E status, decodable :
           /\ \/ Ignore /\ status \in Refusals \cup Unclear
              \/ Apply(attempt, next, Current) /\ status \in Succeeds(Current) \cup Unclear
           /\ Proceed(Current, status, decodable)
<1>1. PICK decodable \in BOOLEAN :
       \/ Unserved(Current) /\ Ignore /\ Proceed(Current, 404, decodable)
       \/ \E status \in Succeeds(Current) :
            ~Unserved(Current) /\ Apply(attempt, next, Current) /\ Proceed(Current, status, decodable)
       \/ \E status \in Refusals : Ignore /\ Proceed(Current, status, decodable)
       \/ \E status \in Unclear :
            /\ Apply(attempt, next, Current) \/ Ignore
            /\ Proceed(Current, status, decodable)
  BY DEF Answer
<1>2. 404 \in Refusals  BY DEF Refusals
<1> QED  BY <1>1, <1>2, Zenon

\* An answer ends the command or lets it go on.
LEMMA AnswerKeeps ==
  ASSUME CommandInv, Answer
  PROVE  CommandInv'
<1>1. /\ pc = "wait"
      /\ UNCHANGED <<line, attempt, gates, version, plan, warned, peer, replaced, late>>
  BY DEF Answer
<1>2. PICK status, decodable :
        /\ \/ Ignore /\ status \in Refusals \cup Unclear
           \/ Apply(attempt, next, Current) /\ status \in Succeeds(Current) \cup Unclear
        /\ Proceed(Current, status, decodable)
  BY AnswerCases
<1>3. next \in DOMAIN plan /\ Current = plan[next]
  BY <1>1 DEF CommandInv, PlanInv, Current
<1>4. RequestFits(line, Current) /\ Len(plan) \in Nat /\ DOMAIN plan = 1..Len(plan)
      /\ (line.cmd \in FileCommands => Len(plan) <= 1)
  BY <1>3, PlanFacts
<1>5. NumInv' /\ GateInv' /\ DOMAIN stored' = DOMAIN stored
  BY <1>1, <1>2, TouchKeeps
<1>6. /\ \/ changed' = changed /\ status \in Refusals \cup Unclear
         \/ changed' = changed \cup {next} /\ status \in Succeeds(Current) \cup Unclear
      /\ changed' \in {changed, changed \cup {next}}
  BY <1>2 DEF Ignore, Apply
<1>7. LateInv'  BY <1>1 DEF CommandInv, LateInv
<1>8. /\ changed \subseteq 1..(next - 1) /\ \A m \in late : m.attempt # attempt
      /\ 1..(next - 1) \subseteq changed
  BY <1>1 DEF CommandInv, HarmlessInv, EarnedInv
<1>9. exit = Running  BY <1>1 DEF CommandInv, TypeOK, Busy
<1>10. \/ /\ status \notin Current.ok /\ pc' = "done" /\ next' = next
          /\ exit' = ClassifyAnswer(Current, status)
       \/ pc' = "done" /\ exit' = ContractMismatch /\ next' = next
       \/ /\ status \in Current.ok /\ next' = next + 1
          /\ \/ next = Len(plan) /\ pc' = "done" /\ exit' = OK
             \/ next # Len(plan) /\ pc' = "send" /\ exit' = exit
  BY <1>2 DEF Proceed, End
<1>11. /\ pc' \in {"done", "send"} /\ exit' \in Taxonomy \cup {Running}
       /\ (exit' = Running <=> pc' # "done")
       /\ next' \in 1..Len(plan) + 1 /\ changed' \subseteq DOMAIN plan
       /\ pc' = "send" => next' \in DOMAIN plan
  <2>1. next' \in {next, next + 1} /\ (pc' = "send" => next # Len(plan) /\ next' = next + 1)
    BY <1>10
  <2>2. next' \in 1..Len(plan) + 1 /\ (pc' = "send" => next' \in DOMAIN plan)
    BY <1>3, <1>4, <2>1
  <2>3. changed \subseteq DOMAIN plan  BY DEF CommandInv, TypeOK
  <2>4. changed' \subseteq DOMAIN plan  BY <1>3, <1>6, <2>3
  <2>5. \/ pc' = "done" /\ exit' \in Taxonomy
        \/ pc' = "send" /\ exit' = Running
    <3>1. CASE status \notin Current.ok /\ pc' = "done" /\ exit' = ClassifyAnswer(Current, status)
      <4>1. status \in Refusals \cup Unclear  BY <1>6, <3>1 DEF Succeeds
      <4> QED  BY <3>1, <4>1, AnswerCodes
    <3>2. CASE pc' = "done" /\ exit' \in {OK, ContractMismatch}
      BY <3>2, CodesExist
    <3>3. CASE pc' = "send" /\ exit' = exit  BY <1>9, <3>3
    <3> QED  BY <1>10, <3>1, <3>2, <3>3
  <2> QED  BY <2>2, <2>4, <2>5, CodesExist
<1>12. TypeOK'
  <2>1. (exit' = Running) = Busy'  BY <1>11, Zenon DEF Busy
  <2>2. DOMAIN stored' = DOMAIN StoredFields  BY <1>5 DEF CommandInv, TypeOK
  <2> QED  BY <1>1, <1>11, <2>1, <2>2 DEF CommandInv, TypeOK
<1>13. PlanInv'  BY <1>1, <1>11 DEF CommandInv, PlanInv
<1>14. HarmlessInv'
  <2> SUFFICES ASSUME pc' # "done" \/ exit' \in NoChange
               PROVE  next' \in DOMAIN plan /\ changed' \subseteq 1..(next' - 1)
    BY <1>1, <1>8 DEF HarmlessInv
  <2>1. ContractMismatch \notin NoChange /\ OK \notin NoChange
    BY DEF OK, ContractMismatch, NoChange, InvalidArgument, Auth, Precondition, FeatureUnavailable
  <2>2. CASE pc' = "done"
    <3>1. status \notin Current.ok /\ next' = next /\ exit' = ClassifyAnswer(Current, status)
      BY <1>10, <2>1, <2>2
    <3>2. status \in Refusals \cup Unclear  BY <1>6, <3>1 DEF Succeeds
    <3>3. status \notin Unclear  BY <2>2, <3>1, <3>2, AnswerCodes
    <3>4. changed' = changed  BY <1>6, <3>1, <3>3 DEF Succeeds
    <3> QED  BY <1>3, <1>8, <3>1, <3>4
  <2>3. CASE pc' = "send"
    BY <1>3, <1>4, <1>6, <1>8, <1>10, <1>11, <2>3
  <2> QED  BY <1>11, <2>2, <2>3
<1>15. EarnedInv'
  <2>1. CASE status \in Current.ok /\ next' = next + 1
    <3>1. CASE line.cmd \notin FileCommands
      <4>1. status \in Success  BY <1>4, <2>1, <3>1 DEF RequestFits
      <4>2. status \notin Refusals \cup Unclear  BY <4>1 DEF Success, Refusals, Unclear
      <4>3. changed' = changed \cup {next}  BY <1>6, <4>2
      <4>4. 1..next \subseteq changed'  BY <1>3, <1>4, <1>8, <4>3
      <4>5. pc' = "done" => next = Len(plan)
        <5>1. next' # next  BY <1>3, <1>4, <2>1
        <5> QED  BY <1>10, <2>1, <5>1
      <4>7. pc' = "done" => changed' = DOMAIN plan
        BY <1>4, <1>11, <4>4, <4>5
      <4>6. 1..(next' - 1) \subseteq changed'  BY <1>3, <1>4, <2>1, <4>4
      <4>8. exit' = OK => pc' = "done"  BY <1>11, CodesExist
      <4> QED  BY <1>1, <4>6, <4>7, <4>8 DEF EarnedInv, SuccessIsEarned
    <3>2. CASE line.cmd \in FileCommands
      <4>1. next = Len(plan)  BY <1>3, <1>4, <3>2
      <4>2. pc' = "done"  BY <1>10, <4>1
      <4> QED  BY <1>1, <3>2, <4>2 DEF EarnedInv, SuccessIsEarned
    <3> QED  BY <3>1, <3>2
  <2>2. CASE ~(status \in Current.ok /\ next' = next + 1)
    <3>1. CASE exit' = ContractMismatch /\ pc' = "done"
      <4>1. exit' # OK  BY <3>1 DEF ContractMismatch, OK
      <4> QED  BY <3>1, <4>1 DEF EarnedInv, SuccessIsEarned
    <3>2. CASE status \notin Current.ok /\ pc' = "done" /\ exit' = ClassifyAnswer(Current, status)
      <4>1. status \in Refusals \cup Unclear  BY <1>6, <3>2 DEF Succeeds
      <4>2. exit' # OK  BY <3>2, <4>1, AnswerCodes
      <4> QED  BY <3>2, <4>2 DEF EarnedInv, SuccessIsEarned
    <3> QED  BY <1>10, <2>2, <3>1, <3>2
  <2> QED  BY <2>1, <2>2
<1> QED  BY <1>5, <1>7, <1>12, <1>13, <1>14, <1>15 DEF CommandInv

\* Every step of the command, the gateway, the network and the operator keeps
\* the invariant.
THEOREM CommandInvariant == Spec => []CommandInv
<1>1. CommandInv /\ [Next]_vars => CommandInv'
  <2> SUFFICES ASSUME CommandInv, [Next]_vars
               PROVE  CommandInv'
    OBVIOUS
  <2>1. CASE UNCHANGED vars
    <3>1. /\ UNCHANGED <<line, attempt, pc, gates, version, plan, next, exit, warned>>
          /\ UNCHANGED <<peer, replaced, changed, dropped, late, stored>>
      BY <2>1 DEF vars, command, gateway
    <3>2. TypeOK'  BY <3>1 DEF CommandInv, TypeOK, Busy
    <3>3. PlanInv' /\ LateInv'  BY <3>1 DEF CommandInv, PlanInv, LateInv, Current
    <3>4. HarmlessInv' /\ EarnedInv'
      BY <3>1 DEF CommandInv, HarmlessInv, EarnedInv, SuccessIsEarned
    <3>5. NumInv'  BY <3>1 DEF CommandInv, NumInv, Kept, Given
    <3>6. GateInv'  BY <3>1 DEF CommandInv, GateInv, DroppedFieldWasWarned
    <3> QED  BY <3>2, <3>3, <3>4, <3>5, <3>6 DEF CommandInv
  <2>2. CASE \E code \in ReadFailures : ReadFails(code)  BY <2>2, ReadFailsKeeps
  <2>3. CASE PassGate  BY <2>3, PassGateKeeps
  <2>4. CASE Decide  BY <2>4, DecideKeeps
  <2>5. CASE Send  BY <2>5, SendKeeps
  <2>6. CASE Timeout  BY <2>6, TimeoutKeeps
  <2>7. CASE ReadVersion  BY <2>7, ReadVersionKeeps
  <2>8. CASE Answer  BY <2>8, AnswerKeeps
  <2>9. CASE ArriveLate  BY <2>9, ArriveLateKeeps
  <2>10. CASE Replace  BY <2>10, ReplaceKeeps
  <2>11. CASE Again  BY <2>11, AgainKeeps
  <2>12. CASE Rest  BY <2>1, <2>12 DEF Rest
  <2> QED
    BY <2>1, <2>2, <2>3, <2>4, <2>5, <2>6, <2>7, <2>8, <2>9, <2>10, <2>11, <2>12 DEF Next, Step
<1> QED  BY <1>1, CommandInit, PTL DEF Spec

-----------------------------------------------------------------------------
(* The properties                                                          *)

\* Every variable keeps its type and an attempt that ended has an exit code of
\* the frozen table, whatever the line and the answers.
THEOREM CommandTypes == Spec => []TypeOK
<1>1. CommandInv => TypeOK  BY DEF CommandInv
<1> QED  BY <1>1, CommandInvariant, PTL

\* Exit 0 of a create, delete or set command: every request was applied.
THEOREM SuccessEarned == Spec => []SuccessIsEarned
<1>1. CommandInv => SuccessIsEarned  BY DEF CommandInv, EarnedInv
<1> QED  BY <1>1, CommandInvariant, PTL

\* A refused command of one request changed nothing and never will.
THEOREM RefusalHarmless == Spec => []RefusalChangedNothing
<1>1. CommandInv => RefusalChangedNothing
  <2> SUFFICES ASSUME CommandInv, exit \in NoChange, Len(plan) <= 1
               PROVE  changed = {} /\ \A m \in late : m.attempt < attempt
    BY DEF RefusalChangedNothing, NoChange
  <2>1. /\ next \in DOMAIN plan \/ plan = <<>>
        /\ changed \subseteq 1..(next - 1) /\ \A m \in late : m.attempt # attempt
    BY DEF CommandInv, HarmlessInv
  <2>2. changed \subseteq DOMAIN plan /\ attempt \in Nat
    BY MaxAttemptsAssumption DEF CommandInv, TypeOK
  <2>3. changed = {}
    <3>1. CASE plan = <<>>
      <4>1. DOMAIN plan = {}  BY <3>1
      <4> QED  BY <2>2, <4>1
    <3>2. CASE next \in DOMAIN plan
      <4>1. next = 1  BY <3>2, PlanFacts
      <4>2. 1..(next - 1) = {}  BY <4>1
      <4> QED  BY <2>1, <4>2
    <3> QED  BY <2>1, <3>1, <3>2
  <2>4. \A m \in late : m.attempt \in 1..attempt  BY DEF CommandInv, LateInv
  <2> QED  BY <2>1, <2>2, <2>3, <2>4
<1> QED  BY <1>1, CommandInvariant, PTL

\* Fields are dropped only after a warning, the endpoint picker's never.
THEOREM DropWasWarned == Spec => []DroppedFieldWasWarned
<1>1. CommandInv => DroppedFieldWasWarned  BY DEF CommandInv, GateInv
<1> QED  BY <1>1, CommandInvariant, PTL

\* A plan that is not empty has a first request.
LEMMA FirstExists ==
  ASSUME NEW l, NEW gs, NEW p, PlanFits(l, gs, p), p # <<>>
  PROVE  1 \in DOMAIN p
BY DEF PlanFits

\* A load balancer has the pointer numbers that were given, zeros too, and keeps
\* the others; it has the plain ones that were given and are not zero.
THEOREM NumbersStored == Spec => []GivenNumbersAreStored
<1>1. CommandInv => GivenNumbersAreStored
  <2> SUFFICES ASSUME CommandInv, exit = OK, line.cmd = "create lb", plan # <<>>,
                      NEW f \in DOMAIN stored
               PROVE  IF f \in SentWhenGiven
                      THEN stored[f] = IF f \in DOMAIN line.lb.num THEN line.lb.num[f]
                                       ELSE StoredFields[f]
                      ELSE Num(line.lb, f) # 0 => stored[f] = Num(line.lb, f)
    BY DEF GivenNumbersAreStored
  <2>1. changed = DOMAIN plan
    BY DEF CommandInv, EarnedInv, SuccessIsEarned, FileCommands
  <2>2. plan \in Verdict(line).plans /\ line \in Lines  BY DEF CommandInv, PlanInv, TypeOK
  <2>3. PlanFits(line, Verdict(line).gates, plan)  BY <2>2, EveryVerdictFits DEF VerdictFits
  <2>4. 1 \in DOMAIN plan  BY <2>3, FirstExists
  <2>5. changed # {}  BY <2>1, <2>4
  <2>6. Kept(stored) /\ Given(stored)  BY <2>5 DEF CommandInv, NumInv
  <2>7. CASE f \in SentWhenGiven
    <3>1. f \in DOMAIN line.lb.num => f \in Sent(line.lb)  BY <2>7 DEF Sent, u32IfGiven
    <3> QED  BY <2>6, <2>7, <3>1 DEF Kept, Given
  <2>8. CASE f \notin SentWhenGiven /\ Num(line.lb, f) # 0
    <3>1. f \in DOMAIN line.lb.num /\ Num(line.lb, f) = line.lb.num[f]  BY <2>8 DEF Num
    <3>2. f \in Sent(line.lb)  BY <2>8, <3>1 DEF Sent, OmitEmpty
    <3> QED  BY <2>6, <2>8, <3>1, <3>2 DEF Given
  <2> QED  BY <2>7, <2>8
<1> QED  BY <1>1, CommandInvariant, PTL

\* A request goes out only after the ones before it were applied.
THEOREM FirstFailureStops == Spec => StopsAtFirstFailure
<1>1. CommandInv /\ [Next]_vars => [pc' = "wait" /\ pc = "send" => 1..(next - 1) \subseteq changed]_vars
  BY DEF CommandInv, EarnedInv
<1> QED  BY <1>1, CommandInvariant, PTL DEF Spec, StopsAtFirstFailure

\* The number of rank ports: one at least.
LEMMA MaxOfTwo ==
  ASSUME NEW n \in Nat
  PROVE  Max({1, n}) = IF n = 0 THEN 1 ELSE n
<1> DEFINE top == IF n = 0 THEN 1 ELSE n
<1>1. top \in {1, n} /\ \A y \in {1, n} : top >= y  OBVIOUS
<1>2. \A x \in {1, n} : (\A y \in {1, n} : x >= y) => x = top  OBVIOUS
<1>3. Max({1, n}) \in {1, n} /\ \A y \in {1, n} : Max({1, n}) >= y
  BY <1>1 DEF Max
<1> QED  BY <1>2, <1>3

\* The arithmetic of the rank ports.
LEMMA PortsInRange ==
  ASSUME NEW n \in 0..8, NEW z \in 0..MaxPort, NEW base,
         base = IF z = 0 THEN DefaultZmqPort ELSE z,
         n > 0 => base + n - 1 <= MaxPort
  PROVE  base..(base + Max({1, n}) - 1) \subseteq 1..MaxPort
<1> DEFINE top == Max({1, n})
<1>1. top = IF n = 0 THEN 1 ELSE n  BY MaxOfTwo
<1> HIDE DEF top
<1>2. base \in Nat /\ base >= 1 /\ base <= MaxPort /\ MaxPort \in Nat
  <2>1. CASE z = 0
    <3>1. base = 5557  BY <2>1 DEF DefaultZmqPort
    <3> QED  BY <3>1 DEF MaxPort
  <2>2. CASE z # 0
    <3>1. base = z  BY <2>2
    <3> QED  BY <2>2, <3>1 DEF MaxPort
  <2> QED  BY <2>1, <2>2
<1>3. top \in Nat /\ base + top - 1 <= MaxPort
  <2>1. CASE n = 0  BY <1>1, <1>2, <2>1
  <2>2. CASE n > 0  BY <1>1, <1>2, <2>2
  <2> QED  BY <2>1, <2>2
<1>4. \A i \in base..(base + top - 1) : i \in 1..MaxPort  BY <1>2, <1>3
<1> QED  BY <1>4 DEF top

\* An accepted rule has a port for each of its ranks.
LEMMA RanksFit ==
  ASSUME NEW o, validateLBAIOptions(o), Num(o, "kvmode") # 0
  PROVE  RankPorts(o) \subseteq 1..MaxPort
<1>1. lbAIRequested(o)  BY DEF lbAIRequested
<1>2. KvNumbersFit(o)  BY <1>1 DEF validateLBAIOptions, validateKVEngineOptions
<1>3. /\ Num(o, "ranks") \in 0..8 /\ Num(o, "zmq") \in 0..MaxPort
      /\ Num(o, "ranks") > 0 => ZmqBase(o) + Num(o, "ranks") - 1 <= MaxPort
  BY <1>2, Zenon DEF KvNumbersFit
<1>4. ZmqBase(o) = IF Num(o, "zmq") = 0 THEN DefaultZmqPort ELSE Num(o, "zmq")
  BY Zenon DEF ZmqBase
<1>5. ZmqBase(o)..(ZmqBase(o) + Max({1, Num(o, "ranks")}) - 1) \subseteq 1..MaxPort
  BY <1>3, <1>4, PortsInRange
<1> QED  BY <1>5, Zenon DEF RankPorts

\* An accepted disaggregated rule has an endpoint of each role.
LEMMA RolesExist ==
  ASSUME NEW o, validateLBAIOptions(o), parseEndpointRoles(o), o.roles \in Seq(STRING),
         Disaggregated(o), NEW role \in {"prefill", "decode"}
  PROVE  \E i \in 1..o.endpoints : o.roles[i] = role
<1>1. lbAIRequested(o)
  <2>1. "pd-disagg" \in o.set  BY DEF Disaggregated
  <2> QED  BY <2>1 DEF lbAIRequested
<1>2. PdFits(o)  BY <1>1 DEF validateLBAIOptions, validateKVEngineOptions
<1>3. PICK i \in DOMAIN o.roles : o.roles[i] = role  BY <1>2 DEF PdFits
<1>4. o.roles # <<>>
  <2>1. DOMAIN <<>> = {}  OBVIOUS
  <2> QED  BY <1>3, <2>1
<1>5. Len(o.roles) = o.endpoints  BY <1>4 DEF parseEndpointRoles, RolesFit
<1>6. DOMAIN o.roles = 1..Len(o.roles)  OBVIOUS
<1> QED  BY <1>3, <1>5, <1>6

\* What create lb has checked by the time it sends anything.
LEMMA CheckedBeforeSent ==
  ASSUME CommandInv, line.cmd = "create lb", plan # <<>>
  PROVE  validateLBAIOptions(line.lb) /\ parseEndpointRoles(line.lb)
<1>1. plan \in Verdict(line).plans /\ Verdict(line).code = OK /\ line \in Lines
  BY DEF CommandInv, PlanInv, TypeOK
<1>2. Verdict(line) = CreateLoadBalancer(line)
  <2>1. line.verb = "create"  BY <1>1, LinesAssumption
  <2>2. Verdict(line) = CreateCmd(line)  BY <2>1 DEF Verdict
  <2>3. CreateCmd(line) = CreateLoadBalancer(line)  BY DEF CreateCmd
  <2> QED  BY <2>2, <2>3
<1>3. OK # InvalidArgument  BY CodesDiffer
<1>4. CreateLoadBalancer(line).code = OK  BY <1>1, <1>2
<1>5. ASSUME ~validateLBAIOptions(line.lb)  PROVE  FALSE
  <2>1. CreateLoadBalancer(line) = Invalid  BY <1>5 DEF CreateLoadBalancer
  <2>2. Invalid.code = InvalidArgument  BY DEF Invalid, Refused
  <2> QED  BY <1>3, <1>4, <2>1, <2>2
<1>6. ASSUME ~parseEndpointRoles(line.lb)  PROVE  FALSE
  <2>1. CreateLoadBalancer(line) \in {Invalid, [Invalid EXCEPT !.gates = requireLBFeatures(line.lb)]}
    BY <1>6 DEF CreateLoadBalancer
  <2>2. /\ Invalid.code = InvalidArgument
        /\ [Invalid EXCEPT !.gates = requireLBFeatures(line.lb)].code = InvalidArgument
    BY DEF Invalid, Refused
  <2> QED  BY <1>3, <1>4, <2>1, <2>2
<1> QED  BY <1>5, <1>6

\* The ports of the ranks exist, and a disaggregated rule has both roles.
THEOREM RanksAndRoles == Spec => []RanksAndRolesExist
<1>1. CommandInv => RanksAndRolesExist
  <2> SUFFICES ASSUME CommandInv, line.cmd = "create lb", plan # <<>>
               PROVE  /\ Num(line.lb, "kvmode") # 0 => RankPorts(line.lb) \subseteq 1..MaxPort
                      /\ Disaggregated(line.lb) =>
                           \A role \in {"prefill", "decode"} :
                             \E i \in 1..line.lb.endpoints : line.lb.roles[i] = role
    BY DEF RanksAndRolesExist
  <2>1. validateLBAIOptions(line.lb) /\ parseEndpointRoles(line.lb)  BY CheckedBeforeSent
  <2>2. line.lb.roles \in Seq(STRING)
    <3>1. line \in Lines  BY DEF CommandInv, TypeOK
    <3> QED  BY <3>1, LinesAssumption
  <2> QED  BY <2>1, <2>2, RanksFit, RolesExist
<1> QED  BY <1>1, CommandInvariant, PTL

=============================================================================
