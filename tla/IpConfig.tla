------------------------------ MODULE IpConfig ------------------------------
(***************************************************************************)
(* The interface configuration of a host, the directory "save --ip" dumps  *)
(* it into and what "apply --per-intf" brings back from that directory.    *)
(*                                                                         *)
(* A topology gives every link, in the order of its interface index, its   *)
(* kind, the link a VLAN or VXLAN is on, whether a VXLAN has a local       *)
(* address, its bridge or bond, and the kinds of static routes it has.     *)
(* What a host has of a topology is a set of items [link, what]: the link  *)
(* itself, its membership, its routes of a kind.                           *)
(***************************************************************************)
EXTENDS Integers, Sequences, FiniteSets, FiniteSetsExt

None == "none"
\* A route over a gateway, one of the device alone, one over several next hops.
RouteKinds == {"gateway", "direct", "multipath"}
Kinds == {"phy", "vlan", "vxlan", "bridge", "bond"}
Item(l, what) == [link |-> l, what |-> what]
Links(t) == {t[i].name : i \in DOMAIN t}
Of(t, l) == t[CHOOSE i \in DOMAIN t : t[i].name = l]
Index(t, l) == CHOOSE i \in DOMAIN t : t[i].name = l
Items(t) ==
  {Item(l, "link") : l \in Links(t)}
    \cup {Item(l, "master") : l \in {x \in Links(t) : Of(t, x).master # None}}
    \cup UNION {{Item(l, k) : k \in Of(t, l).routes} : l \in Links(t)}
Present(items) == {i.link : i \in {x \in items : x.what = "link"}}
Booted(t) == {Item(l, "link") : l \in {x \in Links(t) : Of(t, x).kind = "phy"}}

\* What the kernel admits: one name per index, a VLAN on a link, a VXLAN on a
\* link or on none, a master that is a bridge or a bond, and no link that is
\* below itself.
Stacked(t) ==
  /\ t \in Seq([name : STRING, kind : Kinds, on : STRING, local : BOOLEAN, master : STRING,
                routes : SUBSET RouteKinds])
  /\ None \notin Links(t)
  /\ \A i, j \in DOMAIN t : t[i].name = t[j].name => i = j
  /\ \E height \in [Links(t) -> 1..Len(t)] : \A i \in DOMAIN t :
       /\ t[i].kind = "vlan" \/ (t[i].kind = "vxlan" /\ t[i].on # None) =>
            t[i].on \in Links(t) /\ height[t[i].on] < height[t[i].name]
       /\ t[i].master # None =>
            /\ t[i].master \in Links(t) /\ height[t[i].name] < height[t[i].master]
            /\ Of(t, t[i].master).kind \in {"bridge", "bond"}

-----------------------------------------------------------------------------
(* The dump                                                                *)

\* Bridges come first, then bonds, then the others by index.
Turn(t, l) == Index(t, l) + (CASE Of(t, l).kind = "bridge" -> 0
                              [] Of(t, l).kind = "bond"   -> Len(t)
                              [] OTHER                    -> 2 * Len(t))
VxlansOn(t, items, l) == {v \in Present(items) : Of(t, v).kind = "vxlan" /\ Of(t, v).on = l}
\* AddLink gives up on a VXLAN that is on no link, before its directory is made.
Baseless(t, l) == Of(t, l).kind = "vxlan" /\ Of(t, l).on = None
\* The directory of a link is made at its own turn and at that of a VXLAN on it.
DirWriters(t, items, l) == VxlansOn(t, items, l) \cup (IF Baseless(t, l) THEN {} ELSE {l})
\* AddLink writes the one master file of a link for its bridge or bond (for a
\* bridge it returns before that), and again for every VXLAN on it: the last
\* writer's name stays.
WritesMaster(t, items, l) ==
  Item(l, "master") \in items /\ Of(t, l).kind # "bridge" /\ ~Baseless(t, l)
MasterWriters(t, items, l) ==
  VxlansOn(t, items, l) \cup (IF WritesMaster(t, items, l) THEN {l} ELSE {})
dumpMaster(t, items, l) ==
  LET writers == MasterWriters(t, items, l)
      last    == CHOOSE w \in writers : \A x \in writers : Turn(t, x) <= Turn(t, w)
  IN IF writers = {} THEN [name |-> None, kind |-> None]
     ELSE IF last = l THEN [name |-> Of(t, l).master, kind |-> Of(t, Of(t, l).master).kind]
     ELSE [name |-> last, kind |-> "vxlan"]
\* Mutant: the subintf file is truncated and not appended to.
dumpSubIntfTruncated(t, items, l) ==
  LET on == {v \in Present(items) : Of(t, v).kind = "vlan" /\ Of(t, v).on = l}
  IN {v \in on : \A w \in on : Turn(t, w) <= Turn(t, v)}
\* A VLAN is entered under the link it is on, whose directory must be there,
\* from its own turn or from that of a VXLAN on it.
dumpSubIntf(t, items, l) ==
  {v \in Present(items) :
     /\ Of(t, v).kind = "vlan" /\ Of(t, v).on = l
     /\ \E x \in DirWriters(t, items, l) : Turn(t, x) < Turn(t, v)}
\* The type file of a VXLAN's underlay says phy or bridge whatever it is,
\* until the underlay's own turn.
dumpType(t, items, l) ==
  LET over == {v \in VxlansOn(t, items, l) : Baseless(t, l) \/ Turn(t, l) < Turn(t, v)}
  IN IF over # {} /\ Of(t, l).kind # "bridge" THEN "phy" ELSE Of(t, l).kind
AddLink(t, items, l) ==
  [type |-> dumpType(t, items, l), master |-> dumpMaster(t, items, l),
   subintf |-> dumpSubIntf(t, items, l)]
\* AddRoute writes the next hop, which is nil for a route without a gateway; a
\* multipath route has no link of its own, and is not written.
NilHop == "nil"
AddRoute(items, l) ==
  {IF k = "direct" THEN NilHop ELSE k : k \in {x \in RouteKinds \ {"multipath"} : Item(l, x) \in items}}
Nlpdump(t, items) ==
  [l \in {x \in Present(items) : DirWriters(t, items, x) # {}} |->
     [link |-> AddLink(t, items, l), local |-> Of(t, l).local, routes |-> AddRoute(items, l)]]

-----------------------------------------------------------------------------
(* Applying it to one interface                                            *)

\* "ip route replace ... via nil" fails.
addRoute(dir, l)   == {Item(l, k) : k \in dir[l].routes \ {NilHop}}
\* VLANs of a bridge or a VXLAN are in the dump and not brought back.
addSubIntf(dir, l) ==
  IF dir[l].link.type \in {"phy", "bond", "vlan"}
  THEN {Item(v, "link") : v \in dir[l].link.subintf} ELSE {}
\* A member is taken down to join its bridge or bond, which flushes its routes
\* and those of the VLANs on it, but not the ones that have another next hop; a
\* VXLAN is created from its own info file, and not without a local address.
Flushed(dir, l) ==
  {Item(x, k) : x \in {l} \cup dir[l].link.subintf, k \in RouteKinds \ {"multipath"}}
addMaster(dir, l, items) ==
  LET m == dir[l].link.master
  IN CASE m.kind \in {"bridge", "bond"} ->
            (items \ Flushed(dir, l)) \cup {Item(m.name, "link"), Item(l, "master")}
       [] m.kind = "vxlan" /\ m.name \in DOMAIN dir /\ dir[m.name].local ->
            items \cup {Item(m.name, "link")}
       [] OTHER -> items
\* For an interface the host does not have, only its bridge or bond is made.
ApplyToMissing(dir, l) ==
  LET m == dir[l].link.master IN IF m.kind \in {"bridge", "bond"} THEN {Item(m.name, "link")} ELSE {}
ApplyIpConfigPerInterface(dir, l, items) ==
  IF l \notin Present(items) THEN items \cup ApplyToMissing(dir, l)
  ELSE addMaster(dir, l, items \cup addRoute(dir, l) \cup addSubIntf(dir, l))

-----------------------------------------------------------------------------
\* The topologies the directory can express: what hangs on a link fits its
\* one master file, bridges and bonds have a member to bring them back and
\* bridges are no members, VLANs are on a link that brings them back (their name
\* says which: one dot), VXLANs are on a link and have a local address, and
\* neither members nor the VLANs on them have routes.
Expressible(t) ==
  \A l \in Links(t) :
    /\ Cardinality(MasterWriters(t, Items(t), l)) <= 1
    /\ Of(t, l).kind \in {"bridge", "bond"} => \E m \in Links(t) : Of(t, m).master = l
    /\ Of(t, l).kind = "bridge" => Of(t, l).master = None
    /\ Of(t, l).kind = "vlan" => Of(t, Of(t, l).on).kind \in {"phy", "bond"}
                                 /\ Index(t, Of(t, l).on) < Index(t, l)
    /\ Of(t, l).kind = "vxlan" => Of(t, l).on # None /\ Of(t, l).local
    /\ Of(t, l).routes # {} => /\ Of(t, l).master = None
                               /\ Of(t, l).kind = "vlan" => Of(t, Of(t, l).on).master = None
\* What such a directory has of them: all but the routes without a gateway.
Recoverable(t) == {i \in Items(t) : i.what \notin {"direct", "multipath"}}

=============================================================================
