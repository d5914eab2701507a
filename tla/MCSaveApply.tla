---------------------------- MODULE MCSaveApply ----------------------------
(***************************************************************************)
(* Operators for the model checker: one who logs in and out, one who saves *)
(* single domains, one who saves and applies all of them, and one for the  *)
(* interfaces of each of several hosts.                                    *)
(***************************************************************************)
EXTENDS SaveApply

Users == {"alice", "bob"}
FourDomains == {"IP", "LB", "Firewall", "BFD"}
Cmd(op, provider, as, auth) ==
  [op |-> op, provider |-> provider, as |-> as, auth |-> auth, what |-> {}, api |-> FALSE,
   path |-> FALSE, intf |-> None, route |-> FALSE]
Save(what)  == [Cmd("save", "password", "alice", "alice") EXCEPT !.what = what]
Apply(what) == [Cmd("apply", "password", "alice", "alice") EXCEPT !.what = what]

LoginMenu ==
  [commands |->
     {Cmd("login", "password", u, "session") : u \in Users}
       \cup {Cmd("login", p, "alice", "session") : p \in {"google", "manual", "github"}}
       \cup {Cmd("login", "password", "bob", a) : a \in {"alice", "unusable --token-file"}}
       \cup {Cmd("logout", p, "alice", "session") : p \in {"password", "google", "manual"}}
       \cup {Cmd("refresh", p, "alice", "session") : p \in {"password", "google"}}
       \cup {[Save({"LB"}) EXCEPT !.auth = "session"]},
   runs |-> 3, live |-> {}, topologies |-> {<<>>}]

SaveMenu ==
  [commands |->
     {Save(w) : w \in {{}, {"LB"}, {"Firewall"}, {"BFD"}, {"LB", "BFD"}}}
       \cup {[Save(w) EXCEPT !.api = TRUE] : w \in {{}, {"LB"}}}
       \cup {Apply(w) : w \in {{}, {"LB", "BFD"}, {"Firewall", "IP"}}},
   runs |-> 3, live |-> {"alice"}, topologies |-> {<<>>}]
AllMenu ==
  [commands |-> {Save(FourDomains), Apply({"IP", "LB", "Firewall", "BFD"})},
   runs |-> 2, live |-> {"alice"}, topologies |-> {<<>>}]

Link(name, kind, on, master, routes) ==
  [name |-> name, kind |-> kind, on |-> on, local |-> kind = "vxlan", master |-> master,
   routes |-> routes]
Phy(name, master, routes) == Link(name, "phy", None, master, routes)
Via == {"gateway"}
Hosts ==
  <<<<Phy("e0", None, {"gateway", "direct"}), Link("e0.10", "vlan", "e0", "br", {}),
     Link("e0.20", "vlan", "e0", None, Via), Link("br", "bridge", None, None, {"gateway", "multipath"})>>,
   <<Phy("e0", "bond", {}), Phy("e1", "bond", {}), Link("bond", "bond", None, "br", {}),
     Link("br", "bridge", None, None, Via), Link("vx", "vxlan", "br", None, {})>>,
   <<Phy("e0", None, {"gateway", "multipath"}), Link("vx", "vxlan", "e0", "br", {}), Phy("e1", "br", {}),
     Link("br", "bridge", None, None, {})>>,
   <<Phy("e0", "bond", {}), Link("bond", "bond", None, None, {"direct"}),
     Link("bond.5", "vlan", "bond", None, {}), Link("vx", "vxlan", "bond.5", None, Via)>>,
   \* Not expressible: two things on one link, a VLAN on a bridge, routes of a
   \* member and of a VLAN on it, an empty bridge.
   <<Phy("e0", "br", {"gateway", "direct"}), Link("e0.3", "vlan", "e0", None, Via),
     Link("br", "bridge", None, None, {}), Link("br.7", "vlan", "br", None, {}),
     Link("vx", "vxlan", "e0", None, {}), Link("lone", "bridge", None, None, {})>>,
   \* Nor these: VXLANs on no link, without and with one above them and a
   \* VLAN, and one without a local address.
   <<Phy("e0", "br", {}), Link("vx0", "vxlan", None, "br", Via), Link("vx1", "vxlan", None, None, {"direct"}),
     Link("vx1.4", "vlan", "vx1", None, {}), Link("vx2", "vxlan", "vx1", None, {}),
     Link("br", "bridge", None, None, {}), [Link("vx3", "vxlan", "br", None, {}) EXCEPT !.local = FALSE]>>>>
HostMenu(host, bound, extra) ==
  [commands |-> {Save({"IP"})} \cup {[Apply({"intf"}) EXCEPT !.intf = l] : l \in Links(host)} \cup extra,
   runs |-> bound, live |-> {}, topologies |-> {host}]
Extra == {[Save({"IP"}) EXCEPT !.api = TRUE, !.path = TRUE],
          [Apply({"intf", "LB"}) EXCEPT !.intf = "e0", !.route = TRUE]}

\* Enough invocations to save and to apply every interface once.
AllMenus ==
  <<LoginMenu, SaveMenu, AllMenu, HostMenu(Hosts[5], 3, Extra), HostMenu(Hosts[6], 3, {})>>
    \o [i \in 1..4 |-> HostMenu(Hosts[i], Len(Hosts[i]) + 1, {})]
SmallConfig == [LB |-> {"plain", "rich", "managed"}, Firewall |-> {"plain"}, BFD |-> {"plain"}]

=============================================================================
