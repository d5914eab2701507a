--------------------------- MODULE InterfaceProof ---------------------------
(***************************************************************************)
(* The interfaces of a host, for every topology the kernel admits: apply   *)
(* makes nothing the host did not have, and of a topology the saved        *)
(* directory can express it brings everything back but the routes without  *)
(* a gateway, in any order of the interfaces.                              *)
(***************************************************************************)
EXTENDS SaveApplyProof, FiniteSetTheorems, WellFoundedInduction

-----------------------------------------------------------------------------
(***************************************************************************)
(* Lemmas about topologies and their dump.                                 *)
(***************************************************************************)

\* A set of natural numbers has a least element.
LEMMA Least ==
  ASSUME NEW T, T \subseteq Nat, T # {}
  PROVE  \E x \in T : \A y \in T : x <= y
<1> DEFINE R == OpToRel(<, Nat)
<1>1. IsWellFoundedOn(R, Nat)
  BY NatLessThanWellFounded, Zenon
<1>2. ASSUME NEW x \in Nat, NEW y \in Nat, y < x PROVE <<y, x>> \in R
  BY <1>2 DEF OpToRel
<1> HIDE DEF R
<1>3. PICK x \in T : \A y \in T : ~(<<y, x>> \in R)
  BY <1>1, WFMin, Zenon
<1>4. ASSUME NEW y \in T PROVE x <= y
  <2>1. x \in Nat /\ y \in Nat
    BY <1>3
  <2>2. ~(y < x)
    BY <1>2, <1>3, <2>1, Zenon
  <2> QED BY <2>1, <2>2
<1> QED BY <1>3, <1>4, Zenon

\* The entry of a link in its topology.
LEMMA LinkFacts ==
  ASSUME NEW t, Stacked(t), NEW l \in Links(t)
  PROVE  /\ Index(t, l) \in 1..Len(t) /\ Len(t) \in Nat
         /\ Of(t, l) = t[Index(t, l)] /\ Of(t, l).name = l /\ l # None
         /\ Of(t, l).kind \in Kinds /\ Of(t, l).routes \subseteq RouteKinds
<1>1. PICK i \in DOMAIN t : t[i].name = l
  BY DEF Links
<1>2. Index(t, l) \in DOMAIN t /\ t[Index(t, l)].name = l
  BY <1>1 DEF Index
<1>3. Of(t, l) = t[Index(t, l)]
  BY DEF Of, Index
<1>4. DOMAIN t = 1..Len(t) /\ Len(t) \in Nat
  BY DEF Stacked
<1>5. t[Index(t, l)].kind \in Kinds /\ t[Index(t, l)].routes \subseteq RouteKinds
  <2> DEFINE S == [name : STRING, kind : Kinds, on : STRING, local : BOOLEAN, master : STRING,
                   routes : SUBSET RouteKinds]
  <2>1. t \in Seq(S)
    BY DEF Stacked
  <2> HIDE DEF S
  <2>2. t[Index(t, l)] \in S
    BY <1>2, <1>4, <2>1
  <2> QED BY <2>2 DEF S
<1>6. l # None
  BY DEF Stacked
<1> QED BY <1>2, <1>3, <1>4, <1>5, <1>6

\* A link that is on another: a VLAN always, a VXLAN with an underlay device.
Stands(x) == x.kind = "vlan" \/ (x.kind = "vxlan" /\ x.on # None)

\* The heights of the links: a VLAN or VXLAN is above the link it is on, and a
\* bridge or bond above its members.
LEMMA Heights ==
  ASSUME NEW t, Stacked(t)
  PROVE  \E height \in [Links(t) -> Nat] : \A l \in Links(t) :
           /\ Stands(Of(t, l)) =>
                Of(t, l).on \in Links(t) /\ height[Of(t, l).on] < height[l]
           /\ Of(t, l).master # None =>
                /\ Of(t, l).master \in Links(t) /\ height[l] < height[Of(t, l).master]
                /\ Of(t, Of(t, l).master).kind \in {"bridge", "bond"}
<1>1. PICK height \in [Links(t) -> 1..Len(t)] : \A i \in DOMAIN t :
        /\ Stands(t[i]) =>
             t[i].on \in Links(t) /\ height[t[i].on] < height[t[i].name]
        /\ t[i].master # None =>
             /\ t[i].master \in Links(t) /\ height[t[i].name] < height[t[i].master]
             /\ Of(t, t[i].master).kind \in {"bridge", "bond"}
  BY Zenon DEF Stacked, Stands
<1>2. DOMAIN t = 1..Len(t) /\ Len(t) \in Nat
  BY DEF Stacked
<1>3. height \in [Links(t) -> Nat]
  BY <1>1, <1>2
<1>4. ASSUME NEW l \in Links(t)
      PROVE  /\ Stands(Of(t, l)) =>
                  Of(t, l).on \in Links(t) /\ height[Of(t, l).on] < height[l]
             /\ Of(t, l).master # None =>
                  /\ Of(t, l).master \in Links(t) /\ height[l] < height[Of(t, l).master]
                  /\ Of(t, Of(t, l).master).kind \in {"bridge", "bond"}
  <2>1. /\ Index(t, l) \in DOMAIN t /\ Of(t, l) = t[Index(t, l)]
        /\ t[Index(t, l)].name = l
    BY LinkFacts, <1>2
  <2> QED BY <1>1, <2>1, Zenon
<1> QED BY <1>3, <1>4, Zenon

\* What a host that has everything has.
LEMMA ItemFacts ==
  ASSUME NEW t, Stacked(t), NEW l
  PROVE  /\ Item(l, "link") \in Items(t) <=> l \in Links(t)
         /\ Item(l, "master") \in Items(t) <=> l \in Links(t) /\ Of(t, l).master # None
         /\ \A k \in RouteKinds :
              Item(l, k) \in Items(t) <=> l \in Links(t) /\ k \in Of(t, l).routes
<1>1. \A x, v, a, b : Item(x, a) = Item(v, b) <=> x = v /\ a = b
  BY DEF Item
<1>2. \A x \in Links(t) : Of(t, x).routes \subseteq RouteKinds
  BY LinkFacts
<1>3. "link" \notin RouteKinds /\ "master" \notin RouteKinds
  BY DEF RouteKinds
<1>4. \A a : Item(l, a) \in Items(t) <=>
              /\ l \in Links(t)
              /\ \/ a = "link" \/ (a = "master" /\ Of(t, l).master # None)
                 \/ a \in Of(t, l).routes
  BY <1>1 DEF Items
<1> QED BY <1>2, <1>3, <1>4

\* An item is a link, a membership or a route.
LEMMA ItemKinds ==
  ASSUME NEW t, Stacked(t), NEW i \in Items(t)
  PROVE  \E l \in Links(t) : \E what \in {"link", "master"} \cup RouteKinds : i = Item(l, what)
<1>1. \A x \in Links(t) : Of(t, x).routes \subseteq RouteKinds
  BY LinkFacts
<1> QED BY <1>1 DEF Items

\* The links an item set has.
LEMMA PresentFacts ==
  ASSUME NEW t, Stacked(t), NEW X, X \subseteq Items(t), NEW l
  PROVE  l \in Present(X) <=> Item(l, "link") \in X
<1>1. ASSUME NEW i \in X, i.what = "link", i.link = l PROVE Item(l, "link") \in X
  <2>1. PICK x \in Links(t), what \in {"link", "master"} \cup RouteKinds : i = Item(x, what)
    BY <1>1, ItemKinds
  <2> QED BY <1>1, <2>1 DEF Item
<1>2. Item(l, "link").what = "link" /\ Item(l, "link").link = l
  BY DEF Item
<1> QED BY <1>1, <1>2 DEF Present

\* What a host has are links of its topology.
LEMMA PresentLinks ==
  ASSUME NEW t, Stacked(t), NEW X, X \subseteq Items(t)
  PROVE  Present(X) \subseteq Links(t)
BY PresentFacts, ItemFacts

\* Links, memberships and routes over a gateway can be recovered.
LEMMA RecoverFacts ==
  ASSUME NEW t
  PROVE  /\ Recoverable(t) \subseteq Items(t) /\ Booted(t) \subseteq Recoverable(t)
         /\ \A l : \A what \in {"link", "master", "gateway"} :
              Item(l, what) \in Items(t) => Item(l, what) \in Recoverable(t)
<1>1. Recoverable(t) \subseteq Items(t)
  BY DEF Recoverable
<1>2. ASSUME NEW l, NEW what \in {"link", "master", "gateway"}, Item(l, what) \in Items(t)
      PROVE  Item(l, what) \in Recoverable(t)
  BY <1>2 DEF Recoverable, Item
<1>3. Booted(t) \subseteq Recoverable(t)
  BY <1>2 DEF Booted, Items
<1> QED BY <1>1, <1>2, <1>3

\* The turns of a dump are numbers, so of several writers one is the last.
LEMMA LastWriter ==
  ASSUME NEW t, Stacked(t), NEW W, W \subseteq Links(t), W # {}
  PROVE  \E w \in W : \A x \in W : Turn(t, x) <= Turn(t, w)
<1> DEFINE N == 3 * Len(t)
<1>1. \A x \in W : Turn(t, x) \in 1..N
  BY LinkFacts DEF Turn
<1>2. N \in Nat
  BY DEF Stacked
<1> HIDE DEF N
<1> DEFINE T == {N - Turn(t, x) : x \in W}
<1>3. T \subseteq Nat /\ T # {}
  BY <1>1, <1>2
<1>4. PICK y \in T : \A z \in T : y <= z
  BY <1>3, Least
<1>5. PICK w \in W : y = N - Turn(t, w)
  BY <1>4
<1>6. \A x \in W : N - Turn(t, w) <= N - Turn(t, x)
  BY <1>4, <1>5
<1>7. \A x \in W : Turn(t, x) <= Turn(t, w)
  BY <1>1, <1>2, <1>6
<1> QED BY <1>7

-----------------------------------------------------------------------------
(***************************************************************************)
(* What the directory of a host says, X being what the host had when it    *)
(* was dumped.                                                             *)
(***************************************************************************)

\* Where a link stands: above what it is on, below its master.
LEMMA Below ==
  ASSUME NEW t, Stacked(t), NEW l \in Links(t)
  PROVE  /\ Stands(Of(t, l)) => Of(t, l).on \in Links(t) /\ Of(t, l).on # l
         /\ Of(t, l).master # None => /\ Of(t, l).master \in Links(t)
                                      /\ Of(t, Of(t, l).master).kind \in {"bridge", "bond"}
<1>1. PICK height \in [Links(t) -> Nat] : \A x \in Links(t) :
        /\ Stands(Of(t, x)) =>
             Of(t, x).on \in Links(t) /\ height[Of(t, x).on] < height[x]
        /\ Of(t, x).master # None =>
             /\ Of(t, x).master \in Links(t) /\ height[x] < height[Of(t, x).master]
             /\ Of(t, Of(t, x).master).kind \in {"bridge", "bond"}
  BY Heights
<1>2. height[l] \in Nat /\ ~(height[l] < height[l])
  OBVIOUS
<1> QED BY <1>1, <1>2, Zenon

\* Those that write the master file of a link are the link itself, when it is
\* in a bridge or bond, and the VXLANs on it.
LEMMA WriterFacts ==
  ASSUME NEW t, Stacked(t), NEW X, X \subseteq Items(t), NEW l \in Present(X)
  PROVE  /\ MasterWriters(t, X, l) \subseteq Links(t)
         /\ VxlansOn(t, X, l) \subseteq Present(X) \ {l}
         /\ l \in MasterWriters(t, X, l) <=> WritesMaster(t, X, l)
         /\ \A v \in MasterWriters(t, X, l) : v # l =>
              v \in Present(X) /\ Of(t, v).kind = "vxlan" /\ Of(t, v).on = l
<1>1. Present(X) \subseteq Links(t)
  BY PresentLinks
<1>2. VxlansOn(t, X, l) \subseteq Present(X) \ {l}
  BY <1>1, Below, LinkFacts DEF VxlansOn, Stands
<1> QED BY <1>1, <1>2 DEF MasterWriters, VxlansOn

\* The master file of a link names its bridge or bond, a VXLAN on it, or
\* nothing.
LEMMA MasterFile ==
  ASSUME NEW t, Stacked(t), NEW X, X \subseteq Items(t), NEW l \in Present(X)
  PROVE  LET m == dumpMaster(t, X, l)
             W == MasterWriters(t, X, l)
         IN \/ W = {} /\ m = [name |-> None, kind |-> None]
            \/ /\ l \in W /\ Of(t, l).master # None
               /\ m = [name |-> Of(t, l).master, kind |-> Of(t, Of(t, l).master).kind]
            \/ \E v \in W \ {l} : m = [name |-> v, kind |-> "vxlan"]
<1> DEFINE W == MasterWriters(t, X, l)
           last == CHOOSE w \in W : \A x \in W : Turn(t, x) <= Turn(t, w)
<1>1. dumpMaster(t, X, l) =
        IF W = {} THEN [name |-> None, kind |-> None]
        ELSE IF last = l THEN [name |-> Of(t, l).master, kind |-> Of(t, Of(t, l).master).kind]
        ELSE [name |-> last, kind |-> "vxlan"]
  BY Zenon DEF dumpMaster
<1>2. W # {} => last \in W
  <2> SUFFICES ASSUME W # {} PROVE last \in W
    OBVIOUS
  <2>1. W \subseteq Links(t)
    BY WriterFacts
  <2>2. \E w \in W : \A x \in W : Turn(t, x) <= Turn(t, w)
    BY <2>1, LastWriter
  <2> QED BY <2>2, Zenon
<1>3. l \in W => Of(t, l).master # None
  BY WriterFacts, ItemFacts DEF WritesMaster
<1> HIDE DEF W, last
<1> QED BY <1>1, <1>2, <1>3, Zenon DEF W

\* What the directory says of a link that has one.
LEMMA DirFacts ==
  ASSUME NEW t, NEW X, NEW l \in DOMAIN Nlpdump(t, X)
  PROVE  /\ l \in Present(X)
         /\ Nlpdump(t, X)[l].routes = AddRoute(X, l)
         /\ Nlpdump(t, X)[l].local = Of(t, l).local
         /\ Nlpdump(t, X)[l].link.type = dumpType(t, X, l)
         /\ Nlpdump(t, X)[l].link.master = dumpMaster(t, X, l)
         /\ Nlpdump(t, X)[l].link.subintf = dumpSubIntf(t, X, l)
BY DEF Nlpdump, AddLink

\* The routes the directory brings back are those over a gateway.
LEMMA RouteFacts ==
  ASSUME NEW t, NEW X, NEW l \in DOMAIN Nlpdump(t, X)
  PROVE  addRoute(Nlpdump(t, X), l) = {Item(l, "gateway")} \cap X
<1>1. \A k : k \in AddRoute(X, l) \ {NilHop} <=> k = "gateway" /\ Item(l, "gateway") \in X
  BY DEF AddRoute, NilHop, RouteKinds
<1>2. Nlpdump(t, X)[l].routes = AddRoute(X, l)
  BY DirFacts
<1> QED BY <1>1, <1>2 DEF addRoute

\* An entry of the master file that names a bridge or bond is the link's own,
\* one that names a VXLAN is that of a VXLAN on it.
LEMMA MasterNames ==
  ASSUME NEW t, Stacked(t), NEW X, X \subseteq Items(t), NEW l \in Present(X)
  PROVE  LET m == dumpMaster(t, X, l)
         IN /\ m.kind \in {"bridge", "bond"} =>
                 /\ l \in MasterWriters(t, X, l) /\ m.name = Of(t, l).master
                 /\ Of(t, l).master # None /\ Of(t, l).master \in Links(t)
            /\ m.kind = "vxlan" => m.name \in MasterWriters(t, X, l) \ {l}
<1>1. l \in Links(t)
  BY PresentLinks
<1>2. CASE dumpMaster(t, X, l) = [name |-> None, kind |-> None]
  BY <1>2 DEF None
<1>3. CASE /\ l \in MasterWriters(t, X, l) /\ Of(t, l).master # None
           /\ dumpMaster(t, X, l) =
                [name |-> Of(t, l).master, kind |-> Of(t, Of(t, l).master).kind]
  BY <1>1, <1>3, Below
<1>4. CASE \E v \in MasterWriters(t, X, l) \ {l} :
             dumpMaster(t, X, l) = [name |-> v, kind |-> "vxlan"]
  BY <1>4
<1> QED BY <1>2, <1>3, <1>4, MasterFile

\* Applying a directory to an interface makes nothing the host did not have, and
\* no route without a gateway.
LEMMA ApplySound ==
  ASSUME NEW t, Stacked(t), NEW X, X \subseteq Items(t), NEW R,
         NEW l \in DOMAIN Nlpdump(t, X)
  PROVE  /\ ApplyIpConfigPerInterface(Nlpdump(t, X), l, R) \subseteq R \cup Recoverable(t)
         /\ R \cup addRoute(Nlpdump(t, X), l) \subseteq R \cup Recoverable(t)
<1> DEFINE dir == Nlpdump(t, X)
           m   == dumpMaster(t, X, l)
           RR  == Recoverable(t)
<1>1. l \in Present(X) /\ l \in Links(t) /\ Present(X) \subseteq Links(t)
  BY PresentLinks, DirFacts
<1>2. m.kind \in {"bridge", "bond"} =>
        {Item(m.name, "link"), Item(l, "master")} \subseteq RR
  BY <1>1, MasterNames, ItemFacts, RecoverFacts
<1>3. m.kind = "vxlan" => Item(m.name, "link") \in RR
  BY <1>1, MasterNames, WriterFacts, ItemFacts, RecoverFacts
<1>4. addRoute(dir, l) \subseteq RR
  BY RouteFacts, RecoverFacts
<1>5. addSubIntf(dir, l) \subseteq RR
  BY <1>1, DirFacts, ItemFacts, RecoverFacts DEF addSubIntf, dumpSubIntf
<1>6. dir[l].link.master = m
  BY DirFacts
<1> HIDE DEF dir, m, RR
<1>7. ApplyToMissing(dir, l) \subseteq RR
  BY <1>2, <1>6 DEF ApplyToMissing
<1>8. ASSUME NEW S, S \subseteq R \cup RR PROVE addMaster(dir, l, S) \subseteq R \cup RR
  BY <1>2, <1>3, <1>6, <1>8 DEF addMaster
<1> QED BY <1>4, <1>5, <1>7, <1>8 DEF ApplyIpConfigPerInterface, dir, RR

\* A topology the directory can express loses nothing by it: the routes that
\* go down with a member are none.
LEMMA ApplyGrows ==
  ASSUME NEW t, Stacked(t), Expressible(t), NEW X, X \subseteq Items(t),
         NEW R, R \subseteq Items(t), NEW l \in DOMAIN Nlpdump(t, X)
  PROVE  R \subseteq ApplyIpConfigPerInterface(Nlpdump(t, X), l, R)
<1> DEFINE dir == Nlpdump(t, X)
           m   == dumpMaster(t, X, l)
<1>1. l \in Present(X) /\ l \in Links(t) /\ Present(X) \subseteq Links(t)
  BY PresentLinks, DirFacts
<1>2. dir[l].link.master = m /\ dir[l].link.subintf = dumpSubIntf(t, X, l)
  BY DirFacts
<1>3. m.kind \in {"bridge", "bond"} => Flushed(dir, l) \cap Items(t) = {}
  <2> SUFFICES ASSUME m.kind \in {"bridge", "bond"}, NEW x \in {l} \cup dir[l].link.subintf,
                      NEW k \in RouteKinds
               PROVE  Item(x, k) \notin Items(t)
    BY DEF Flushed
  <2>1. Of(t, l).master # None
    BY <1>1, MasterNames
  <2>2. CASE x = l
    BY <1>1, <2>1, <2>2, ItemFacts DEF Expressible
  <2>3. CASE x \in dumpSubIntf(t, X, l)
    <3>1. x \in Links(t) /\ Of(t, x).kind = "vlan" /\ Of(t, x).on = l
      BY <1>1, <2>3 DEF dumpSubIntf
    <3> QED BY <2>1, <3>1, ItemFacts DEF Expressible
  <2> QED BY <1>2, <2>2, <2>3
<1>4. ASSUME NEW S, R \subseteq S PROVE R \subseteq addMaster(dir, l, S)
  BY <1>2, <1>3, <1>4 DEF addMaster
<1> HIDE DEF dir
<1> QED BY <1>4 DEF ApplyIpConfigPerInterface, dir

-----------------------------------------------------------------------------
(***************************************************************************)
(* Bringing a topology back.                                               *)
(***************************************************************************)

\* What applying the directory of a whole host to a link leaves behind: the
\* link's routes over a gateway, its bridge or bond, and the VLANs and VXLANs on it.
Mended(t, R, l) ==
  /\ "gateway" \in Of(t, l).routes => Item(l, "gateway") \in R
  /\ Of(t, l).master # None => Item(l, "master") \in R /\ Item(Of(t, l).master, "link") \in R
  /\ \A v \in Links(t) :
       Of(t, v).kind \in {"vlan", "vxlan"} /\ Of(t, v).on = l => Item(v, "link") \in R

\* A host that has everything has every link.
LEMMA PresentAll ==
  ASSUME NEW t, Stacked(t) PROVE Present(Items(t)) = Links(t)
BY PresentFacts, ItemFacts

\* A topology has finitely many links.
LEMMA LinksFinite ==
  ASSUME NEW t, Stacked(t) PROVE IsFiniteSet(Links(t))
<1> DEFINE f == [i \in 1..Len(t) |-> t[i].name]
<1>1. DOMAIN t = 1..Len(t) /\ Len(t) \in Nat
  BY DEF Stacked
<1>2. f \in Surjection(1..Len(t), Links(t))
  BY <1>1 DEF Surjection, Links
<1>3. IsFiniteSet(1..Len(t))
  BY <1>1, FS_Interval
<1> QED BY <1>2, <1>3, FS_Surjection

\* Of a set of at most one.
LEMMA AtMostOne ==
  ASSUME NEW W, IsFiniteSet(W), Cardinality(W) <= 1, NEW x \in W, NEW y \in W
  PROVE  x = y
<1>1. IsFiniteSet(W \ {x}) /\ Cardinality(W \ {x}) = Cardinality(W) - 1
  BY FS_RemoveElement
<1>2. Cardinality(W) \in Nat /\ Cardinality(W \ {x}) \in Nat
  BY <1>1, FS_CardinalityType
<1>3. W \ {x} = {}
  BY <1>1, <1>2, FS_EmptySet
<1> QED BY <1>3

\* What hangs on a link of an expressible topology fits its master file.
LEMMA OneWriter ==
  ASSUME NEW t, Stacked(t), Expressible(t), NEW l \in Links(t),
         NEW x \in MasterWriters(t, Items(t), l)
  PROVE  MasterWriters(t, Items(t), l) = {x}
<1> DEFINE W == MasterWriters(t, Items(t), l)
<1>1. W \subseteq Links(t)
  BY WriterFacts, PresentAll
<1>2. IsFiniteSet(W)
  BY <1>1, LinksFinite, FS_Subset
<1>3. Cardinality(W) <= 1
  BY DEF Expressible
<1> QED BY <1>2, <1>3, AtMostOne

\* The directory of a whole host has the VLANs of a link of an expressible
\* topology, and a type that brings them back.
LEMMA VlanFile ==
  ASSUME NEW t, Stacked(t), Expressible(t), NEW l \in Links(t), NEW v \in Links(t),
         Of(t, v).kind = "vlan", Of(t, v).on = l
  PROVE  /\ v \in dumpSubIntf(t, Items(t), l)
         /\ dumpType(t, Items(t), l) \in {"phy", "bond", "vlan"}
<1>1. Of(t, l).kind \in {"phy", "bond"} /\ Index(t, l) < Index(t, v)
  BY DEF Expressible
<1>2. /\ Index(t, l) \in 1..Len(t) /\ Index(t, v) \in 1..Len(t) /\ Len(t) \in Nat
  BY LinkFacts
<1>3. Turn(t, l) < Turn(t, v)
  BY <1>1, <1>2 DEF Turn
<1>4. l \in DirWriters(t, Items(t), l)
  BY <1>1 DEF DirWriters, Baseless
<1>5. v \in dumpSubIntf(t, Items(t), l)
  BY <1>3, <1>4, PresentAll DEF dumpSubIntf
<1> QED BY <1>1, <1>5 DEF dumpType

\* Every link of an expressible topology has a directory.
LEMMA DirAll ==
  ASSUME NEW t, Stacked(t), Expressible(t) PROVE DOMAIN Nlpdump(t, Items(t)) = Links(t)
<1>1. ASSUME NEW l \in Links(t) PROVE DirWriters(t, Items(t), l) # {}
  <2>1. ~Baseless(t, l)
    BY DEF Expressible, Baseless
  <2> QED BY <2>1 DEF DirWriters
<1> QED BY <1>1, PresentAll DEF Nlpdump

\* Applying the directory of a whole host to an interface that is there mends it
\* (ApplyIpConfigPerInterface in apply.go).
LEMMA ApplyMends ==
  ASSUME NEW t, Stacked(t), Expressible(t), NEW R, R \subseteq Items(t), NEW l \in Present(R)
  PROVE  Mended(t, ApplyIpConfigPerInterface(Nlpdump(t, Items(t)), l, R), l)
<1> DEFINE X   == Items(t)
           dir == Nlpdump(t, X)
           m   == dumpMaster(t, X, l)
           S   == R \cup addRoute(dir, l) \cup addSubIntf(dir, l)
           A   == addMaster(dir, l, S)
<1>1. l \in Links(t) /\ Present(X) = Links(t)
  BY PresentLinks, PresentAll
<1>2. /\ DOMAIN dir = Links(t) /\ addRoute(dir, l) = {Item(l, "gateway")} \cap X
      /\ dir[l].link.type = dumpType(t, X, l) /\ dir[l].link.master = m
      /\ dir[l].link.subintf = dumpSubIntf(t, X, l)
  BY <1>1, DirAll, DirFacts, RouteFacts
<1>3. ApplyIpConfigPerInterface(dir, l, R) = A
  BY DEF ApplyIpConfigPerInterface
<1>4. \A x, w, a, b : Item(x, a) = Item(w, b) <=> x = w /\ a = b
  BY DEF Item
<1>5. "gateway" \in Of(t, l).routes => Item(l, "gateway") \in A
  <2> SUFFICES ASSUME "gateway" \in Of(t, l).routes PROVE Item(l, "gateway") \in A
    OBVIOUS
  <2>1. Item(l, "gateway") \in S
    BY <1>1, <1>2, ItemFacts DEF RouteKinds
  <2>2. m.kind \notin {"bridge", "bond"}
    BY <1>1, MasterNames DEF Expressible
  <2> HIDE DEF S
  <2> QED BY <1>2, <2>1, <2>2 DEF addMaster
<1>6. Of(t, l).master # None => Item(l, "master") \in A /\ Item(Of(t, l).master, "link") \in A
  <2> SUFFICES ASSUME Of(t, l).master # None
               PROVE  Item(l, "master") \in A /\ Item(Of(t, l).master, "link") \in A
    OBVIOUS
  <2>0. WritesMaster(t, X, l)
    BY <1>1, ItemFacts DEF WritesMaster, Expressible, Baseless
  <2>1. MasterWriters(t, X, l) = {l}
    BY <1>1, <2>0, WriterFacts, OneWriter
  <2>2. m = [name |-> Of(t, l).master, kind |-> Of(t, Of(t, l).master).kind]
    BY <1>1, <2>1, MasterFile
  <2>3. m.kind \in {"bridge", "bond"} /\ m.name = Of(t, l).master
    BY <1>1, <2>2, Below
  <2> HIDE DEF S
  <2> QED BY <1>2, <2>3 DEF addMaster
<1>7. ASSUME NEW v \in Links(t), Of(t, v).kind = "vlan", Of(t, v).on = l
      PROVE  Item(v, "link") \in A
  <2>1. Item(v, "link") \in S
    BY <1>1, <1>2, <1>7, VlanFile DEF addSubIntf
  <2>2. Item(v, "link") \notin Flushed(dir, l)
    BY <1>4 DEF Flushed, RouteKinds
  <2> HIDE DEF S
  <2> QED BY <1>2, <2>1, <2>2 DEF addMaster
<1>8. ASSUME NEW v \in Links(t), Of(t, v).kind = "vxlan", Of(t, v).on = l
      PROVE  Item(v, "link") \in A
  <2>0. Stands(Of(t, v)) /\ Of(t, v).local
    BY <1>8 DEF Expressible, Stands
  <2>1. v \in MasterWriters(t, X, l) /\ v # l
    BY <1>1, <1>8, <2>0, Below DEF MasterWriters, VxlansOn
  <2>2. MasterWriters(t, X, l) = {v}
    BY <1>1, <2>1, OneWriter
  <2>3. m = [name |-> v, kind |-> "vxlan"]
    BY <1>1, <2>1, <2>2, MasterFile
  <2>4. v \in DOMAIN dir /\ dir[v].local
    BY <1>2, <1>8, <2>0, DirFacts
  <2> HIDE DEF S, m, dir
  <2> QED BY <1>2, <2>3, <2>4 DEF addMaster
<1> HIDE DEF A, dir
<1> QED BY <1>3, <1>5, <1>6, <1>7, <1>8 DEF Mended, dir

\* What is mended stays so.
LEMMA MendedGrows ==
  ASSUME NEW t, NEW R, NEW S, R \subseteq S, NEW l, Mended(t, R, l)
  PROVE  Mended(t, S, l)
BY DEF Mended

\* A host whose every interface was applied has what can be recovered: a missing
\* link of least height is on an interface that is there, or has a member that is.
LEMMA AllMended ==
  ASSUME NEW t, Stacked(t), Expressible(t), NEW R, R \subseteq Items(t), Booted(t) \subseteq R,
         \A l \in Present(R) : Mended(t, R, l)
  PROVE  Recoverable(t) \subseteq R
<1>1. PICK height \in [Links(t) -> Nat] : \A x \in Links(t) :
        /\ Stands(Of(t, x)) =>
             Of(t, x).on \in Links(t) /\ height[Of(t, x).on] < height[x]
        /\ Of(t, x).master # None =>
             /\ Of(t, x).master \in Links(t) /\ height[x] < height[Of(t, x).master]
             /\ Of(t, Of(t, x).master).kind \in {"bridge", "bond"}
  BY Heights
<1>2. ASSUME NEW l \in Links(t), \A x \in Links(t) : height[x] < height[l] => x \in Present(R)
      PROVE  l \in Present(R)
  <2>1. CASE Of(t, l).kind = "phy"
    BY <2>1, PresentFacts DEF Booted
  <2>2. CASE Of(t, l).kind \in {"vlan", "vxlan"}
    <3>1. Stands(Of(t, l))
      BY <2>2 DEF Expressible, Stands
    <3> QED BY <1>1, <1>2, <2>2, <3>1, PresentFacts DEF Mended
  <2>3. CASE Of(t, l).kind \in {"bridge", "bond"}
    <3>1. PICK x \in Links(t) : Of(t, x).master = l
      BY <2>3 DEF Expressible
    <3>2. l # None
      BY LinkFacts
    <3> QED BY <1>1, <1>2, <3>1, <3>2, PresentFacts DEF Mended
  <2> QED BY <2>1, <2>2, <2>3, LinkFacts DEF Kinds
<1>3. Links(t) \subseteq Present(R)
  <2> SUFFICES ASSUME NEW l \in Links(t) \ Present(R) PROVE FALSE
    OBVIOUS
  <2> DEFINE T == {height[x] : x \in Links(t) \ Present(R)}
  <2>1. PICK h \in T : \A y \in T : h <= y
    <3>1. T \subseteq Nat /\ T # {}
      OBVIOUS
    <3> QED BY <3>1, Least
  <2>2. PICK x \in Links(t) \ Present(R) : h = height[x]
    BY <2>1
  <2>3. ASSUME NEW y \in Links(t), height[y] < height[x] PROVE y \in Present(R)
    BY <2>1, <2>2, <2>3
  <2> QED BY <1>2, <2>2, <2>3
<1>4. ASSUME NEW i \in Recoverable(t) PROVE i \in R
  <2>0. i \in Items(t) /\ i.what \notin {"direct", "multipath"}
    BY DEF Recoverable
  <2>1. PICK l \in Links(t), what \in {"link", "master", "gateway"} : i = Item(l, what)
    BY <2>0, ItemKinds DEF RouteKinds, Item
  <2>2. Mended(t, R, l) /\ Item(l, "link") \in R
    BY <1>3, PresentFacts
  <2> QED BY <2>0, <2>1, <2>2, ItemFacts DEF Mended, RouteKinds
<1> QED BY <1>4

-----------------------------------------------------------------------------
(***************************************************************************)
(* What a step may do to the saved files, and what it may do to the host.  *)
(***************************************************************************)

\* The host stays as it is; a saved file is removed, cut short or replaced by
\* the dump in progress, a dump is taken of what there is.
FilesChange ==
  /\ UNCHANGED world
  /\ \A d \in Domains :
       /\ cur'[d] \in {cur[d], Absent, Cut} \/ (pc = "copying" /\ Dumping = d /\ cur'[d] = tmp)
       /\ bak'[d] \in {bak[d], Absent, Cut, cur[d]}
  /\ pc' \in Replacing =>
       \/ pc \in Replacing /\ UNCHANGED <<tmp, list>>
       \/ tmp' = DumpOf(Dumping) /\ UNCHANGED list
       \/ tmp' = Cut
       \/ tmp' = Nothing /\ Dumping' # "IP"

\* The files stay as they are; one interface is applied, or its routes.
HostChange ==
  /\ UNCHANGED <<topo, restarted, cur, bak>> /\ pc' \notin Replacing
  /\ \/ running'["IP"] = running["IP"] /\ UNCHANGED applied
     \/ /\ cur["IP"].state = "whole"
        /\ \E l \in DOMAIN cur["IP"].data :
             \/ /\ running'["IP"] = ApplyIpConfigPerInterface(cur["IP"].data, l, running["IP"])
                /\ applied' = applied \cup ({l} \cap Present(running["IP"]))
             \/ /\ running'["IP"] = running["IP"] \cup addRoute(cur["IP"].data, l)
                /\ UNCHANGED applied

\* A step that leaves files and host alone.
LEMMA NoChange ==
  ASSUME UNCHANGED <<world, files, list>>, UNCHANGED pc \/ pc' \notin Replacing
  PROVE  FilesChange
BY DEF FilesChange, files

\* Save changes files only.
LEMMA SaveChanges == ASSUME PhaseInv, CopyInv, SaveStep PROVE FilesChange
<1>1. pc \in Replacing => list # << >> /\ Dumping \in Domains
  BY DEF CopyInv, Saving, Replacing, Dumping
<1>2. IsMap(cur) /\ IsMap(bak)
  BY DEF CopyInv
<1>3. CASE runSave \/ EndSave
  BY <1>3, SaveSteps DEF runSave, EndSave, Persist, Goto, End, FilesChange, files, Replacing
<1>4. CASE Fetch
  <2>1. UNCHANGED <<world, cur, bak>> /\ pc = "save"
    BY <1>4 DEF Fetch
  <2>2. pc' \in Replacing =>
          /\ UNCHANGED list
          /\ tmp' \in {DumpOf(Dumping), Cut} \/ (tmp' = Nothing /\ Dumping # "IP")
    BY <1>4 DEF Fetch, Fetched, RefusedDump, Undecodable, Fail, End, Goto, Replacing
  <2> QED BY <2>1, <2>2 DEF FilesChange, Dumping
<1>5. CASE RemoveBackup
  <2>1. UNCHANGED <<world, cur, tmp, list>> /\ pc = "remove"
    BY <1>5 DEF RemoveBackup
  <2>2. \A d \in Domains : bak'[d] \in {bak[d], Absent, Cut}
    BY <1>2, <1>5 DEF RemoveBackup, IsMap
  <2> QED BY <2>1, <2>2 DEF FilesChange, Replacing
<1>6. CASE Move
  <2>1. UNCHANGED world /\ pc = "move"
    BY <1>6 DEF Move
  <2>2. pc' \in Replacing => UNCHANGED <<tmp, list>>
    BY <1>6 DEF Move, Fail, End, Replacing
  <2>3. \A d \in Domains : cur'[d] \in {cur[d], Absent} /\ bak'[d] \in {bak[d], cur[d]}
    BY <1>1, <1>2, <1>6 DEF Move, IsMap, Replacing
  <2> QED BY <2>1, <2>2, <2>3 DEF FilesChange, Replacing
<1>7. CASE Copy
  <2>1. UNCHANGED <<world, bak, tmp, list>> /\ pc = "copy"
    BY <1>7 DEF Copy
  <2>2. \A d \in Domains : cur'[d] \in {cur[d], Cut}
    BY <1>2, <1>7 DEF Copy, IsMap
  <2> QED BY <2>1, <2>2 DEF FilesChange, Replacing
<1>8. CASE CopyDone
  <2>1. UNCHANGED <<world, bak>> /\ pc = "copying" /\ pc' = "save"
    BY <1>8 DEF CopyDone, Goto
  <2>2. \A d \in Domains : cur'[d] = cur[d] \/ (Dumping = d /\ cur'[d] = tmp)
    BY <1>2, <1>8 DEF CopyDone, IsMap
  <2> QED BY <2>1, <2>2 DEF FilesChange, Replacing
<1>9. CASE CopyFails
  BY <1>9 DEF CopyFails, Fail, End, FilesChange, Replacing
<1> QED BY <1>3, <1>4, <1>5, <1>6, <1>7, <1>8, <1>9 DEF SaveStep

\* Apply changes the gateway and the host only.
LEMMA ApplyChanges == ASSUME PhaseInv, RoundInv, ApplyStep PROVE HostChange
<1>1. pc' \notin Replacing
  BY ApplySteps DEF Applying, Replacing
<1>2. "IP" \in Domains /\ IsMap(running)
  BY DomainsAssumption DEF RoundInv
<1>3. CASE ApplyCmd \/ EndApply \/ OpenDump \/ EndDomain
  BY <1>1, <1>3 DEF ApplyCmd, EndApply, OpenDump, EndDomain, world, files, HostChange
<1>4. CASE ApplyPerInterface
  <2>1. UNCHANGED <<topo, restarted, cur, bak>>
    BY <1>4 DEF ApplyPerInterface, files
  <2>2. CASE cmd.intf \notin DOMAIN Directory
    BY <1>1, <1>4, <2>1, <2>2 DEF ApplyPerInterface, HostChange
  <2>3. CASE cmd.intf \in DOMAIN Directory
    <3>1. cur["IP"].state = "whole" /\ Directory = cur["IP"].data
      BY <2>3 DEF Directory
    <3>2. running'["IP"] =
            IF ~cmd.route THEN ApplyIpConfigPerInterface(Directory, cmd.intf, running["IP"])
            ELSE IF cmd.intf \in Present(running["IP"])
                 THEN running["IP"] \cup addRoute(Directory, cmd.intf) ELSE running["IP"]
      BY <1>2, <1>4, <2>3 DEF ApplyPerInterface, IsMap
    <3>3. applied' = IF cmd.route THEN applied
                     ELSE applied \cup ({cmd.intf} \cap Present(running["IP"]))
      BY <1>4, <2>3 DEF ApplyPerInterface
    <3> QED BY <1>1, <2>1, <2>3, <3>1, <3>2, <3>3 DEF HostChange
  <2> QED BY <2>2, <2>3
<1>5. CASE PostRule
  <2>1. UNCHANGED <<topo, restarted, cur, bak, applied>>
    BY <1>5 DEF PostRule, files
  <2>2. Dumping # "IP"
    BY <1>5 DEF PostRule, RoundInv, ApplyInv, Ruled
  <2>3. running'["IP"] = running["IP"]
    BY <1>2, <1>5, <2>2 DEF PostRule, Add, IsMap
  <2> QED BY <1>1, <2>1, <2>3 DEF HostChange
<1> QED BY <1>3, <1>4, <1>5 DEF ApplyStep

\* Every step is one of these, or a restart.
LEMMA Changes ==
  ASSUME PhaseInv, CopyInv, RoundInv, [Next]_vars
  PROVE  FilesChange \/ HostChange \/ Restart
<1>1. CASE SaveStep
  BY <1>1, SaveChanges
<1>2. CASE ApplyStep
  BY <1>2, ApplyChanges
<1>3. CASE Kill
  BY <1>3 DEF Kill, KillSession, End, FilesChange, Replacing
<1>4. CASE OfSession /\ UNCHANGED <<world, files, list, left>>
  <2>1. pc' \notin Replacing
    BY <1>4, SessionSteps DEF Writing, Replacing
  <2> QED BY <1>4, <2>1, NoChange
<1>5. CASE (Invoke \/ Expire) /\ UNCHANGED <<world, files, list, left>>
  BY <1>5, NoChange DEF Invoke, Expire, Replacing
<1>6. CASE UNCHANGED vars
  BY <1>6, NoChange DEF vars
<1> QED BY <1>1, <1>2, <1>3, <1>4, <1>5, <1>6, Steps

-----------------------------------------------------------------------------
(***************************************************************************)
(* The host                                                                *)
(***************************************************************************)

\* A directory that is whole is the dump of something the host had.
Sound(c) ==
  c.state = "whole" => c.real /\ c.of \subseteq Items(topo) /\ c.data = Nlpdump(topo, c.of)

\* The host never has an interface, a membership or a route that its topology
\* does not have, nor, once restarted, one that cannot be recovered.
HostInv ==
  /\ Stacked(topo) /\ running["IP"] \subseteq Items(topo) /\ applied \subseteq Links(topo)
  /\ restarted => running["IP"] \subseteq Recoverable(topo)
  /\ Sound(cur["IP"])
  /\ pc \in Replacing /\ Dumping = "IP" => Sound(tmp)

\* A directory of the whole host is taken of one that is whole; after a
\* restart, the host is whole again or every interface applied is mended.
Whole   == running["IP"] = Items(topo)
Full(c) == Good(c) /\ c.of = Items(topo)
MendInv ==
  restarted /\ Expressible(topo) =>
    /\ Booted(topo) \subseteq running["IP"]
    /\ pc \in Replacing /\ Dumping = "IP" /\ Full(tmp) => Whole
    /\ Full(cur["IP"]) => Whole \/ \A l \in applied : Mended(topo, running["IP"], l)

\* What is absent or cut short is no dump.
LEMMA Unsound == Absent.state # "whole" /\ Cut.state # "whole" /\ ~Good(Absent) /\ ~Good(Cut)
<1>1. Absent.state # "whole" /\ Cut.state # "whole"
  BY DEF Absent, Cut, Content
<1> QED BY <1>1, GoodFacts

\* The host starts whole, with nothing saved.
LEMMA HostInit == Init => HostInv /\ MendInv
<1> SUFFICES ASSUME Init PROVE HostInv /\ MendInv
  OBVIOUS
<1>1. menu \in DOMAIN Menus /\ topo \in Menus[menu].topologies /\ pc = "idle"
  BY DEF Init, InitSession
<1>2. Stacked(topo)
  BY <1>1, HostsAssumption
<1>3. running["IP"] = Items(topo) /\ cur["IP"] = Absent
  BY DomainsAssumption DEF Init
<1>4. Sound(cur["IP"])
  BY <1>3, Unsound DEF Sound
<1>5. applied = {} /\ ~restarted
  BY DEF Init
<1> QED BY <1>1, <1>2, <1>3, <1>4, <1>5 DEF HostInv, MendInv, Replacing

\* A dump of the IP domain is of what the host has.
LEMMA SoundFacts ==
  ASSUME running["IP"] \subseteq Items(topo)
  PROVE  /\ Sound(Absent) /\ Sound(Cut) /\ Sound(DumpOf("IP"))
         /\ DumpOf("IP").of = running["IP"] /\ ~Good(Absent) /\ ~Good(Cut)
<1>1. Sound(Absent) /\ Sound(Cut) /\ ~Good(Absent) /\ ~Good(Cut)
  BY Unsound DEF Sound
<1>2. DumpOf("IP") = [state |-> "whole", data |-> Nlpdump(topo, running["IP"]),
                      of |-> running["IP"], real |-> TRUE]
  BY DEF DumpOf, Content, Listed
<1> QED BY <1>1, <1>2 DEF Sound

\* What save may do to the files keeps the invariants of the host.
LEMMA HostFiles == ASSUME HostInv, MendInv, FilesChange PROVE HostInv' /\ MendInv'
<1>1. UNCHANGED <<running, topo, restarted, applied>>
  BY DEF FilesChange, world
<1>2. \A c : (Sound(c) => Sound(c)') /\ (Full(c)' <=> Full(c))
  BY <1>1 DEF Sound, Full
<1>3. \/ cur'["IP"] \in {cur["IP"], Absent, Cut}
      \/ pc = "copying" /\ Dumping = "IP" /\ cur'["IP"] = tmp
  BY DomainsAssumption DEF FilesChange
<1>4. pc' \in Replacing /\ Dumping' = "IP" =>
        \/ pc \in Replacing /\ Dumping = "IP" /\ tmp' = tmp
        \/ tmp' \in {DumpOf("IP"), Cut}
  BY DEF FilesChange, Dumping
<1>5. running["IP"] \subseteq Items(topo)
  BY DEF HostInv
<1>6. Sound(cur["IP"])'
  <2>1. Sound(cur'["IP"])
    BY <1>3, <1>5, SoundFacts DEF HostInv, Replacing
  <2> QED BY <1>1, <2>1 DEF Sound
<1>7. pc' \in Replacing /\ Dumping' = "IP" => Sound(tmp)'
  <2>1. pc' \in Replacing /\ Dumping' = "IP" => Sound(tmp')
    BY <1>4, <1>5, SoundFacts DEF HostInv
  <2> QED BY <1>1, <2>1 DEF Sound
<1>8. HostInv'
  BY <1>1, <1>6, <1>7 DEF HostInv
<1>9. ASSUME restarted, Expressible(topo)
      PROVE  /\ pc' \in Replacing /\ Dumping' = "IP" /\ Full(tmp') => Whole
             /\ Full(cur'["IP"]) => Whole \/ \A l \in applied : Mended(topo, running["IP"], l)
  BY <1>3, <1>4, <1>5, <1>9, SoundFacts DEF MendInv, Full, Whole, Replacing
<1>10. MendInv'
  BY <1>1, <1>9 DEF MendInv, Whole, Full
<1> QED BY <1>8, <1>10

\* Applying an interface, or its routes, keeps them too.
LEMMA HostApplies == ASSUME HostInv, MendInv, HostChange PROVE HostInv' /\ MendInv'
<1> DEFINE R == running["IP"]
           Rn == running'["IP"]
           c == cur["IP"]
<1>1. UNCHANGED <<topo, restarted, cur>> /\ pc' \notin Replacing
  BY DEF HostChange
<1>2. Sound(cur["IP"])'
  BY <1>1 DEF HostInv, Sound
<1>3. Stacked(topo) /\ R \subseteq Items(topo)
  BY DEF HostInv
<1>4. CASE Rn = R /\ UNCHANGED applied
  BY <1>1, <1>2, <1>4 DEF HostInv, MendInv, Whole, Full
<1>5. ASSUME c.state = "whole", NEW l \in DOMAIN c.data,
             \/ /\ Rn = ApplyIpConfigPerInterface(c.data, l, R)
                /\ applied' = applied \cup ({l} \cap Present(R))
             \/ /\ Rn = R \cup addRoute(c.data, l) /\ UNCHANGED applied
      PROVE  HostInv' /\ MendInv'
  <2>1. c.of \subseteq Items(topo) /\ c.data = Nlpdump(topo, c.of)
    BY <1>5 DEF HostInv, Sound
  <2>2. l \in DOMAIN Nlpdump(topo, c.of)
    BY <1>5, <2>1
  <2>3. Rn \subseteq Items(topo) /\ (restarted => Rn \subseteq Recoverable(topo))
    <3>1. /\ ApplyIpConfigPerInterface(c.data, l, R) \subseteq R \cup Recoverable(topo)
          /\ R \cup addRoute(c.data, l) \subseteq R \cup Recoverable(topo)
      BY <1>3, <2>1, <2>2, ApplySound
    <3> QED BY <1>3, <1>5, <3>1, RecoverFacts DEF HostInv
  <2>4. applied' \subseteq Links(topo)
    BY <1>3, <1>5, PresentLinks DEF HostInv
  <2>5. HostInv'
    BY <1>1, <1>2, <1>3, <2>3, <2>4 DEF HostInv
  <2>6. ASSUME restarted, Expressible(topo)
        PROVE  /\ Booted(topo) \subseteq Rn
               /\ Full(c) => Rn = Items(topo) \/ \A x \in applied' : Mended(topo, Rn, x)
    <3>1. R \subseteq Rn
      BY <1>3, <1>5, <2>1, <2>2, <2>6, ApplyGrows
    <3>2. Booted(topo) \subseteq Rn
      BY <2>6, <3>1 DEF MendInv
    <3>3. Whole => Rn = Items(topo)
      BY <2>3, <3>1 DEF Whole
    <3>4. ASSUME Full(c), \A x \in applied : Mended(topo, R, x), NEW x \in applied'
          PROVE  Mended(topo, Rn, x)
      <4>1. CASE x \in applied
        BY <3>1, <3>4, <4>1, MendedGrows
      <4>2. CASE x \notin applied
        <5>1. x = l /\ l \in Present(R) /\ Rn = ApplyIpConfigPerInterface(c.data, l, R)
          BY <1>5, <3>4, <4>2
        <5>2. c.data = Nlpdump(topo, Items(topo))
          BY <2>1, <3>4 DEF Full
        <5> QED BY <1>3, <2>6, <5>1, <5>2, ApplyMends
      <4> QED BY <4>1, <4>2
    <3> QED BY <2>6, <3>2, <3>3, <3>4 DEF MendInv
  <2>7. MendInv'
    BY <1>1, <2>6 DEF MendInv, Whole, Full
  <2> QED BY <2>5, <2>7
<1> QED BY <1>4, <1>5 DEF HostChange

\* Every step does; a restart leaves what is booted, and nothing applied.
LEMMA HostStep ==
  PhaseInv /\ CopyInv /\ RoundInv /\ HostInv /\ MendInv /\ [Next]_vars => HostInv' /\ MendInv'
<1> SUFFICES ASSUME PhaseInv, CopyInv, RoundInv, HostInv, MendInv, [Next]_vars
             PROVE  HostInv' /\ MendInv'
  OBVIOUS
<1>1. CASE Restart
  <2>1. running'["IP"] = Booted(topo) /\ applied' = {} /\ pc' = "idle" /\ UNCHANGED <<topo, cur>>
    BY <1>1, DomainsAssumption DEF Restart, files
  <2>2. Sound(cur["IP"])'
    BY <2>1 DEF HostInv, Sound
  <2> QED BY <2>1, <2>2, RecoverFacts DEF HostInv, MendInv, Replacing
<1> QED BY <1>1, Changes, HostFiles, HostApplies

\* Every reachable state satisfies the inductive invariant of the host: in
\* particular, apply makes no interface, membership or route that the host did
\* not have (apply.go).
THEOREM HostInvariant == Spec => [](HostInv /\ MendInv)
<1> DEFINE Inv == PhaseInv /\ CopyInv /\ RoundInv /\ HostInv /\ MendInv
<1>1. Init => Inv
  BY PhaseInit, CopyInit, RoundInit, HostInit
<1>2. Inv /\ [Next]_vars => Inv'
  BY PhaseStep, CopyStep, RoundStep, HostStep
<1>3. Inv => HostInv /\ MendInv
  OBVIOUS
<1> HIDE DEF Inv
<1> QED BY <1>1, <1>2, <1>3, PTL DEF Spec

\* After a reboot, applying the saved directory to every interface that
\* exists, in any order, brings an expressible topology back, all but the
\* routes without a gateway or with several next hops, and nothing else
\* (get_netlink.go, apply.go).
THEOREM InterfacesBack == Spec => []InterfacesRoundTrip
<1>1. HostInv /\ MendInv => InterfacesRoundTrip
  <2> SUFFICES ASSUME HostInv, MendInv, restarted, Expressible(topo), Full(cur["IP"]),
                      Present(running["IP"]) \subseteq applied
               PROVE  running["IP"] = Recoverable(topo)
    BY DEF InterfacesRoundTrip, Full
  <2>1. Whole \/ \A l \in applied : Mended(topo, running["IP"], l)
    BY DEF MendInv
  <2>2. CASE \A l \in applied : Mended(topo, running["IP"], l)
    <3>1. \A l \in Present(running["IP"]) : Mended(topo, running["IP"], l)
      BY <2>2
    <3> QED BY <3>1, AllMended DEF HostInv, MendInv
  <2> QED BY <2>1, <2>2, RecoverFacts DEF Whole, HostInv
<1> QED BY <1>1, HostInvariant, PTL

-----------------------------------------------------------------------------
(***************************************************************************)
(* Types and exit codes                                                    *)
(***************************************************************************)

TokenInv ==
  /\ session \in {"absent"} \cup Typed /\ refresh \in {"absent"} \cup Typed
  /\ live \subseteq Accounts /\ tok \in Accounts \cup {NoToken}

\* An exit code is there exactly when no command runs.
ExitInv == exit \in Taxonomy \cup {Running, Killed} /\ (exit = Running <=> pc # "idle")

States == {"absent", "cut short", "whole"}
StateInv ==
  /\ \A d \in Domains : cur[d].state \in States /\ bak[d].state \in States
  /\ pc \in Replacing => tmp.state \in States

\* The contents a file may be given.
LEMMA StateFacts ==
  /\ Absent.state \in States /\ Cut.state \in States /\ Nothing.state \in States
  /\ \A d : DumpOf(d).state \in States
BY DEF Absent, Cut, Nothing, DumpOf, Content, States

\* At first every file is absent.
LEMMA StateInit == Init => StateInv
<1> SUFFICES ASSUME Init PROVE StateInv
  OBVIOUS
<1>1. pc = "idle" /\ cur = [d \in Domains |-> Absent] /\ bak = [d \in Domains |-> Absent]
  BY DEF Init, InitSession
<1> QED BY <1>1, StateFacts DEF StateInv, Replacing

\* Files stay absent, cut short or whole.
LEMMA StateStep ==
  PhaseInv /\ CopyInv /\ RoundInv /\ StateInv /\ [Next]_vars => StateInv'
<1> SUFFICES ASSUME PhaseInv, CopyInv, RoundInv, StateInv, [Next]_vars PROVE StateInv'
  OBVIOUS
<1>1. CASE FilesChange
  <2>1. \A d \in Domains : cur'[d].state \in States
    BY <1>1, StateFacts DEF FilesChange, StateInv, Replacing
  <2>2. \A d \in Domains : bak'[d].state \in States
    BY <1>1, StateFacts DEF FilesChange, StateInv
  <2>3. pc' \in Replacing => tmp'.state \in States
    BY <1>1, StateFacts DEF FilesChange, StateInv
  <2> QED BY <2>1, <2>2, <2>3 DEF StateInv
<1>2. CASE HostChange
  BY <1>2 DEF HostChange, StateInv
<1>3. CASE Restart
  BY <1>3 DEF Restart, files, StateInv, Replacing
<1> QED BY <1>1, <1>2, <1>3, Changes

\* At first there is no session, and no command runs.
LEMMA TokenInit == Init => TokenInv /\ ExitInv
<1> SUFFICES ASSUME Init PROVE TokenInv /\ ExitInv
  OBVIOUS
<1>1. /\ session = "absent" /\ refresh = "absent" /\ tok = NoToken /\ live \subseteq Accounts
      /\ exit = OK /\ pc = "idle"
  BY MenusAssumption DEF Init, InitSession
<1> QED BY <1>1 DEF TokenInv, ExitInv, Taxonomy, OK, Running

\* The token files take the values that are queued for them.
LEMMA Stored ==
  ASSUME TokenInv, NEW v \in {"absent"} \cup Typed, NEW f, Store(f, v)
  PROVE  session' \in {"absent"} \cup Typed /\ refresh' \in {"absent"} \cup Typed
BY DEF TokenInv, Store

\* What becomes of a command before it runs.
LEMMA PreRuns ==
  ASSUME PersistentPreRunE
  PROVE  /\ pc = "prerun"
         /\ \/ pc' = "idle" /\ exit' = Precondition /\ UNCHANGED tok
            \/ /\ pc' = "run" /\ UNCHANGED exit
               /\ \/ tok' \in Accounts \cup {tok}
                  \/ tok' = session /\ session # "absent" /\ session # Blank
<1>1. pc = "prerun"
  BY Zenon DEF PersistentPreRunE
<1>2. CASE End(Precondition) /\ UNCHANGED tok
  BY <1>1, <1>2 DEF End
<1>3. CASE cmd.auth \in Accounts /\ tok' = cmd.auth /\ Goto("run")
  BY <1>1, <1>3 DEF Goto
<1>4. CASE CASE session = "absent" -> Goto("run") /\ UNCHANGED tok
             [] session = Blank    -> End(Precondition) /\ UNCHANGED tok
             [] OTHER              -> Goto("run") /\ tok' = session
  BY <1>1, <1>4 DEF Goto, End
<1> QED BY <1>2, <1>3, <1>4, Zenon DEF PersistentPreRunE

\* Token files and sessions keep their types: only a stored token is sent.
LEMMA TokenStep ==
  PhaseInv /\ LockoutInv /\ RoundInv /\ TokenInv /\ [Next]_vars => TokenInv'
<1> SUFFICES ASSUME PhaseInv, LockoutInv, RoundInv, TokenInv, [Next]_vars PROVE TokenInv'
  OBVIOUS
<1>1. CASE SaveStep \/ ApplyStep
  BY <1>1, SaveSteps, ApplySteps DEF Aside, TokenInv
<1>2. CASE Kill \/ Restart
  BY <1>2 DEF Kill, KillSession, Restart, invocation, tokens, TokenInv
<1>3. CASE Invoke \/ Expire
  BY <1>3 DEF Invoke, Expire, invocation, tokens, TokenInv
<1>4. CASE UNCHANGED vars
  BY <1>4 DEF vars, invocation, tokens, TokenInv
<1>5. CASE OfSession
  <2>1. pc # "idle" => cmd.as \in Accounts
    BY MenusAssumption DEF RoundInv
  <2>2. CASE PersistentPreRunE
    <3>1. UNCHANGED tokens
      BY <2>2, Zenon DEF PersistentPreRunE
    <3>2. tok' \in Accounts \cup {tok} \/ (tok' = session /\ session \notin {"absent", Blank})
      BY <2>2, PreRuns
    <3> QED BY <3>1, <3>2 DEF TokenInv, tokens, Typed
  <2>3. CASE PasswordLogin
    BY <2>1, <2>3 DEF PasswordLogin, invocation, TokenInv
  <2>4. CASE OperatorStep \/ ForgetTokens \/ UnknownProvider
    BY <2>4 DEF OperatorStep, StdinEnds, TypePassword, GoogleLogin, ManualLogin, ForgetTokens,
                UnknownProvider, invocation, tokens, TokenInv
  <2>5. CASE PasswordLogout
    BY <2>5 DEF PasswordLogout, invocation, TokenInv
  <2>6. CASE Refresh
    BY <2>6 DEF Refresh, invocation, TokenInv
  <2>7. CASE FileStep \/ FillFile
    <3>1. todo # << >> => Head(todo).value \in {"absent"} \cup Typed
      <4>1. todo # << >> => Head(todo) \in Jobs
        BY TailFacts DEF LockoutInv
      <4> QED BY <4>1 DEF Jobs
    <3>2. pc = "fill" => todo # << >>
      BY DEF LockoutInv
    <3>3. UNCHANGED <<live, tok>>
      BY <2>7 DEF FileStep, FillFile, invocation
    <3>4. session' \in {"absent"} \cup Typed /\ refresh' \in {"absent"} \cup Typed
      <4>1. CASE FileStep
        <5>1. \/ UNCHANGED <<session, refresh>>
              \/ \E v \in {"absent", Blank} : Store(Head(todo).file, v)
          BY <4>1 DEF FileStep
        <5> QED BY <5>1, Stored, JobFacts DEF TokenInv
      <4>2. CASE FillFile
        BY <3>1, <3>2, <4>2, Stored DEF FillFile
      <4> QED BY <2>7, <4>1, <4>2
    <3> QED BY <3>3, <3>4 DEF TokenInv
  <2>8. CASE FileFails
    BY <2>8 DEF FileFails, invocation, TokenInv
  <2> QED BY <1>5, <2>2, <2>3, <2>4, <2>5, <2>6, <2>7, <2>8 DEF OfSession, SessionStep
<1> QED BY <1>1, <1>2, <1>3, <1>4, <1>5, Steps

\* A step ends the command with a code of the frozen table, or goes on.
Ends == pc' = "idle" /\ exit' \in Taxonomy
Goes == pc # "idle" /\ pc' # "idle" /\ UNCHANGED exit

\* The codes commands end with are of the frozen table.
LEMMA CodeFacts ==
  /\ {OK, InvalidArgument, Auth, Precondition, Unavailable, ContractMismatch, Failed, Partial}
       \subseteq Taxonomy
  /\ FromHTTPStatus(401) \in Taxonomy /\ FromHTTPStatus(403) \in Taxonomy
  /\ Running \notin Taxonomy /\ Running # Killed
BY DEF Taxonomy, OK, InvalidArgument, Auth, Precondition, Unavailable, ContractMismatch, Failed,
       Partial, FeatureUnavailable, Running, Killed, FromHTTPStatus

\* Save ends with such a code or goes on.
LEMMA ExitSave == ASSUME SaveStep PROVE Ends \/ Goes
<1> USE CodeFacts DEF Ends, Goes, End, Goto
<1>1. CASE runSave
  BY <1>1 DEF runSave
<1>2. CASE EndSave
  BY <1>2 DEF EndSave, Persist
<1>3. CASE Fetch
  BY <1>3 DEF Fetch, Fetched, RefusedDump, Undecodable, Fail
<1>4. CASE RemoveBackup \/ Copy \/ CopyDone
  BY <1>4 DEF RemoveBackup, Copy, CopyDone
<1>5. CASE Move \/ CopyFails
  BY <1>5 DEF Move, CopyFails, Fail
<1> QED BY <1>1, <1>2, <1>3, <1>4, <1>5 DEF SaveStep

\* So does apply.
LEMMA ExitApply == ASSUME ApplyStep PROVE Ends \/ Goes
<1> USE CodeFacts DEF Ends, Goes, End, Goto
<1>1. CASE ApplyCmd \/ EndApply \/ OpenDump \/ EndDomain
  BY <1>1 DEF ApplyCmd, EndApply, OpenDump, EndDomain
<1>2. CASE ApplyPerInterface
  BY <1>2 DEF ApplyPerInterface
<1>3. CASE PostRule
  BY <1>3 DEF PostRule
<1> QED BY <1>1, <1>2, <1>3 DEF ApplyStep

\* So do login, logout and refresh.
LEMMA ExitSession == ASSUME OfSession PROVE Ends \/ Goes
<1> USE CodeFacts DEF Ends, Goes, End, Goto, Is, Prompting, PrintAndSaveTokenResult
<1>1. CASE PersistentPreRunE
  BY <1>1, PreRuns
<1>2. CASE PasswordLogin
  BY <1>2 DEF PasswordLogin
<1>3. CASE OperatorStep
  BY <1>3 DEF OperatorStep, StdinEnds, TypePassword, GoogleLogin, ManualLogin, TypedLogin
<1>4. CASE PasswordLogout \/ ForgetTokens
  BY <1>4 DEF PasswordLogout, ForgetTokens, Removes
<1>5. CASE Refresh
  BY <1>5 DEF Refresh
<1>6. CASE UnknownProvider
  BY <1>6 DEF UnknownProvider
<1>7. CASE FileStep \/ FillFile \/ FileFails
  BY <1>7 DEF FileStep, FillFile, FileFails
<1> QED BY <1>1, <1>2, <1>3, <1>4, <1>5, <1>6, <1>7 DEF OfSession, SessionStep

\* Exit code and running command exclude each other at every step.
LEMMA ExitStep == ExitInv /\ [Next]_vars => ExitInv'
<1> SUFFICES ASSUME ExitInv, [Next]_vars PROVE ExitInv'
  OBVIOUS
<1>1. CASE Ends \/ Goes
  BY <1>1, CodeFacts DEF Ends, Goes, ExitInv
<1>2. CASE Kill
  BY <1>2, CodeFacts DEF Kill, KillSession, End, ExitInv
<1>3. CASE Restart
  BY <1>3 DEF Restart, ExitInv
<1>4. CASE Invoke \/ Expire
  BY <1>4 DEF Invoke, Expire, ExitInv
<1>5. CASE UNCHANGED vars
  BY <1>5 DEF vars, ExitInv
<1> QED BY <1>1, <1>2, <1>3, <1>4, <1>5, ExitSave, ExitApply, ExitSession, Steps

\* Every variable of save and apply keeps its type, an invocation that ended by
\* itself has an exit code of the frozen table, and apply has acted on no
\* interface that is not the host's.
THEOREM SaveTypes == Spec => []TypeOK
<1> DEFINE Inv == PhaseInv /\ LockoutInv /\ CopyInv /\ RoundInv /\ StateInv /\ TokenInv /\ ExitInv
<1>1. Init => Inv
  BY PhaseInit, LockoutInit, CopyInit, RoundInit, StateInit, TokenInit
<1>2. Inv /\ [Next]_vars => Inv'
  BY PhaseStep, LockoutStep, CopyStep, RoundStep, StateStep, TokenStep, ExitStep
<1>3. Inv /\ HostInv => TypeOK
  <2> SUFFICES ASSUME Inv, HostInv PROVE TypeOK
    OBVIOUS
  <2>1. \A d \in Domains : /\ cur[d].state \in {"absent", "cut short", "whole"}
                            /\ bak[d].state \in {"absent", "cut short", "whole"}
    BY Zenon DEF StateInv, States
  <2>2. \A d \in Domains : faults[d] \in 0..TwoFaults
    BY DEF CopyInv
  <2>3. pc \in {"save", "remove", "move", "copy", "copying"} =>
          \A i \in DOMAIN list : list[i] \in Domains
    BY DEF CopyInv, Saving, Replacing
  <2>4. exit \in Taxonomy \cup {Running, Killed} /\ ((exit = Running) = (pc # "idle"))
    BY DEF ExitInv
  <2>5. applied \subseteq Links(topo)
    BY DEF HostInv
  <2> QED BY <2>1, <2>2, <2>3, <2>4, <2>5, Zenon DEF TypeOK, TokenInv
<1> HIDE DEF Inv
<1> QED BY <1>1, <1>2, <1>3, HostInvariant, PTL DEF Spec

=============================================================================
