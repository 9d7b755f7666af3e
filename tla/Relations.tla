----------------------------- MODULE Relations -----------------------------
(***************************************************************************)
(* The tables that relate flows: LinkTable (link.rs), MonitorTable         *)
(* (monitor.rs) and Registry (registry.rs).  Each keeps a record map and   *)
(* the indexes that make a flow's exit cost O(degree).  Every method runs  *)
(* under its table's mutex, so a method is one operator on a table.        *)
(*                                                                         *)
(* A HashMap is a set of rows [key, value]; a Vec of ids per flow is a set *)
(* of rows [flow, id], since the code sorts what it reads from it.         *)
(***************************************************************************)
EXTENDS Naturals, FiniteSets

-----------------------------------------------------------------------------
(* LinkTable *)

NoLinks == [links |-> {}, pairs |-> {}, byFlow |-> {}]

\* the (min, max) pair both orders of the endpoints share
PairKey(a, b) == {a, b}

HasPair(lt, a, b) == \E p \in lt.pairs : p.key = PairKey(a, b)

\* LinkTable::insert
InsertLink(lt, id, a, b) ==
  [links  |-> lt.links \cup {[id |-> id, a |-> a, b |-> b]},
   pairs  |-> {p \in lt.pairs : p.key # PairKey(a, b)} \cup {[key |-> PairKey(a, b), id |-> id]},
   byFlow |-> lt.byFlow \cup {[flow |-> f, id |-> id] : f \in {a, b}}]

HasLink(lt, id) == \E l \in lt.links : l.id = id

\* LinkTable::unlink_id
UnlinkId(lt, id) ==
  LET rows == {l \in lt.links : l.id = id}
  IN  [links  |-> lt.links \ rows,
       pairs  |-> {p \in lt.pairs : \A l \in rows : p.key # PairKey(l.a, l.b)},
       byFlow |-> {e \in lt.byFlow : \A l \in rows : ~(e.id = id /\ e.flow \in {l.a, l.b})}]

\* the rows LinkTable::remove_links_of takes, through the adjacency index
LinksOf(lt, f) == {l \in lt.links : [flow |-> f, id |-> l.id] \in lt.byFlow}

Peer(l, f) == IF l.a = f THEN l.b ELSE l.a

\* LinkTable::remove_links_of: the table it leaves ...
RemoveLinksOf(lt, f) ==
  LET rows == LinksOf(lt, f)
  IN  [links  |-> lt.links \ rows,
       pairs  |-> {p \in lt.pairs : \A l \in rows : p.key # PairKey(l.a, l.b)},
       byFlow |-> {e \in lt.byFlow :
                     e.flow # f /\ \A l \in rows : ~(e.id = l.id /\ e.flow = Peer(l, f))}]

\* ... and the peers it returns
PeersOf(lt, f) == {[id |-> l.id, flow |-> Peer(l, f)] : l \in LinksOf(lt, f)}

-----------------------------------------------------------------------------
(* MonitorTable *)

NoMonitors == [rows |-> {}, byOwner |-> {}, byTarget |-> {}]

\* MonitorTable::insert
InsertMonitor(mt, id, owner, target) ==
  [rows     |-> mt.rows \cup {[id |-> id, owner |-> owner, target |-> target]},
   byOwner  |-> mt.byOwner \cup {[flow |-> owner, id |-> id]},
   byTarget |-> mt.byTarget \cup {[flow |-> target, id |-> id]}]

OwnsMonitor(mt, owner, id) == \E m \in mt.rows : m.id = id /\ m.owner = owner

\* the table without the given rows; MonitorTable::take is the case of one row
DropMonitors(mt, gone) ==
  [rows     |-> mt.rows \ gone,
   byOwner  |-> {e \in mt.byOwner : \A m \in gone : ~(e.id = m.id /\ e.flow = m.owner)},
   byTarget |-> {e \in mt.byTarget : \A m \in gone : ~(e.id = m.id /\ e.flow = m.target)}]

\* MonitorTable::remove_owned
RemoveOwned(mt, owner, id) == DropMonitors(mt, {m \in mt.rows : m.id = id /\ m.owner = owner})

\* MonitorTable::remove_owned_by, through the owner index
RemoveOwnedBy(mt, owner) ==
  LET gone == {m \in mt.rows : [flow |-> owner, id |-> m.id] \in mt.byOwner}
  IN  [DropMonitors(mt, gone) EXCEPT !.byOwner = {e \in mt.byOwner : e.flow # owner}]

\* the rows MonitorTable::notify_target_exit turns into DOWN events
MonitorsOf(mt, target) == {m \in mt.rows : [flow |-> target, id |-> m.id] \in mt.byTarget}

\* MonitorTable::notify_target_exit: the table it leaves
NotifyTargetExit(mt, target) ==
  [DropMonitors(mt, MonitorsOf(mt, target)) EXCEPT
     !.byTarget = {e \in mt.byTarget : e.flow # target}]

-----------------------------------------------------------------------------
(* Registry *)

NoNames == [names |-> {}, byFlow |-> {}]

NameTaken(rg, name) == \E r \in rg.names : r.name = name

\* Registry::register
RegisterName(rg, name, f) ==
  [names  |-> rg.names \cup {[name |-> name, flow |-> f]},
   byFlow |-> rg.byFlow \cup {[flow |-> f, name |-> name]}]

\* Registry::unregister
UnregisterName(rg, name) ==
  LET gone == {r \in rg.names : r.name = name}
  IN  [names  |-> rg.names \ gone,
       byFlow |-> {e \in rg.byFlow : \A r \in gone : ~(e.name = name /\ e.flow = r.flow)}]

\* Registry::unregister_flow
UnregisterFlow(rg, f) ==
  [names  |-> {r \in rg.names : [flow |-> f, name |-> r.name] \notin rg.byFlow},
   byFlow |-> {e \in rg.byFlow : e.flow # f}]

-----------------------------------------------------------------------------
(* What the indexes promise *)

LinksAgree(lt) ==
  /\ lt.pairs = {[key |-> PairKey(l.a, l.b), id |-> l.id] : l \in lt.links}
  /\ lt.byFlow = UNION {{[flow |-> l.a, id |-> l.id], [flow |-> l.b, id |-> l.id]} : l \in lt.links}
  /\ \A l, k \in lt.links : l.id = k.id \/ PairKey(l.a, l.b) = PairKey(k.a, k.b) => l = k

MonitorsAgree(mt) ==
  /\ mt.byOwner = {[flow |-> m.owner, id |-> m.id] : m \in mt.rows}
  /\ mt.byTarget = {[flow |-> m.target, id |-> m.id] : m \in mt.rows}
  /\ \A m, k \in mt.rows : m.id = k.id => m = k

NamesAgree(rg) ==
  /\ rg.byFlow = {[flow |-> r.flow, name |-> r.name] : r \in rg.names}
  /\ \A r, k \in rg.names : r.name = k.name => r = k
=============================================================================
