---------------------------- MODULE AnchorProofs ----------------------------
(***************************************************************************)
(* A cleanup of hosts that was cut short finds its leftovers again, when   *)
(* the caches of gateways and routes do not lag.  (When the gateway's lags, *)
(* a gateway is deleted with hosts the cleanup has not looked at; when      *)
(* those of the routes lag, it misses routes made moments ago.)             *)
(***************************************************************************)
EXTENDS SettledProofs

RouteKinds == {"VS", "DR", "SE"}
RoutingKinds == RouteKinds \cup {"GW"}
FreshHostCaches == Lagging \cap RoutingKinds = {}

Anchored(h) == \E g \in api["GW"] : h \in g.hosts

\* A gateway is found by its name.
OneGatewayEach == \A g, g2 \in api["GW"] : g.name = g2.name => g = g2

\* Once its gateway has the host, the loop goes on to create the routes.
Ensuring ==
    /\ pc \in {"externalHosts", "cloudSQLHosts"} /\ cur = None => at = 1
    /\ (pc = "externalHosts" /\ at > 2) \/ (pc = "cloudSQLHosts" /\ at > 1) => Anchored(cur[2])

\* The cleanup works on the gateway that is stored, and what it will take out of it
\* and still has routes is left to do.
TakingOut ==
    gw # None =>
        /\ pc \in {"externalGateway", "cloudSQLGateway"} /\ gw \in api["GW"]
        /\ \A k \in RouteKinds : \A o \in api[k] :
              o.host \in gw.hosts /\ o.host \notin InUse(gw.name) => o.host \in todo

AInv == TInv /\ RoutesAnchored /\ OneGatewayEach /\ Ensuring /\ TakingOut

HostObjectsKept == \A k \in RoutingKinds : api'[k] = api[k]

\* Initially there are no routes.
LEMMA AInvInit == Init => AInv
<1> SUFFICES ASSUME Init PROVE AInv  OBVIOUS
<1>1. api = [k \in Kinds |-> IF k = "GW" THEN InitialGateways ELSE {}]
  BY DEF Init, ClusterInit
<1>2. RoutesAnchored /\ OneGatewayEach
  BY <1>1 DEF RoutesAnchored, OneGatewayEach, InitialGateways, Kinds
<1>3. Ensuring /\ TakingOut
  BY DEF Init, WorkerInit, Ensuring, TakingOut
<1> QED
  BY <1>2, <1>3, TInvInit DEF AInv

\* A write of another kind leaves the hosts' objects as they are.
LEMMA WriteElsewhere ==
    ASSUME NEW k \in Kinds \ RoutingKinds, NEW objects, Write(k, objects), StoreOK
    PROVE  HostObjectsKept
BY DEF HostObjectsKept, RoutingKinds, RouteKinds, Write, Commit, StoreOK

\* Outside the loops of this module, and at their beginning, the objects of hosts are
\* all there is to show.
LEMMA ElsewhereKeeps ==
    ASSUME AInv, TInv', HostObjectsKept, gw' = None,
           pc' \in {"externalHosts", "cloudSQLHosts"} => at' = 1
    PROVE  AInv'
<1>1. RoutesAnchored' /\ OneGatewayEach'
  BY DEF AInv, HostObjectsKept, RoutingKinds, RouteKinds, RoutesAnchored, OneGatewayEach
<1>2. Ensuring' /\ TakingOut'
  BY DEF Ensuring, TakingOut
<1> QED
  BY <1>1, <1>2 DEF AInv

\* Neither do steps that leave the worker where it is, or make it forget its job.
LEMMA WaitingKeeps ==
    ASSUME AInv, TInv', HostObjectsKept, UNCHANGED workerVars \/ Forget
    PROVE  AInv'
<1>1. CASE Forget
  BY <1>1, ElsewhereKeeps DEF Forget
<1>2. CASE UNCHANGED workerVars
  <2>1. RoutesAnchored' /\ OneGatewayEach'
    BY DEF AInv, HostObjectsKept, RoutingKinds, RouteKinds, RoutesAnchored, OneGatewayEach
  <2>2. api'["GW"] = api["GW"]
    BY DEF HostObjectsKept, RoutingKinds
  <2>3. Ensuring'
    BY <1>2, <2>2 DEF AInv, Ensuring, Anchored, workerVars
  <2>4. \A name : InUse(name)' = InUse(name)
    BY <1>2 DEF InUse, ExternalInUse, CloudSQLInUse, workerVars
  <2>5. \A k \in RouteKinds : api'[k] = api[k]
    BY DEF HostObjectsKept, RoutingKinds
  <2>6. TakingOut'
    BY <1>2, <2>2, <2>4, <2>5 DEF AInv, TakingOut, workerVars
  <2> QED
    BY <2>1, <2>3, <2>6 DEF AInv
<1> QED
  BY <1>1, <1>2

-----------------------------------------------------------------------------
(* Creating routes.                                                         *)

\* In these phases the worker has no gateway to clean up, and x is a host of the spec.
LEMMA EnsuringHostFacts ==
    ASSUME AInv, NEW x \in todo, NEW n \in 1 .. 6, EnsuringHost(x, n)
    PROVE  /\ pc \in {"externalHosts", "cloudSQLHosts"} /\ gw = None /\ x # None
           /\ n > 2 => Anchored(x[2])
<1>1. pc \in {"externalHosts", "cloudSQLHosts"}
  BY DEF EnsuringHost
<1>2. gw = None
  BY <1>1 DEF AInv, TakingOut
<1>3. x \in SaNames \X Hosts
  <2>1. x \in ExternalItems \cup CloudSQLItems
    BY <1>1 DEF AInv, TInv, GInv, RowsFirst
  <2>2. PICK s \in Listed : \E h \in spec.sas[s].ext \cup spec.sas[s].sql : x = <<s, h>>
    BY <2>1 DEF ExternalItems, CloudSQLItems
  <2> QED
    BY <2>2, JobTypes, SpecTypes DEF AInv, TInv, GInv, FInv, Listed
<1>4. x # None
  BY <1>3, WorkerAssumption
<1>5. ASSUME n > 2
      PROVE  Anchored(x[2])
  <2>1. at \in 1 .. 6
    BY DEF AInv, TInv, GInv, FInv, CoreTypeOK
  <2>2. at # 1 /\ ((pc = "externalHosts" /\ at > 2) \/ (pc = "cloudSQLHosts" /\ at > 1))
    BY <1>5, <2>1 DEF EnsuringHost
  <2>3. cur = x
    BY <1>1, <2>2 DEF AInv, Ensuring, EnsuringHost, Taking
  <2> QED
    BY <2>2, <2>3 DEF AInv, Ensuring
<1> QED
  BY <1>1, <1>2, <1>4, <1>5

\* A call of these phases that ends well, or Reconcile returns.
LEMMA EnsuringKeeps ==
    ASSUME AInv, TInv', NEW x \in todo, NEW n \in 1 .. 6, EnsuringHost(x, n),
           RoutesAnchored', OneGatewayEach', LoopEnds(x),
           n > 1 /\ Continues(x) => Anchored(x[2])'
    PROVE  AInv'
<1>1. gw = None /\ x # None
  BY EnsuringHostFacts
<1>2. CASE ReturnError
  BY <1>2 DEF ReturnError, Forget, AInv, Ensuring, TakingOut
<1>3. CASE Finishes(x)
  BY <1>1, <1>3 DEF Finishes, DoneNoting, AInv, Ensuring, TakingOut
<1>4. CASE Continues(x)
  <2>1. cur' = x /\ at' = at + 1 /\ pc' = pc /\ gw' = None
    BY <1>1, <1>4 DEF Continues, NextCallNoting
  <2>2. (pc = "externalHosts" /\ at' > 2) \/ (pc = "cloudSQLHosts" /\ at' > 1) => n > 1
    BY <2>1 DEF EnsuringHost, AInv, TInv, GInv, FInv, CoreTypeOK
  <2>3. Ensuring'
    BY <1>1, <1>4, <2>1, <2>2 DEF Ensuring, Anchored
  <2> QED
    BY <2>1, <2>3 DEF AInv, TakingOut
<1> QED
  BY <1>2, <1>3, <1>4 DEF LoopEnds

\* What is anchored stays so while no gateway loses a host.
LEMMA AnchoredStays ==
    ASSUME RoutesAnchored, \A h : Anchored(h) => Anchored(h)',
           \A k \in RouteKinds : \A o \in api'[k] : o \in api[k] \/ Anchored(o.host)
    PROVE  RoutesAnchored'
BY DEF RoutesAnchored, Anchored, RouteKinds

\* Getting or creating a gateway, and adding a host to it.
LEMMA GatewaySteps ==
    ASSUME AInv, TInv', NEW x \in todo, EnsureGatewayExists(x) \/ EnsureGatewayContainsHost(x)
    PROVE  AInv'
<1> USE DEF AInv, TInv
<1>k. "GW" \in Kinds /\ RouteKinds \subseteq Kinds \ {"GW"}
  BY DEF Kinds, RouteKinds
<1>e. LoopEnds(x)
  BY HostFrame DEF HostStep, GInv, FInv, CoreTypeOK
<1>r. ASSUME ReadOnly
      PROVE  RoutesAnchored' /\ OneGatewayEach' /\ \A h : Anchored(h) => Anchored(h)'
  BY <1>r DEF ReadOnly, RoutesAnchored, OneGatewayEach, Anchored
<1>1. CASE EnsureGatewayExists(x)
  <2>1. CASE ReadOnly
    <3>1. EnsuringHost(x, 1)
      BY <1>1 DEF EnsureGatewayExists
    <3> QED
      BY <1>r, <1>e, <2>1, <3>1, EnsuringKeeps
  <2>2. CASE /\ Gateways(api["GW"], GatewayName) = {}
             /\ Write("GW", api["GW"] \cup {[name |-> GatewayName, hosts |-> {x[2]}]})
    <3> DEFINE g == [name |-> GatewayName, hosts |-> {x[2]}]
    <3>1. api'["GW"] = api["GW"] \cup {g} /\ \A k \in RouteKinds : api'[k] = api[k]
      BY <1>k, <2>2, WriteEffect
    <3>2. \A h : Anchored(h) => Anchored(h)'
      BY <3>1 DEF Anchored
    <3>3. RoutesAnchored'
      BY <3>1, <3>2, AnchoredStays
    <3>4. \A g2 \in api["GW"] : g2.name # g.name
      BY <2>2 DEF Gateways
    <3>5. OneGatewayEach'
      BY <3>1, <3>4 DEF OneGatewayEach
    <3>6. EnsuringHost(x, 1)
      BY <1>1 DEF EnsureGatewayExists
    <3> QED
      BY <1>e, <3>3, <3>5, <3>6, EnsuringKeeps
  <2> QED
    BY <1>1, <2>1, <2>2 DEF EnsureGatewayExists
<1>2. CASE EnsureGatewayContainsHost(x)
  <2>0. EnsuringHost(x, 2)
    BY <1>2 DEF EnsureGatewayContainsHost
  <2>1. CASE ReadOnly /\ ReturnError
    <3>1. ~Continues(x)
      <4>1. pc # "idle"
        BY <2>0, EnsuringHostFacts
      <4> QED
        BY <2>1, <4>1 DEF ReturnError, Forget, Continues, NextCallNoting
    <3> QED
      BY <1>r, <1>e, <2>0, <2>1, <3>1, EnsuringKeeps
  <2>2. CASE \E g : UpdateGateway(g, g.hosts \cup {x[2]})
    <3>1. PICK g : g \in api["GW"]
                   /\ Write("GW", (api["GW"] \ {g}) \cup {[g EXCEPT !.hosts = g.hosts \cup {x[2]}]})
      BY <2>2 DEF UpdateGateway
    <3> DEFINE g2 == [g EXCEPT !.hosts = g.hosts \cup {x[2]}]
    <3>2. /\ api'["GW"] = (api["GW"] \ {g}) \cup {g2}
          /\ \A k \in RouteKinds : api'[k] = api[k]
      BY <1>k, <3>1, WriteEffect
    <3>3. g2.name = g.name /\ g2.hosts = g.hosts \cup {x[2]}
      <4>1. g \in [name : {"external", "cloudsql"}, hosts : SUBSET (Hosts \cup {"*"})]
        BY <1>k, <3>1, ObjectTypes DEF StoreOK
      <4> QED
        BY <4>1
    <3> HIDE DEF g2
    <3>4. \A h : Anchored(h) => Anchored(h)'
      BY <3>2, <3>3 DEF Anchored
    <3>5. RoutesAnchored'
      BY <3>2, <3>4, AnchoredStays
    <3>6. OneGatewayEach'
      BY <3>1, <3>2, <3>3 DEF OneGatewayEach
    <3>7. Anchored(x[2])'
      BY <3>2, <3>3 DEF Anchored
    <3> QED
      BY <1>e, <2>0, <3>5, <3>6, <3>7, EnsuringKeeps
  <2> QED
    BY <1>2, <2>1, <2>2 DEF EnsureGatewayContainsHost, UpdateConflicts
<1> QED
  BY <1>1, <1>2

\* Creating the routes of a host that a gateway has.
LEMMA RouteSteps ==
    ASSUME AInv, TInv', NEW x \in todo,
           EnsureVirtualService(x) \/ EnsureDestinationRule(x) \/ EnsureServiceEntry(x)
    PROVE  AInv'
<1> USE DEF AInv, TInv
<1>k. RouteKinds \subseteq Kinds /\ "GW" \notin RouteKinds /\ "GW" \in Kinds
  BY DEF Kinds, RouteKinds
<1>e. LoopEnds(x)
  BY HostFrame DEF HostStep, GInv, FInv, CoreTypeOK
<1>1. PICK n \in {3, 4, 5, 6} :
         /\ EnsuringHost(x, n)
         /\ \/ ReadOnly
            \/ \E k \in RouteKinds : \E o : o.host = x[2] /\ Write(k, api[k] \cup {o})
  <2>1. CASE EnsureVirtualService(x)
    <3>1. [host |-> x[2]].host = x[2] /\ "VS" \in RouteKinds
      BY DEF RouteKinds
    <3> QED
      BY <2>1, <3>1 DEF EnsureVirtualService, CreateUnless
  <2>2. CASE EnsureDestinationRule(x)
    <3>1. PICK to \in BOOLEAN :
             /\ EnsuringHost(x, IF to THEN 4 ELSE 5)
             /\ ReadOnly \/ Write("DR", api["DR"] \cup {[host |-> x[2], to |-> to]})
      BY <2>2 DEF EnsureDestinationRule, CreateUnless
    <3>2. [host |-> x[2], to |-> to].host = x[2] /\ "DR" \in RouteKinds
      BY DEF RouteKinds
    <3>3. (IF to THEN 4 ELSE 5) \in {3, 4, 5, 6}
      OBVIOUS
    <3> QED
      BY <3>1, <3>2, <3>3
  <2>3. CASE EnsureServiceEntry(x)
    <3>1. [host |-> x[2]].host = x[2] /\ "SE" \in RouteKinds
      BY DEF RouteKinds
    <3> QED
      BY <2>3, <3>1 DEF EnsureServiceEntry, CreateUnless
  <2> QED
    BY <2>1, <2>2, <2>3
<1>2. Anchored(x[2])
  BY <1>1, EnsuringHostFacts
<1>3. /\ api'["GW"] = api["GW"]
      /\ \A k \in RouteKinds : \A o \in api'[k] : o \in api[k] \/ Anchored(o.host)
  <2>1. CASE ReadOnly
    BY <2>1 DEF ReadOnly
  <2>2. ASSUME NEW k \in RouteKinds, NEW o, o.host = x[2], Write(k, api[k] \cup {o})
        PROVE  /\ api'["GW"] = api["GW"]
               /\ \A j \in RouteKinds : \A o2 \in api'[j] : o2 \in api[j] \/ Anchored(o2.host)
    <3>1. api'[k] = api[k] \cup {o} /\ \A j \in Kinds \ {k} : api'[j] = api[j]
      BY <1>k, <2>2, WriteEffect
    <3> QED
      BY <1>k, <1>2, <2>2, <3>1
  <2> QED
    BY <1>1, <2>1, <2>2
<1>4. \A h : Anchored(h) => Anchored(h)'
  BY <1>3 DEF Anchored
<1>5. RoutesAnchored' /\ OneGatewayEach'
  BY <1>3, <1>4, AnchoredStays DEF OneGatewayEach
<1> QED
  BY <1>e, <1>1, <1>2, <1>4, <1>5, EnsuringKeeps

-----------------------------------------------------------------------------
(* Taking routes away.                                                      *)

\* The deletes of one host: what is labelled with it is gone as far as the cache shows
\* it, or Reconcile returns.
LEMMA RemoveEffect ==
    ASSUME StoreOK, NEW h, RemoveExternalHost(h)
    PROVE  /\ pc \in {"externalGateway", "cloudSQLGateway"}
           /\ api'["GW"] = api["GW"] /\ \A k \in Kinds : api'[k] \subseteq api[k]
           /\ \/ ReturnError
              \/ /\ DoneWith(h)
                 /\ \A k \in RouteKinds \cup {"AP"} :
                       k \notin Lagging => \A o \in api'[k] : o.host # h
<1>k. RouteKinds \cup {"AP", "GW"} \subseteq Kinds
  BY DEF Kinds, RouteKinds
<1>1. PICK failing \in SUBSET HostObjects(h) :
        /\ Commit([k \in Kinds |-> api[k] \ UNION {Namesakes(k, y[2]) :
                      y \in {z \in HostObjects(h) \ failing : z[1] = k}}])
        /\ (failing = {} /\ DoneWith(h)) \/ ReturnError
  BY DEF RemoveExternalHost
<1>2. \A k \in Kinds : api'[k] = api[k] \ UNION {Namesakes(k, y[2]) :
                           y \in {z \in HostObjects(h) \ failing : z[1] = k}}
  BY <1>1 DEF Commit
<1>3. \A k \in Kinds : api'[k] \subseteq api[k]
  BY <1>2
<1>4. api'["GW"] = api["GW"]
  <2>1. \A z \in HostObjects(h) : z[1] # "GW"
    BY DEF HostObjects
  <2>2. {z \in HostObjects(h) \ failing : z[1] = "GW"} = {}
    BY <2>1
  <2>3. UNION {Namesakes("GW", y[2]) : y \in {z \in HostObjects(h) \ failing : z[1] = "GW"}} = {}
    BY <2>2
  <2>4. api'["GW"] = api["GW"] \ {}
    BY <1>k, <1>2, <2>3
  <2> QED
    BY <2>4
<1>5. ASSUME failing = {}, NEW k \in RouteKinds \cup {"AP"}, k \notin Lagging,
             NEW o \in api[k], o.host = h
      PROVE  o \notin api'[k]
  <2>1. View(k) = api[k]
    BY <1>5 DEF StoreOK, View
  <2>2. <<k, o>> \in HostObjects(h)
    BY <1>5, <2>1 DEF HostObjects, RouteKinds
  <2>3. o \in Namesakes(k, o)
    BY <1>5 DEF Namesakes
  <2> QED
    BY <1>k, <1>2, <1>5, <2>2, <2>3
<1> QED
  BY <1>k, <1>1, <1>3, <1>4, <1>5 DEF RemoveExternalHost

\* So the routes of the host are gone, or Reconcile returns.
LEMMA RemoveSteps ==
    ASSUME FreshHostCaches, AInv, TInv', NEW h \in todo, RemoveExternalHost(h)
    PROVE  AInv'
<1> USE DEF AInv, TInv
<1>k. RouteKinds \subseteq Kinds /\ RouteKinds \cap Lagging = {}
  BY DEF Kinds, RouteKinds, FreshHostCaches, RoutingKinds
<1>1. /\ api'["GW"] = api["GW"] /\ \A k \in RouteKinds : api'[k] \subseteq api[k]
      /\ \/ ReturnError
         \/ DoneWith(h) /\ \A k \in RouteKinds : \A o \in api'[k] : o.host # h
  BY <1>k, RemoveEffect
<1>2. RoutesAnchored' /\ OneGatewayEach'
  BY <1>1 DEF RoutesAnchored, RouteKinds, OneGatewayEach
<1>3. CASE ReturnError
  BY <1>2, <1>3 DEF ReturnError, Forget, Ensuring, TakingOut
<1>4. CASE ~ReturnError
  <2>1. UNCHANGED <<pc, gw, listed>> /\ todo' = todo \ {h}
    BY <1>1, <1>4 DEF DoneWith, DoneNoting
  <2>2. \A name : InUse(name)' = InUse(name)
    BY <2>1 DEF InUse, ExternalInUse, CloudSQLInUse
  <2>3. TakingOut'
    BY <1>1, <1>4, <2>1, <2>2 DEF TakingOut
  <2>4. Ensuring'
    BY <2>1 DEF RemoveExternalHost, Ensuring
  <2> QED
    BY <1>2, <2>3, <2>4
<1> QED
  BY <1>3, <1>4

\* The gateway that is cleaned up is deleted, or has the hosts in use, or Reconcile
\* returns; other gateways stay.
LEMMA CleanupEffect ==
    ASSUME AInv, CleanupGateway
    PROVE  \/ api' = api /\ ReturnError
           \/ /\ gw' = None /\ UNCHANGED <<pc, todo, listed>>
              /\ \A k \in Kinds \ {"GW"} : api'[k] = api[k]
              /\ \A g \in api["GW"] : g.name # gw.name => g \in api'["GW"]
              /\ \A g \in api'["GW"] : g \in api["GW"] \/ g.name = gw.name
              /\ \A g \in api'["GW"] : g.name = gw.name => g.hosts = InUse(gw.name)
              /\ InUse(gw.name) # {} => \E g \in api'["GW"] : g.name = gw.name
<1> USE DEF AInv, TInv
<1>k. "GW" \in Kinds
  BY DEF Kinds
<1>1. gw # None /\ gw \in api["GW"]
  BY DEF CleanupGateway, TakingOut
<1>2. CASE ReadOnly /\ ReturnError
  BY <1>2 DEF ReadOnly
<1>3. CASE InUse(gw.name) = {} /\ Write("GW", api["GW"] \ Gateways(api["GW"], gw.name)) /\ gw' = None
           /\ UNCHANGED <<pc, todo, listed>>
  <2>1. /\ api'["GW"] = api["GW"] \ Gateways(api["GW"], gw.name)
        /\ \A k \in Kinds \ {"GW"} : api'[k] = api[k]
    BY <1>k, <1>3, WriteEffect
  <2> QED
    BY <1>3, <2>1 DEF Gateways
<1>4. CASE UpdateGateway(gw, InUse(gw.name)) /\ gw' = None /\ UNCHANGED <<pc, todo, listed>>
  <2> DEFINE hs == InUse(gw.name)
  <2> DEFINE g2 == [gw EXCEPT !.hosts = hs]
  <2>1. /\ api'["GW"] = (api["GW"] \ {gw}) \cup {g2}
        /\ \A k \in Kinds \ {"GW"} : api'[k] = api[k]
    BY <1>k, <1>4, WriteEffect DEF UpdateGateway
  <2> HIDE DEF hs
  <2>2. g2.name = gw.name /\ g2.hosts = hs
    <3>1. gw \in [name : {"external", "cloudsql"}, hosts : SUBSET (Hosts \cup {"*"})]
      BY <1>k, <1>1, ObjectTypes DEF StoreOK
    <3> QED
      BY <3>1
  <2> HIDE DEF g2
  <2>3. \A g \in api["GW"] : g # gw => g.name # gw.name
    BY <1>1 DEF OneGatewayEach
  <2>4. \A g \in api'["GW"] : g.name = gw.name => g.hosts = hs
    BY <2>1, <2>2, <2>3
  <2> QED
    BY <1>4, <2>1, <2>2, <2>4 DEF hs
<1> QED
  BY <1>2, <1>3, <1>4 DEF CleanupGateway, UpdateConflicts

\* A host that is in use, or that the gateway does not have, stays anchored.
LEMMA CleanupKeepsAnchored ==
    ASSUME AInv, CleanupGateway, NEW h, Anchored(h), h \in gw.hosts => h \in InUse(gw.name)
    PROVE  Anchored(h)'
<1>1. PICK g \in api["GW"] : h \in g.hosts
  BY DEF Anchored
<1>2. gw # None /\ gw \in api["GW"]
  BY DEF CleanupGateway, AInv, TakingOut
<1>3. CASE g.name # gw.name
  BY <1>1, <1>3, CleanupEffect DEF Anchored
<1>4. CASE g.name = gw.name
  <2>1. h \in InUse(gw.name)
    BY <1>1, <1>2, <1>4 DEF AInv, OneGatewayEach
  <2> QED
    BY <1>1, <2>1, CleanupEffect DEF Anchored
<1> QED
  BY <1>3, <1>4

\* The gateway only loses hosts that have no routes any more.
LEMMA CleanupGatewayKeeps ==
    ASSUME AInv, TInv', CleanupGateway
    PROVE  AInv'
<1>k. RouteKinds \subseteq Kinds \ {"GW"}
  BY DEF Kinds, RouteKinds
<1>1. gw # None /\ todo = {} /\ pc \in {"externalGateway", "cloudSQLGateway"}
  BY DEF CleanupGateway, AInv, TakingOut
<1>2. Ensuring' /\ TakingOut'
  <2>1. gw' = None /\ pc' \notin {"externalHosts", "cloudSQLHosts"}
    BY <1>1 DEF CleanupGateway, ReturnError, Forget
  <2> QED
    BY <2>1 DEF Ensuring, TakingOut
<1>3. RoutesAnchored'
  <2> SUFFICES ASSUME NEW k \in RouteKinds, NEW o \in api'[k]
               PROVE  Anchored(o.host)'
    BY DEF RoutesAnchored, RouteKinds, Anchored
  <2>1. o \in api[k] /\ Anchored(o.host)
    BY <1>k, CleanupEffect DEF AInv, RoutesAnchored, RouteKinds, Anchored
  <2>2. o.host \in gw.hosts => o.host \in InUse(gw.name)
    BY <1>1, <2>1 DEF AInv, TakingOut
  <2> QED
    BY <2>1, <2>2, CleanupKeepsAnchored
<1>4. OneGatewayEach'
  <2>1. CASE api' = api
    BY <2>1 DEF AInv, OneGatewayEach
  <2>2. CASE api' # api
    <3> SUFFICES ASSUME NEW g \in api'["GW"], NEW g2 \in api'["GW"], g.name = g2.name
                 PROVE  g = g2
      BY DEF OneGatewayEach
    <3>1. CASE g.name # gw.name
      BY <2>2, <3>1, CleanupEffect DEF AInv, OneGatewayEach
    <3>2. CASE g.name = gw.name
      <4>1. g.hosts = g2.hosts
        BY <2>2, <3>2, CleanupEffect
      <4>2. /\ g \in [name : {"external", "cloudsql"}, hosts : SUBSET (Hosts \cup {"*"})]
            /\ g2 \in [name : {"external", "cloudsql"}, hosts : SUBSET (Hosts \cup {"*"})]
        <5>1. Objects("GW")' = Objects("GW") /\ "GW" \in Kinds
          BY DEF Objects, Kinds
        <5> QED
          BY <5>1, ObjectTypes DEF TInv, StoreOK
      <4> QED
        BY <4>1, <4>2
    <3> QED
      BY <3>1, <3>2
  <2> QED
    BY <2>1, <2>2
<1> QED
  BY <1>2, <1>3, <1>4 DEF AInv

\* A phase begins with the hosts its gateway has and no listed CR uses.
LEMMA AdvanceKeeps ==
    ASSUME FreshHostCaches, AInv, TInv', Advance
    PROVE  AInv'
<1> USE DEF AInv, TInv
<1>1. HostObjectsKept /\ api' = api
  BY DEF Advance, ReadOnly, HostObjectsKept
<1>2. CASE ReturnError \/ ReturnNil
  BY <1>1, <1>2, WaitingKeeps DEF ReturnError, ReturnNil
<1>3. CASE ~(ReturnError \/ ReturnNil) /\ gw' = None
  <2>1. at' = 1
    BY <1>3 DEF Advance, EnterPhase
  <2> QED
    BY <1>1, <1>3, <2>1, ElsewhereKeeps
<1>4. CASE ~(ReturnError \/ ReturnNil) /\ gw' # None
  <2> DEFINE p == NextPhase[pc]
  <2>1. /\ p \in {"externalGateway", "cloudSQLGateway"} /\ gw' \in CachedGateways(p)
        /\ EnterPhase(p, PhaseItems(p)) /\ listed' = listed
    BY <1>4 DEF Advance
  <2>2. pc' = p /\ todo' = UNION {g.hosts \ InUse(g.name) : g \in CachedGateways(p)}
    BY <2>1 DEF EnterPhase, PhaseItems
  <2>3. gw' \in api["GW"]
    <3>1. View("GW") = api["GW"]
      BY DEF FreshHostCaches, RoutingKinds, StoreOK, View
    <3> QED
      BY <2>1, <3>1 DEF CachedGateways, Gateways
  <2>4. \A name : InUse(name)' = InUse(name)
    BY <2>1 DEF InUse, ExternalInUse, CloudSQLInUse
  <2>5. \A h \in gw'.hosts : h \notin InUse(gw'.name) => h \in todo'
    BY <2>1, <2>2
  <2>6. TakingOut'
    BY <1>1, <2>1, <2>2, <2>3, <2>4, <2>5 DEF TakingOut
  <2>7. Ensuring'
    BY <2>1, <2>2 DEF Ensuring
  <2> QED
    BY <1>1, <2>6, <2>7 DEF RoutesAnchored, OneGatewayEach
<1> QED
  BY <1>2, <1>3, <1>4

-----------------------------------------------------------------------------
(* The steps.                                                               *)

\* The calls of the other phases leave the objects of hosts alone.
LEMMA OtherCallsKeep ==
    ASSUME AInv, TInv', NEW x \in todo,
           PersistAllowlist(x) \/ IdentityStep(x) \/ PolicyStep(x)
    PROVE  AInv'
<1> USE DEF AInv, TInv
<1>1. {"SA", "GSA", "PM", "AP"} \subseteq Kinds \ RoutingKinds
  BY DEF Kinds, RoutingKinds, RouteKinds
<1>r. ASSUME ReadOnly \/ \E k \in {"SA", "GSA", "PM", "AP"} : \E objects : Write(k, objects)
      PROVE  HostObjectsKept
  BY <1>1, <1>r, WriteElsewhere DEF ReadOnly, HostObjectsKept
<1>2. CASE PersistAllowlist(x)
  BY <1>r, <1>2, ElsewhereKeeps DEF PersistAllowlist, DoneWith, DoneNoting, TakingOut
<1>3. CASE IdentityStep(x)
  <2>1. ReadOnly \/ \E k \in {"SA", "GSA", "PM", "AP"} : \E objects : Write(k, objects)
    BY <1>3 DEF IdentityStep, ReconcileIAMServiceAccount, ReconcileServiceAccount,
       CreateIAMPolicyMember, CleanupIAMPolicyMember, CleanupIAMServiceAccount,
       DeleteServiceAccount
  <2>2. pc \in {"serviceAccounts", "removeSAs", "removeSAsAgain"}
    BY <1>3 DEF IdentityStep, ReconcileIAMServiceAccount, ReconcileServiceAccount,
       CreateIAMPolicyMember, CleanupIAMPolicyMember, CleanupIAMServiceAccount,
       DeleteServiceAccount, Removing
  <2>3. UNCHANGED <<pc, gw>> \/ Forget
    BY <1>3, LoopFrame DEF GInv, FInv, CoreTypeOK, ReturnError
  <2> QED
    BY <1>r, <2>1, <2>2, <2>3, ElsewhereKeeps DEF TakingOut, Forget
<1>4. CASE PolicyStep(x)
  <2>1. ReadOnly \/ \E k \in {"SA", "GSA", "PM", "AP"} : \E objects : Write(k, objects)
    BY <1>4 DEF PolicyStep, EnsureAuthorizationPolicy, DeletePolicy, DeleteUnlistedPolicy
  <2>2. pc \in {"authzPolicies", "removedAuthz", "finalize", "internalHosts"}
    BY <1>4 DEF PolicyStep, EnsureAuthorizationPolicy, DeletePolicy, DeleteUnlistedPolicy
  <2>3. UNCHANGED <<pc, gw>> \/ Forget
    BY <1>4, LoopFrame DEF GInv, FInv, CoreTypeOK, ReturnError
  <2> QED
    BY <1>r, <2>1, <2>2, <2>3, ElsewhereKeeps DEF TakingOut, Forget
<1> QED
  BY <1>2, <1>3, <1>4

\* Every step keeps the invariant.
LEMMA AInvNext ==
    ASSUME FreshHostCaches, AInv, [Next]_vars
    PROVE  AInv'
<1>t. TInv'
  BY TInvNext DEF AInv
<1>r. ASSUME api' = api
      PROVE  HostObjectsKept
  BY <1>r DEF HostObjectsKept
<1>1. ASSUME NEW c \in CRs, Start(c)
      PROVE  AInv'
  <2>1. HostObjectsKept
    BY <1>1, <1>r DEF Start, ReadOnly
  <2>2. CASE UNCHANGED workerVars
    BY <1>t, <2>1, <2>2, WaitingKeeps
  <2>3. CASE ~UNCHANGED workerVars
    <3>1. pc' \in {"finalize", "addFinalizer", "persist"} /\ gw' = gw /\ pc = "idle"
      BY <1>1, <2>3 DEF Start, EnterPhase
    <3>2. gw' = None
      BY <3>1 DEF AInv, TakingOut
    <3> QED
      BY <1>t, <2>1, <3>1, <3>2, ElsewhereKeeps
  <2> QED
    BY <2>2, <2>3
<1>2. CASE AddFinalizer \/ RemoveFinalizer
  <2>1. HostObjectsKept
    BY <1>2, <1>r DEF AddFinalizer, RemoveFinalizer, ReadOnly
  <2>2. pc' \notin {"externalHosts", "cloudSQLHosts"} /\ (gw' = gw \/ gw' = None)
    BY <1>2 DEF AddFinalizer, RemoveFinalizer, ReturnError, ReturnNil, Forget, EnterPhase
  <2>3. gw = None
    BY <1>2 DEF AddFinalizer, RemoveFinalizer, AInv, TakingOut
  <2> QED
    BY <1>t, <2>1, <2>2, <2>3, ElsewhereKeeps
<1>3. ASSUME NEW x \in todo, HostStep(x)
      PROVE  AInv'
  BY <1>t, <1>3, GatewaySteps, RouteSteps, RemoveSteps DEF HostStep
<1>4. CASE Step
  BY <1>t, <1>2, <1>3, <1>4, AdvanceKeeps, CleanupGatewayKeeps, OtherCallsKeep DEF Step
<1>5. CASE Users \/ Caches \/ Background
  <2>1. UNCHANGED workerVars
    BY <1>5 DEF Users, Caches, Background
  <2>2. ASSUME NEW k \in Kinds, GarbageCollect(k)
        PROVE  HostObjectsKept
    <3>1. k \in Kinds \ RoutingKinds
      BY <2>2 DEF GarbageCollect, RoutingKinds, RouteKinds
    <3> QED
      BY <2>2, <3>1, WriteElsewhere DEF GarbageCollect, AInv, TInv
  <2>3. api' = api \/ \E k \in Kinds : GarbageCollect(k)
    BY <1>5 DEF Users, UserCreate, UserEdit, UserDelete, Caches, Observe, CatchUp,
                Background, Resync
  <2>4. HostObjectsKept
    BY <1>r, <2>2, <2>3
  <2> QED
    BY <1>t, <2>1, <2>4, WaitingKeeps
<1>6. CASE Trouble
  <2>1. Forget /\ api' = api
    BY <1>6 DEF Trouble, CallFails, Restart, ReturnError, ReadOnly
  <2> QED
    BY <1>r, <1>t, <2>1, WaitingKeeps
<1>7. CASE UNCHANGED vars
  BY <1>r, <1>t, <1>7, WaitingKeeps DEF vars, clusterVars
<1> QED
  BY <1>1, <1>4, <1>5, <1>6, <1>7 DEF Next

\* The routes of a host are made after the gateway has it (reconciler.go:18-73) and
\* taken away before the gateway drops it (cleanup.go:201-221): when the caches of
\* gateways and routes do not lag, every route can be found from its gateway,
\* wherever a reconcile failed, ended or was followed by one of another CR.
THEOREM RoutesAreAnchored ==
    ASSUME FreshHostCaches
    PROVE  Spec => []RoutesAnchored
<1>1. Init => AInv
  BY AInvInit
<1>2. AInv /\ [Next]_vars => AInv'
  BY AInvNext
<1>3. AInv => RoutesAnchored
  BY DEF AInv
<1> QED
  BY <1>1, <1>2, <1>3, PTL DEF Spec

-----------------------------------------------------------------------------
(* What the cleanups leave, once every CR is settled.                       *)

\* A CR that was never created is known nowhere.
Created ==
    \A c \in CRs : utsa[c].uid = 0 =>
        /\ ~utsa[c].live /\ seenUtsa[c] = utsa[c]
        /\ c \notin queue /\ (pc = "idle" \/ job.cr # c)

\* The hosts of the spec that are done with are in their gateway, until policies for
\* them are made.
Ensured ==
    /\ \A i \in ExternalItems :
          (pc = "externalHosts" /\ i \notin todo) \/ pc \in {"cloudSQLHosts", "authzPolicies"}
             => Anchored(i[2])
    /\ \A i \in CloudSQLItems :
          (pc = "cloudSQLHosts" /\ i \notin todo) \/ pc = "authzPolicies" => Anchored(i[2])

\* The policies of external hosts are anchored like the routes, and taken out with
\* them.
ExternalPolicies == {ap \in api["AP"] : ap.type = "external"}
PoliciesAnchored == \A ap \in ExternalPolicies : Anchored(ap.host)
TakingOutPolicies ==
    gw # None => \A ap \in ExternalPolicies :
        ap.host \in gw.hosts /\ ap.host \notin InUse(gw.name) => ap.host \in todo

\* The cleanup works on the specs that the cache still shows, or some CR is queued.
ListedNow ==
    pc \in {"internalHosts", "externalGateway", "cloudSQLGateway"} /\ queue = {}
       => listed = ListedSpecs

\* A gateway has only hosts in use, once its phase is through with it.
Swept(name) == \A g \in api["GW"] : g.name = name => g.hosts \subseteq InUse(name)
Sweeping ==
    /\ gw # None => gw.name = IF pc = "externalGateway" THEN "external" ELSE "cloudsql"
    /\ pc = "externalGateway" /\ gw = None => Swept("external")
    /\ pc = "cloudSQLGateway" => Swept("external") /\ (gw = None => Swept("cloudsql"))

\* When all CRs are settled the gateways have only hosts that some CR lists.
AllSettled == \A c \in CRs : Settled(c) \/ utsa[c].uid = 0
GatewaysListed ==
    AllSettled => \A g \in api["GW"] :
        g.hosts \subseteq ListedHosts \cup (IF g.name = "external" THEN {} ELSE {"*"})

PInv == AInv /\ Ensured /\ PoliciesAnchored /\ TakingOutPolicies
UInv == PInv /\ SInv /\ Created /\ ListedNow /\ Sweeping /\ GatewaysListed

\* A gateway loses hosts only in its cleanup, and gains some only in two phases.
LEMMA GatewaysGrow ==
    ASSUME AInv, [Next]_vars, ~CleanupGateway
    PROVE  /\ \A h : Anchored(h) => Anchored(h)'
           /\ pc \notin {"externalHosts", "cloudSQLHosts"} => api'["GW"] = api["GW"]
<1> USE DEF AInv, TInv
<1>k. "GW" \in Kinds
  BY DEF Kinds
<1>s. api'["GW"] = api["GW"] => \A h : Anchored(h) => Anchored(h)'
  BY DEF Anchored
<1>1. ASSUME NEW x, EnsureGatewayExists(x) \/ EnsureGatewayContainsHost(x)
      PROVE  /\ pc \in {"externalHosts", "cloudSQLHosts"}
             /\ \A h : Anchored(h) => Anchored(h)'
  <2>1. pc \in {"externalHosts", "cloudSQLHosts"}
    BY <1>1 DEF EnsureGatewayExists, EnsureGatewayContainsHost, EnsuringHost
  <2>2. \/ api'["GW"] = api["GW"]
        \/ \E o : Write("GW", api["GW"] \cup {o})
        \/ \E g : UpdateGateway(g, g.hosts \cup {x[2]})
    BY <1>1 DEF EnsureGatewayExists, EnsureGatewayContainsHost, UpdateConflicts, ReadOnly
  <2>3. ASSUME NEW o, Write("GW", api["GW"] \cup {o})
        PROVE  \A h : Anchored(h) => Anchored(h)'
    BY <1>k, <2>3, WriteEffect DEF Anchored
  <2>4. ASSUME NEW g, UpdateGateway(g, g.hosts \cup {x[2]})
        PROVE  \A h : Anchored(h) => Anchored(h)'
    <3> DEFINE g2 == [g EXCEPT !.hosts = g.hosts \cup {x[2]}]
    <3>1. g \in api["GW"] /\ api'["GW"] = (api["GW"] \ {g}) \cup {g2}
      BY <1>k, <2>4, WriteEffect DEF UpdateGateway
    <3>2. g2.hosts = g.hosts \cup {x[2]}
      <4>1. g \in [name : {"external", "cloudsql"}, hosts : SUBSET (Hosts \cup {"*"})]
        BY <1>k, <3>1, ObjectTypes DEF StoreOK
      <4> QED
        BY <4>1
    <3> HIDE DEF g2
    <3> QED
      BY <3>1, <3>2 DEF Anchored
  <2> QED
    BY <1>s, <2>1, <2>2, <2>3, <2>4
<1>2. ASSUME NEW x, EnsureVirtualService(x) \/ EnsureDestinationRule(x) \/ EnsureServiceEntry(x)
      PROVE  api'["GW"] = api["GW"]
  <2>1. ReadOnly \/ \E k \in Kinds \ {"GW"} : \E objects : Write(k, objects)
    BY <1>2 DEF EnsureVirtualService, EnsureDestinationRule, EnsureServiceEntry, CreateUnless,
       Kinds
  <2> QED
    BY <1>k, <2>1, WriteEffect DEF ReadOnly
<1>3. ASSUME NEW x, HostStep(x)
      PROVE  /\ \A h : Anchored(h) => Anchored(h)'
             /\ pc \notin {"externalHosts", "cloudSQLHosts"} => api'["GW"] = api["GW"]
  BY <1>s, <1>1, <1>2, <1>3, RemoveEffect DEF HostStep
<1>4. ASSUME NEW x, IdentityStep(x) \/ PolicyStep(x)
      PROVE  api'["GW"] = api["GW"]
  BY <1>4, IdentityWrites, PolicyWrites DEF Kinds, IdentityKinds
<1> QED
  BY <1>s, <1>3, <1>4, OtherWrites DEF Next, Step, Kinds, IdentityKinds

\* The phase before.
LEMMA PhaseBefore ==
    ASSUME BeginsPhase
    PROVE  /\ pc' = "cloudSQLHosts" => pc = "externalHosts"
           /\ pc' = "authzPolicies" => pc = "cloudSQLHosts"
           /\ pc' = "removedAuthz" => pc = "authzPolicies"
           /\ pc' = "internalHosts" => pc = "removedAuthz"
           /\ pc' = "externalGateway" => pc = "internalHosts"
           /\ pc' = "cloudSQLGateway" => pc = "externalGateway"
BY DEF BeginsPhase, NextPhase

\* An external host that is done with is in its gateway.
LEMMA EnsuredNext ==
    ASSUME PInv, [Next]_vars
    PROVE  Ensured'
<1> USE DEF PInv
<1> DEFINE phases == {"externalHosts", "cloudSQLHosts", "authzPolicies"}
<1>1. CASE pc' \notin phases
  BY <1>1 DEF Ensured
<1>2. CASE pc' \in phases
  <2> USE DEF AInv, TInv, GInv, FInv
  <2>1. BeginsPhase \/ Waits \/ Works
    BY <1>2, PhaseSteps DEF NextPhase
  <2>2. ~CleanupGateway
    <3>1. CASE Works
      BY <1>2, <3>1 DEF Works, CleanupGateway
    <3>2. CASE BeginsPhase
      BY <3>2 DEF BeginsPhase, Advance, CleanupGateway
    <3>3. CASE Waits
      BY <1>2, <3>3 DEF Waits, workerVars, CleanupGateway
    <3> QED
      BY <2>1, <3>1, <3>2, <3>3
  <2>3. \A h : Anchored(h) => Anchored(h)'
    BY <2>2, GatewaysGrow
  <2>4. ExternalItems' = ExternalItems /\ CloudSQLItems' = CloudSQLItems
    BY <2>1 DEF BeginsPhase, Waits, Works, workerVars, ExternalItems, CloudSQLItems, Listed, spec
  <2>5. CASE BeginsPhase
    <3>1. todo = {} /\ todo' = PhaseItems(pc')
      BY <2>5 DEF BeginsPhase, EnterPhase
    <3>2. CASE pc' = "externalHosts"
      <4>1. todo' = ExternalItems
        BY <3>1, <3>2 DEF PhaseItems
      <4> QED
        BY <2>4, <3>2, <4>1 DEF Ensured
    <3>3. CASE pc' = "cloudSQLHosts"
      <4>1. todo' = CloudSQLItems /\ pc = "externalHosts"
        BY <2>5, <3>1, <3>3, PhaseBefore DEF PhaseItems
      <4> QED
        BY <2>3, <2>4, <3>1, <3>3, <4>1 DEF Ensured
    <3>4. CASE pc' = "authzPolicies"
      BY <2>3, <2>4, <2>5, <3>1, <3>4, PhaseBefore DEF Ensured
    <3> QED
      BY <1>2, <3>2, <3>3, <3>4
  <2>6. CASE Waits
    BY <2>3, <2>4, <2>6 DEF Waits, workerVars, Ensured
  <2>7. CASE Works
    <3>1. pc' = pc
      BY <2>7 DEF Works
    <3>2. ASSUME pc # "authzPolicies"
          PROVE  todo' = todo \/ \E x \in todo : todo' = todo \ {x} /\ Anchored(x[2])
      <4>1. PICK x \in todo : HostStep(x)
        BY <1>2, <2>2, <2>7, <3>1, <3>2, IdentityWrites
           DEF Works, PolicyStep, EnsureAuthorizationPolicy, DeletePolicy, DeleteUnlistedPolicy
      <4>2. CASE EnsureServiceEntry(x)
        <5>1. EnsuringHost(x, 6)
          BY <4>2 DEF EnsureServiceEntry
        <5>2. Anchored(x[2])
          BY <5>1, EnsuringHostFacts
        <5>3. todo' = todo \ {x} \/ ReturnError
          BY <4>2 DEF EnsureServiceEntry, CreateUnless, DoneWith, DoneNoting
        <5> QED
          BY <1>2, <3>1, <5>2, <5>3 DEF ReturnError, Forget
      <4>3. CASE ~EnsureServiceEntry(x)
        <5>1. ~RemoveExternalHost(x)
          BY <1>2, <3>1 DEF RemoveExternalHost
        <5>2. NextCall(x) \/ ReturnError
          BY <4>1, <4>3, <5>1 DEF HostStep, EnsureGatewayExists, EnsureGatewayContainsHost,
             EnsureVirtualService, EnsureDestinationRule, CreateUnless
        <5> QED
          BY <1>2, <3>1, <5>2 DEF NextCall, NextCallNoting, ReturnError, Forget
      <4> QED
        BY <4>2, <4>3
    <3> QED
      BY <1>2, <2>3, <2>4, <3>1, <3>2 DEF Ensured
  <2> QED
    BY <2>1, <2>5, <2>6, <2>7
<1> QED
  BY <1>1, <1>2

\* A policy of an external host is made for a host that is in its gateway.
LEMMA PoliciesAnchoredNext ==
    ASSUME PInv, [Next]_vars
    PROVE  PoliciesAnchored'
<1> USE DEF PInv
<1> SUFFICES ASSUME NEW ap \in api'["AP"], ap.type = "external"
             PROVE  Anchored(ap.host)'
  BY DEF PoliciesAnchored, ExternalPolicies
<1>1. CASE ap \notin api["AP"]
  <2>1. PICK i \in PolicyItems : ap = i[2]
    BY <1>1, PoliciesGrow DEF AInv
  <2>2. pc = "authzPolicies"
    BY <1>1, PoliciesGrow DEF AInv
  <2>3. PICK s \in Listed : ap.host \in spec.sas[s].ext \cup spec.sas[s].sql
    BY <2>1 DEF PolicyItems, Policy
  <2>4. <<s, ap.host>> \in ExternalItems \cup CloudSQLItems
    BY <2>3 DEF ExternalItems, CloudSQLItems
  <2>5. Anchored(<<s, ap.host>>[2])
    BY <2>2, <2>4 DEF Ensured
  <2>6. ~CleanupGateway
    BY <2>2 DEF CleanupGateway
  <2> QED
    BY <2>5, <2>6, GatewaysGrow
<1>2. CASE ap \in api["AP"]
  <2>1. Anchored(ap.host)
    BY <1>2 DEF PoliciesAnchored, ExternalPolicies
  <2>2. CASE CleanupGateway
    <3>1. ap.host \in gw.hosts => ap.host \in InUse(gw.name)
      BY <1>2, <2>2 DEF CleanupGateway, TakingOutPolicies, ExternalPolicies
    <3> QED
      BY <2>1, <2>2, <3>1, CleanupKeepsAnchored
  <2>3. CASE ~CleanupGateway
    BY <2>1, <2>3, GatewaysGrow
  <2> QED
    BY <2>2, <2>3
<1> QED
  BY <1>1, <1>2

\* In the last two phases of a reconcile, a call is for a host to take out, or for the
\* gateway.
LEMMA WorkingGateway ==
    ASSUME StoreOK, Works, pc \in {"externalGateway", "cloudSQLGateway"}
    PROVE  CleanupGateway \/ \E x \in todo : RemoveExternalHost(x)
<1>1. ASSUME NEW x, IdentityStep(x) \/ PolicyStep(x)
      PROVE  FALSE
  BY <1>1, IdentityWrites
     DEF PolicyStep, EnsureAuthorizationPolicy, DeletePolicy, DeleteUnlistedPolicy
<1>2. ASSUME NEW x, HostStep(x)
      PROVE  RemoveExternalHost(x)
  BY <1>2, HostWrites
<1> QED
  BY <1>1, <1>2 DEF Works

LEMMA TakingOutPoliciesNext ==
    ASSUME FreshHostCaches, "AP" \notin Lagging, PInv, AInv', [Next]_vars
    PROVE  TakingOutPolicies'
<1> USE DEF PInv, AInv, TInv, GInv, FInv
<1> SUFFICES ASSUME gw' # None
             PROVE  \A ap \in ExternalPolicies' :
                       ap.host \in gw'.hosts /\ ap.host \notin InUse(gw.name)' => ap.host \in todo'
  BY DEF TakingOutPolicies
<1>1. pc' \in {"externalGateway", "cloudSQLGateway"}
  BY DEF TakingOut
<1>2. BeginsPhase \/ Waits \/ Works
  BY <1>1, PhaseSteps DEF NextPhase
<1>3. CASE BeginsPhase
  <2>1. /\ gw' \in CachedGateways(pc') /\ listed' = listed
        /\ todo' = UNION {g.hosts \ InUse(g.name) : g \in CachedGateways(pc')}
    BY <1>1, <1>3 DEF BeginsPhase, Advance, EnterPhase, PhaseItems, ReturnError, ReturnNil, Forget
  <2>2. InUse(gw.name)' = InUse(gw'.name)
    BY <2>1 DEF InUse, ExternalInUse, CloudSQLInUse
  <2> QED
    BY <2>1, <2>2
<1>4. CASE Waits
  <2>1. api'["AP"] = api["AP"]
    BY <1>4, OtherWrites DEF Waits, Kinds, IdentityKinds
  <2>2. UNCHANGED <<gw, todo, listed>>
    BY <1>4 DEF Waits, workerVars
  <2>3. InUse(gw.name)' = InUse(gw.name)
    BY <2>2 DEF InUse, ExternalInUse, CloudSQLInUse
  <2> QED
    BY <2>1, <2>2, <2>3 DEF TakingOutPolicies, ExternalPolicies
<1>5. CASE Works
  <2>1. pc' = pc
    BY <1>5 DEF Works
  <2>2. ~CleanupGateway
    BY <1>1, CleanupEffect DEF ReturnError, Forget
  <2>3. PICK h \in todo : RemoveExternalHost(h)
    BY <1>1, <1>5, <2>1, <2>2, WorkingGateway
  <2>4. /\ DoneWith(h) /\ \A ap \in api'["AP"] : ap \in api["AP"] /\ ap.host # h
    BY <1>1, <2>3, RemoveEffect DEF Kinds, ReturnError, Forget
  <2>5. UNCHANGED <<gw, listed>> /\ todo' = todo \ {h}
    BY <2>4 DEF DoneWith, DoneNoting
  <2>6. InUse(gw.name)' = InUse(gw.name)
    BY <2>5 DEF InUse, ExternalInUse, CloudSQLInUse
  <2> QED
    BY <2>4, <2>5, <2>6 DEF TakingOutPolicies, ExternalPolicies
<1> QED
  BY <1>2, <1>3, <1>4, <1>5

\* A CR that was never created is neither changed, nor shown, nor queued.
LEMMA CreatedNext ==
    ASSUME TInv, Created, [Next]_vars
    PROVE  Created'
<1> USE DEF TInv, GInv, FInv, CoreTypeOK
<1> SUFFICES ASSUME NEW c \in CRs, utsa'[c].uid = 0
             PROVE  /\ ~utsa'[c].live /\ seenUtsa'[c] = utsa'[c]
                    /\ c \notin queue' /\ (pc' = "idle" \/ job'.cr # c)
  BY DEF Created
<1>1. utsa[c].uid = 0 /\ ~utsa'[c].live
  <2>1. utsa[c].uid = 0
    BY UidsGrow DEF Resource
  <2> QED
    BY <2>1, UidsGrow DEF Created
<1>2. /\ ~utsa[c].live /\ seenUtsa[c] = utsa[c]
      /\ c \notin queue /\ (pc = "idle" \/ job.cr # c)
  BY <1>1 DEF Created
<1> SUFFICES seenUtsa'[c] = utsa'[c] /\ c \notin queue' /\ (pc' = "idle" \/ job'.cr # c)
  BY <1>1
<1>q. ASSUME UNCHANGED <<utsa, seenUtsa>>,
             \/ ReturnError /\ pc # "idle"
             \/ UNCHANGED <<pc, job, queue>>
             \/ pc' = "idle" /\ queue' = queue
      PROVE  seenUtsa'[c] = utsa'[c] /\ c \notin queue' /\ (pc' = "idle" \/ job'.cr # c)
  BY <1>2, <1>q DEF ReturnError, Forget
<1>3. ASSUME NEW d \in CRs, Start(d)
      PROVE  seenUtsa'[c] = utsa'[c] /\ c \notin queue' /\ (pc' = "idle" \/ job'.cr # c)
  <2>1. UNCHANGED <<utsa, seenUtsa>> /\ queue' = queue \ {d} /\ d # c
    BY <1>2, <1>3 DEF Start
  <2>2. UNCHANGED <<pc, job>> \/ job'.cr = d
    BY <1>3 DEF Start, workerVars
  <2> QED
    BY <1>2, <2>1, <2>2
<1>4. CASE AddFinalizer
  <2>1. CASE ReturnError /\ utsa' = utsa
    BY <1>4, <2>1, <1>q DEF AddFinalizer
  <2>2. CASE ~(ReturnError /\ utsa' = utsa)
    <3>1. /\ UNCHANGED <<seenUtsa, queue>> /\ pc # "idle"
          /\ utsa' = [utsa EXCEPT ![job.cr].fin = TRUE]
          /\ job' = [job EXCEPT !.obj.fin = TRUE]
      BY <1>4, <2>2 DEF AddFinalizer
    <3> QED
      BY <1>2, <3>1
  <2> QED
    BY <2>1, <2>2
<1>5. CASE RemoveFinalizer
  <2>1. CASE ReturnError /\ utsa' = utsa
    BY <1>5, <2>1, <1>q DEF RemoveFinalizer
  <2>2. CASE ~(ReturnError /\ utsa' = utsa)
    <3>1. /\ UNCHANGED <<seenUtsa, queue>> /\ pc # "idle" /\ pc' = "idle"
          /\ utsa' = [utsa EXCEPT ![job.cr].fin = FALSE, ![job.cr].live = FALSE]
      BY <1>5, <2>2 DEF RemoveFinalizer, ReturnNil, Forget
    <3> QED
      BY <1>2, <3>1
  <2> QED
    BY <2>1, <2>2
<1>6. CASE Advance
  <2>1. UNCHANGED <<utsa, seenUtsa>> /\ pc # "idle"
    BY <1>6, Phases DEF Advance
  <2>2. ReturnError \/ (pc' = "idle" /\ queue' = queue) \/ UNCHANGED <<job, queue>>
    BY <1>6 DEF Advance, ReturnNil, Forget
  <2> QED
    BY <1>2, <1>q, <2>1, <2>2
<1>7. CASE CleanupGateway
  <2>1. UNCHANGED <<utsa, seenUtsa>> /\ pc # "idle"
        /\ (ReturnError \/ UNCHANGED <<pc, job, queue>>)
    BY <1>7 DEF CleanupGateway
  <2> QED
    BY <2>1, <1>q
<1>8. ASSUME NEW x, PersistAllowlist(x)
      PROVE  seenUtsa'[c] = utsa'[c] /\ c \notin queue' /\ (pc' = "idle" \/ job'.cr # c)
  <2>1. UNCHANGED <<utsa, seenUtsa, pc, job, queue>>
    BY <1>8 DEF PersistAllowlist, DoneWith, DoneNoting
  <2> QED
    BY <2>1, <1>q
<1>9. ASSUME NEW x, IdentityStep(x) \/ HostStep(x) \/ PolicyStep(x)
      PROVE  seenUtsa'[c] = utsa'[c] /\ c \notin queue' /\ (pc' = "idle" \/ job'.cr # c)
  <2>1. UNCHANGED <<utsa, seenUtsa>> /\ pc # "idle"
        /\ (ReturnError \/ UNCHANGED <<pc, job, queue>>)
    <3>1. pc # "idle"
      BY <1>9, IdentityWrites, HostWrites
         DEF PolicyStep, EnsureAuthorizationPolicy, DeletePolicy, DeleteUnlistedPolicy
    <3> QED
      BY <1>9, <3>1, LoopFrame DEF LoopKeeps
  <2> QED
    BY <2>1, <1>q
<1>10. CASE Users
  <2>1. UNCHANGED <<seenUtsa, queue, pc, job>>
    BY <1>10 DEF Users, UserCreate, UserEdit, UserDelete, workerVars
  <2>2. ASSUME NEW d \in CRs, NEW s \in Specs[d], UserCreate(d, s)
        PROVE  utsa'[c] = utsa[c]
    BY <1>1, <2>2 DEF UserCreate, Resource
  <2>3. ASSUME NEW d \in CRs, NEW s \in Specs[d], UserEdit(d, s)
        PROVE  utsa'[c] = utsa[c]
    BY <1>2, <2>3 DEF UserEdit
  <2>4. ASSUME NEW d \in CRs, UserDelete(d)
        PROVE  utsa'[c] = utsa[c]
    BY <1>2, <2>4 DEF UserDelete
  <2> QED
    BY <1>2, <1>10, <2>1, <2>2, <2>3, <2>4 DEF Users
<1>11. CASE Caches /\ Observe
  BY <1>2, <1>11 DEF Caches, Observe, workerVars
<1>12. ASSUME NEW d \in CRs, Resync(d), UNCHANGED workerVars
       PROVE  seenUtsa'[c] = utsa'[c] /\ c \notin queue' /\ (pc' = "idle" \/ job'.cr # c)
  BY <1>2, <1>12 DEF Resync, workerVars
<1>13. CASE Restart
  BY <1>2, <1>13 DEF Restart, Forget
<1>14. CASE CallFails
  BY <1>14, <1>q DEF CallFails
<1>15. CASE \/ Caches /\ ~Observe
            \/ Background /\ ~\E d \in CRs : Resync(d)
            \/ UNCHANGED vars
  <2>1. UNCHANGED <<utsa, seenUtsa, pc, job, queue>>
    BY <1>15 DEF Caches, CatchUp, Background, GarbageCollect, workerVars, vars, clusterVars
  <2> QED
    BY <2>1, <1>q
<1>16. CASE Background /\ \E d \in CRs : Resync(d)
  BY <1>12, <1>16 DEF Background
<1>17. CASE Step
  BY <1>4, <1>5, <1>6, <1>7, <1>8, <1>9, <1>17 DEF Step
<1> QED
  BY <1>3, <1>10, <1>11, <1>13, <1>14, <1>15, <1>16, <1>17 DEF Next, Trouble

\* The specs are listed when the cleanup begins; whatever the informer shows after
\* that is queued.
LEMMA ListedNext ==
    ASSUME TInv, ListedNow, [Next]_vars
    PROVE  ListedNow'
<1> USE DEF TInv, GInv, FInv
<1> SUFFICES ASSUME pc' \in {"internalHosts", "externalGateway", "cloudSQLGateway"}, queue' = {}
             PROVE  listed' = ListedSpecs'
  BY DEF ListedNow
<1>1. BeginsPhase \/ Waits \/ Works
  BY PhaseSteps DEF NextPhase
<1>s. seenUtsa' = seenUtsa => ListedSpecs' = ListedSpecs
  BY DEF ListedSpecs
<1>2. CASE BeginsPhase
  <2>1. seenUtsa' = seenUtsa /\ queue' = queue
    BY <1>2 DEF BeginsPhase, Advance
  <2>2. CASE pc' = "internalHosts"
    <3>1. listed' = ListedSpecs
      BY <1>2, <2>2 DEF BeginsPhase, Advance, ReturnError, ReturnNil, Forget
    <3> QED
      BY <1>s, <2>1, <3>1
  <2>3. CASE pc' \in {"externalGateway", "cloudSQLGateway"}
    <3>1. listed' = listed
      BY <1>2, <2>3 DEF BeginsPhase, Advance, ReturnError, ReturnNil, Forget
    <3>2. pc \in {"internalHosts", "externalGateway"}
      BY <1>2, <2>3, PhaseBefore
    <3> QED
      BY <1>s, <2>1, <3>1, <3>2 DEF ListedNow
  <2> QED
    BY <2>2, <2>3
<1>3. CASE Waits
  <2>1. UNCHANGED <<pc, listed>>
    BY <1>3 DEF Waits, workerVars
  <2>2. CASE Caches /\ Observe
    <3>1. queue = {} /\ \A c \in CRs : seenUtsa[c] = utsa[c]
      BY <2>2 DEF Observe
    <3>2. seenUtsa' = utsa
      BY <2>2 DEF Observe
    <3>3. ListedSpecs' = ListedSpecs
      BY <3>1, <3>2 DEF ListedSpecs
    <3> QED
      BY <2>1, <3>1, <3>3 DEF ListedNow
  <2>3. CASE ~(Caches /\ Observe)
    <3>1. seenUtsa' = seenUtsa /\ queue \subseteq queue'
      BY <1>3, <2>3 DEF Waits, Users, UserCreate, UserEdit, UserDelete, Caches, CatchUp,
         Background, Resync, GarbageCollect, vars, clusterVars
    <3>2. queue = {}
      BY <3>1
    <3> QED
      BY <1>s, <2>1, <3>1, <3>2 DEF ListedNow
  <2> QED
    BY <2>2, <2>3
<1>4. CASE Works
  <2>1. pc' = pc /\ pc' # "idle"
    BY <1>4 DEF Works
  <2>2. seenUtsa' = seenUtsa /\ listed' = listed /\ queue' = queue
    <3>1. CASE CleanupGateway
      BY <2>1, <3>1 DEF CleanupGateway, ReturnError, Forget
    <3>2. ASSUME NEW x, IdentityStep(x) \/ HostStep(x) \/ PolicyStep(x)
          PROVE  seenUtsa' = seenUtsa /\ listed' = listed /\ queue' = queue
      BY <2>1, <3>2, LoopFrame DEF LoopKeeps, CoreTypeOK, ReturnError, Forget
    <3> QED
      BY <1>4, <3>1, <3>2 DEF Works
  <2> QED
    BY <1>s, <2>1, <2>2 DEF ListedNow
<1> QED
  BY <1>1, <1>2, <1>3, <1>4

\* What is in use is decided by what is listed.
LEMMA InUseStays ==
    ASSUME listed' = listed
    PROVE  \A name : InUse(name)' = InUse(name)
BY DEF InUse, ExternalInUse, CloudSQLInUse

\* A phase of the cleanup begins with a gateway, if there is one.
LEMMA SweepingBegins ==
    ASSUME FreshHostCaches, AInv, BeginsPhase, NEW p, pc' = p,
           p \in {"externalGateway", "cloudSQLGateway"},
           NEW name, name = IF p = "externalGateway" THEN "external" ELSE "cloudsql"
    PROVE  /\ UNCHANGED <<api, listed>> /\ gw = None
           /\ gw' # None => gw'.name = name
           /\ gw' = None => Swept(name)'
<1> USE DEF AInv, TInv
<1>1. /\ UNCHANGED <<api, listed>> /\ gw = None
      /\ \/ gw' \in CachedGateways(p)
         \/ CachedGateways(p) = {} /\ gw' = None
  BY DEF BeginsPhase, Advance, EnterPhase, ReturnError, ReturnNil, Forget
<1>2. CachedGateways(p) = {g \in api["GW"] : g.name = name}
  <2>1. View("GW") = api["GW"]
    BY DEF FreshHostCaches, RoutingKinds, StoreOK, View
  <2> QED
    BY <2>1 DEF CachedGateways, Gateways
<1>3. None \notin api["GW"]
  BY WorkerAssumption DEF StoreOK, Kinds
<1>4. gw' = None => CachedGateways(p) = {}
  BY <1>1, <1>2, <1>3
<1>5. gw' = None => Swept(name)'
  BY <1>1, <1>2, <1>4 DEF Swept
<1> QED
  BY <1>1, <1>2, <1>5

\* A gateway that is through with its cleanup has only hosts in use.
LEMMA SweepingNext ==
    ASSUME FreshHostCaches, AInv, AInv', Sweeping, [Next]_vars
    PROVE  Sweeping'
<1> USE DEF AInv, TInv, GInv, FInv
<1>1. CASE pc' \notin {"externalGateway", "cloudSQLGateway"}
  BY <1>1 DEF Sweeping, TakingOut
<1>2. CASE pc' \in {"externalGateway", "cloudSQLGateway"}
  <2>1. BeginsPhase \/ Waits \/ Works
    BY <1>2, PhaseSteps DEF NextPhase
  <2>s. ASSUME UNCHANGED <<listed>>, api'["GW"] = api["GW"], NEW name, Swept(name)
        PROVE  Swept(name)'
    BY <2>s, InUseStays DEF Swept
  <2>2. CASE BeginsPhase
    <3>1. CASE pc' = "externalGateway"
      BY <2>2, <3>1, SweepingBegins DEF Sweeping
    <3>2. CASE pc' = "cloudSQLGateway"
      <4>1. pc = "externalGateway" /\ gw = None
        BY <2>2, <3>2, PhaseBefore, SweepingBegins
      <4>2. Swept("external")'
        BY <2>2, <2>s, <3>2, <4>1, SweepingBegins DEF Sweeping
      <4> QED
        BY <2>2, <3>2, <4>2, SweepingBegins DEF Sweeping
    <3> QED
      BY <1>2, <3>1, <3>2
  <2>3. CASE Waits
    <3>1. api'["GW"] = api["GW"]
      BY <2>3, OtherWrites DEF Waits, Kinds, IdentityKinds
    <3>2. UNCHANGED <<pc, gw, listed>>
      BY <2>3 DEF Waits, workerVars
    <3> QED
      BY <2>s, <3>1, <3>2 DEF Sweeping
  <2>4. CASE Works /\ CleanupGateway
    <3>1. pc' = pc /\ gw # None /\ gw' = None /\ listed' = listed
      BY <1>2, <2>4, CleanupEffect DEF Works, CleanupGateway, ReturnError, Forget
    <3>2. ~ReturnError
      BY <1>2 DEF ReturnError, Forget
    <3>3. ASSUME NEW name, name = gw.name
          PROVE  Swept(name)'
      <4>1. \A g \in api'["GW"] : g.name = name => g.hosts = InUse(name)
        BY <2>4, <3>2, <3>3, CleanupEffect
      <4> QED
        BY <3>1, <4>1, InUseStays DEF Swept
    <3>4. ASSUME NEW name, name # gw.name, Swept(name)
          PROVE  Swept(name)'
      BY <2>4, <3>1, <3>2, <3>4, CleanupEffect, InUseStays DEF Swept
    <3>5. gw.name = IF pc = "externalGateway" THEN "external" ELSE "cloudsql"
      BY <3>1 DEF Sweeping
    <3> QED
      BY <3>1, <3>3, <3>4, <3>5 DEF Sweeping
  <2>5. CASE Works /\ ~CleanupGateway
    <3>1. pc' = pc
      BY <2>5 DEF Works
    <3>2. PICK h \in todo : RemoveExternalHost(h)
      BY <1>2, <2>5, <3>1, WorkingGateway
    <3>3. api'["GW"] = api["GW"] /\ UNCHANGED <<gw, listed>>
      BY <1>2, <3>2, RemoveEffect DEF DoneWith, DoneNoting, ReturnError, Forget
    <3> QED
      BY <2>s, <3>1, <3>3 DEF Sweeping
  <2> QED
    BY <2>1, <2>2, <2>3, <2>4, <2>5
<1> QED
  BY <1>1, <1>2

\* With all CRs settled the worker has nothing to do, and the cache shows them.
LEMMA AllSettledIdle ==
    ASSUME TInv, Created, AllSettled
    PROVE  pc = "idle"
<1>1. job.cr \in CRs
  BY DEF TInv, GInv, FInv, CoreTypeOK
<1> QED
  BY <1>1 DEF AllSettled, Created, Settled

\* What the last reconcile has swept stays so until a CR changes.
LEMMA GatewaysListedNext ==
    ASSUME UInv, [Next]_vars
    PROVE  GatewaysListed'
<1> USE DEF UInv, PInv, AInv, TInv, GInv, FInv
<1> SUFFICES ASSUME AllSettled', NEW g \in api'["GW"]
             PROVE  g.hosts \subseteq
                       ListedHosts \cup (IF g.name = "external" THEN {} ELSE {"*"})
                    /\ ListedHosts' = ListedHosts
  BY DEF GatewaysListed
<1>1. ASSUME NEW c \in CRs
      PROVE  \/ utsa'[c].uid = 0 /\ utsa[c].uid = 0
             \/ Settled(c)' /\ utsa'[c] = utsa[c] /\ (Settled(c) \/ Finishing(c))
  <2>1. CASE utsa'[c].uid = 0
    BY <2>1, UidsGrow DEF CoreTypeOK, Resource
  <2>2. CASE Settled(c)'
    BY <2>2, SettledBefore
  <2> QED
    BY <2>1, <2>2 DEF AllSettled
<1>2. ListedHosts' = ListedHosts
  <2>1. \A c \in CRs : /\ utsa'[c].live <=> utsa[c].live
                       /\ utsa[c].live => utsa'[c] = utsa[c]
    BY <1>1, CreatedNext DEF Created
  <2>2. {utsa'[c].spec : c \in {d \in CRs : utsa'[d].live}}
           = {utsa[c].spec : c \in {d \in CRs : utsa[d].live}}
    BY <2>1
  <2> QED
    BY <2>2 DEF ListedHosts
<1>3. CASE AllSettled
  <2>1. pc = "idle"
    BY <1>3, AllSettledIdle
  <2>2. api'["GW"] = api["GW"]
    <3>1. ~CleanupGateway
      BY <2>1 DEF CleanupGateway
    <3> QED
      BY <2>1, <3>1, GatewaysGrow
  <2> QED
    BY <1>2, <1>3, <2>2 DEF GatewaysListed
<1>4. CASE ~AllSettled
  <2>1. PICK c \in CRs : Finishing(c)
    BY <1>1, <1>4 DEF AllSettled
  <2>2. queue = {}
    <3>1. \A d \in CRs : d \notin queue
      BY <1>1 DEF Settled, Finishing, Created
    <3> QED
      BY <3>1 DEF RestOK
  <2>3. \A d \in CRs : /\ seenUtsa[d].live <=> utsa[d].live
                       /\ utsa[d].live => seenUtsa[d].spec = utsa[d].spec
    <3> SUFFICES ASSUME NEW d \in CRs
                 PROVE  /\ seenUtsa[d].live <=> utsa[d].live
                        /\ utsa[d].live => seenUtsa[d].spec = utsa[d].spec
      OBVIOUS
    <3>1. CASE Finishing(d) /\ Settled(d)' /\ utsa'[d] = utsa[d]
      BY <3>1 DEF SInv, Orderly, JobSeen, Finishing, Settled
    <3>2. CASE Settled(d)
      BY <3>2 DEF Settled
    <3>3. CASE utsa[d].uid = 0
      BY <3>3 DEF Created
    <3> QED
      BY <1>1, <3>1, <3>2, <3>3
  <2>4. listed = {utsa[d].spec : d \in {d \in CRs : utsa[d].live}}
    <3>1. listed = ListedSpecs
      BY <2>1, <2>2 DEF Finishing, ListedNow
    <3>2. ListedSpecs = {utsa[d].spec : d \in {d \in CRs : utsa[d].live}}
      BY <2>3 DEF ListedSpecs
    <3> QED
      BY <3>1, <3>2
  <2>5. /\ InUse("external") \subseteq ListedHosts
        /\ InUse("cloudsql") \subseteq ListedHosts \cup {"*"}
    BY <2>4 DEF InUse, ExternalInUse, CloudSQLInUse, ListedHosts
  <2>6. Swept("external") /\ Swept("cloudsql") /\ g \in api["GW"]
    BY <2>1 DEF Finishing, Sweeping
  <2>7. g.name \in {"external", "cloudsql"}
    <3>1. g \in [name : {"external", "cloudsql"}, hosts : SUBSET (Hosts \cup {"*"})]
      BY <2>6, ObjectTypes DEF StoreOK, Kinds
    <3> QED
      BY <3>1
  <2> QED
    BY <1>2, <2>5, <2>6, <2>7 DEF Swept
<1> QED
  BY <1>3, <1>4

LEMMA UInvInit == Init => UInv
<1> SUFFICES ASSUME Init PROVE UInv  OBVIOUS
<1>1. /\ api = [k \in Kinds |-> IF k = "GW" THEN InitialGateways ELSE {}]
      /\ seenUtsa = utsa /\ queue = {} /\ pc = "idle" /\ gw = None
      /\ \A c \in CRs : ~utsa[c].live
  BY DEF Init, ClusterInit, WorkerInit
<1>2. Ensured /\ TakingOutPolicies /\ ListedNow /\ Sweeping /\ Created
  BY <1>1 DEF Ensured, TakingOutPolicies, ListedNow, Sweeping, Created
<1>3. PoliciesAnchored /\ GatewaysListed
  BY <1>1 DEF PoliciesAnchored, ExternalPolicies, GatewaysListed, InitialGateways, Kinds
<1> QED
  BY <1>2, <1>3, AInvInit, SInvInit DEF UInv, PInv

LEMMA UInvNext ==
    ASSUME FreshHostCaches, "AP" \notin Lagging, UInv, [Next]_vars
    PROVE  UInv'
<1> USE DEF UInv, PInv
<1>1. AInv'
  BY AInvNext
<1>2. Ensured' /\ PoliciesAnchored' /\ TakingOutPolicies'
  BY <1>1, EnsuredNext, PoliciesAnchoredNext, TakingOutPoliciesNext
<1>3. SInv' /\ Created' /\ ListedNow' /\ Sweeping' /\ GatewaysListed'
  BY <1>1, SInvNext, CreatedNext, ListedNext, SweepingNext, GatewaysListedNext DEF AInv
<1> QED
  BY <1>1, <1>2, <1>3

\* Whatever belongs to a host is anchored, and a gateway has listed hosts only.
LEMMA UInvSuffices ==
    ASSUME UInv, "*" \notin Hosts
    PROVE  UnusedHostsRemoved
<1> USE DEF UInv, PInv, AInv, TInv
<1> SUFFICES ASSUME AllSettled
             PROVE  /\ \A k \in {"VS", "DR", "SE"} : \A o \in api[k] : o.host \in ListedHosts
                    /\ \A g \in Gateways(api["GW"], "external") : g.hosts \subseteq ListedHosts
                    /\ \A ap \in api["AP"] : ap.type = "external" => ap.host \in ListedHosts
  BY DEF UnusedHostsRemoved, AllSettled
<1>1. \A h \in Hosts : Anchored(h) => h \in ListedHosts
  BY DEF GatewaysListed, Anchored
<1>2. /\ api["VS"] \subseteq [host : Hosts] /\ api["SE"] \subseteq [host : Hosts]
      /\ api["DR"] \subseteq [host : Hosts, to : BOOLEAN]
      /\ api["AP"] \subseteq [env : Envs, sa : SaNames, host : Hosts, parent : Hosts,
                              type : {"external", "internal"}]
  BY ObjectTypes DEF StoreOK, Kinds
<1>3. \A k \in RouteKinds : \A o \in api[k] : o.host \in Hosts
  BY <1>2 DEF RouteKinds
<1>4. \A k \in {"VS", "DR", "SE"} : \A o \in api[k] : o.host \in ListedHosts
  BY <1>1, <1>3 DEF RoutesAnchored, Anchored, RouteKinds
<1>5. \A ap \in api["AP"] : ap.type = "external" => ap.host \in ListedHosts
  BY <1>1, <1>2 DEF PoliciesAnchored, ExternalPolicies
<1>6. \A g \in Gateways(api["GW"], "external") : g.hosts \subseteq ListedHosts
  BY DEF Gateways, GatewaysListed
<1> QED
  BY <1>4, <1>5, <1>6

\* Reconcile takes away the hosts no CR lists any more (cleanup.go:34-53, 179-222): when
\* the caches of gateways, routes and policies do not lag and no host is the wildcard
\* the CloudSQL gateway keeps, then with all CRs settled the external gateway, the
\* routes and the policies of external hosts are for listed hosts only, whichever CR
\* was reconciled last and wherever earlier reconciles failed.
THEOREM UnusedHostsAreRemoved ==
    ASSUME FreshHostCaches, "AP" \notin Lagging, "*" \notin Hosts
    PROVE  Spec => []UnusedHostsRemoved
<1>1. UInv /\ [Next]_vars => UInv'
  BY UInvNext
<1>2. UInv => UnusedHostsRemoved
  BY UInvSuffices
<1> QED
  BY UInvInit, <1>1, <1>2, PTL DEF Spec
=============================================================================
