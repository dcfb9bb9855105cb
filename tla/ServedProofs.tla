---------------------------- MODULE ServedProofs ----------------------------
(***************************************************************************)
(* A settled CR has what it lists, whatever the reconciles of other CRs    *)
(* take away; and a reconcile on fresh caches repairs what stale ones left. *)
(***************************************************************************)
EXTENDS AnchorProofs, Repair, Inheritance

\* Two hosts give their objects different names.
DistinctNames == \A h, h2 \in Hosts : NameOf[h] = NameOf[h2] => h = h2

\* No host is of two sorts, and no VIP is that of two on-prem hosts.
AllExternal == UNION {UNION {x.sas[s].ext : s \in DOMAIN x.sas} : x \in AllSpecs}
AllCloudSQL == UNION {UNION {x.sas[s].sql : s \in DOMAIN x.sas} : x \in AllSpecs}
VIPs == UNION {Onprem[h] : h \in DOMAIN Onprem}
HostsApart ==
    /\ AllExternal \cap AllCloudSQL = {}
    /\ (AllExternal \cup AllCloudSQL) \cap (DOMAIN Onprem \cup VIPs) = {}
    /\ DOMAIN Onprem \cap VIPs = {}
    /\ \A h, h2 \in DOMAIN Onprem : Onprem[h] \cap Onprem[h2] # {} => h = h2

CleanupPhases == {"internalHosts", "externalGateway", "cloudSQLGateway"}

-----------------------------------------------------------------------------
(* What the cleanup of hosts works on.                                      *)

\* The gateways, as stored and as cached, have hosts of their own sort.
OfItsSort(gateways) ==
    \A g \in gateways :
        g.hosts \subseteq IF g.name = "external" THEN AllExternal ELSE AllCloudSQL \cup {"*"}
GatewaysApart == OfItsSort(api["GW"]) /\ OfItsSort(seen["GW"])

\* A gateway cleanup is for the gateway of its phase, and takes out hosts of its sort
\* that are not in use.
TakingOutUnused ==
    /\ gw # None =>
          \/ pc = "externalGateway" /\ gw.name = "external"
          \/ pc = "cloudSQLGateway" /\ gw.name = "cloudsql"
    /\ pc = "externalGateway" => todo \subseteq AllExternal \ InUse("external")
    /\ pc = "cloudSQLGateway" => todo \subseteq AllCloudSQL \ InUse("cloudsql")

\* What the cache shows of a CR that is not queued is among what the cleanup works on.
SpecsListed ==
    pc \in CleanupPhases =>
        \A c \in CRs : seenUtsa[c].live /\ c \notin queue => seenUtsa[c].spec \in listed

-----------------------------------------------------------------------------
(* Routes.                                                                  *)

HasHost(h, name) == \E g \in Gateways(api["GW"], name) : h \in g.hosts

\* The first n - 1 calls for a host are made.
RouteUpTo(h, name, n) ==
    /\ n > 2 => HasHost(h, name)
    /\ n > 3 => [host |-> h] \in api["VS"]
    /\ n > 4 => [host |-> h, to |-> TRUE] \in api["DR"]
    /\ n > 5 => [host |-> h, to |-> FALSE] \in api["DR"]
    /\ n > 6 => [host |-> h] \in api["SE"]

Routed(items, name) == \A i \in items : RouteUpTo(i[2], name, 7)

\* The routes of the entries that are done with are there, until the spec the worker
\* works on is out of date.
RoutesMade ==
    /\ pc \in {"externalHosts", "cloudSQLHosts"} /\ cur = None => at = 1
    /\ pc = "externalHosts" =>
          /\ cur # None => RouteUpTo(cur[2], "external", at)
          /\ Routed(ExternalItems \ todo, "external")
    /\ pc = "cloudSQLHosts" =>
          /\ cur # None => RouteUpTo(cur[2], "cloudsql", at + 1)
          /\ Routed(CloudSQLItems \ todo, "cloudsql")
    /\ \/ pc \in {"cloudSQLHosts", "authzPolicies", "removedAuthz"}
       \/ pc \in CleanupPhases /\ job.cr \notin queue
       => Routed(ExternalItems, "external")
    /\ \/ pc \in {"authzPolicies", "removedAuthz"}
       \/ pc \in CleanupPhases /\ job.cr \notin queue
       => Routed(CloudSQLItems, "cloudsql")

-----------------------------------------------------------------------------
(* Policies.                                                                *)

\* What a policy is for tells what it looks like.
PolicyShape(ap) ==
    \/ /\ ap.type = "external" /\ ap.parent = ap.host
       /\ ap.host \in AllExternal \cup AllCloudSQL
    \/ /\ ap.type = "internal" /\ ap.parent \in DOMAIN Onprem
       /\ ap.host = ap.parent \/ ap.host \in Onprem[ap.parent]
PoliciesShaped == \A ap \in api["AP"] : PolicyShape(ap)

\* The policies a spec calls for.
Due(sp) ==
    {p \in Objects("AP") :
        /\ p.env = sp.env /\ p.sa \in DOMAIN sp.sas /\ PolicyShape(p)
        /\ p.type = "external" => p.host \in sp.sas[p.sa].ext \cup sp.sas[p.sa].sql
        /\ p.type = "internal" => p.parent \in sp.sas[p.sa].int}

PoliciesMade ==
    /\ pc = "authzPolicies" => \A i \in PolicyItems \ todo : i[2] \in api["AP"]
    /\ pc = "removedAuthz" \/ (pc \in CleanupPhases /\ job.cr \notin queue)
       => Due(spec) \subseteq api["AP"]

\* What the loops that take policies away have to do is none of theirs that the cache
\* still shows to be called for.
RevokingUnlisted ==
    /\ pc \in {"finalize", "removedAuthz"} => \A ap \in todo : ap.env = spec.env
    /\ pc = "removedAuthz" => \A ap \in todo : ap.sa \notin Listed
    /\ pc = "internalHosts" => \A ap \in todo :
          /\ ap \in Objects("AP") /\ PolicyShape(ap) /\ ap.type = "internal"
          /\ \A c \in CRs : LET sp == seenUtsa[c].spec IN
                seenUtsa[c].live /\ c \notin queue /\ ap.env = sp.env /\ ap.sa \in DOMAIN sp.sas
                   => ap.parent \notin sp.sas[ap.sa].int

\* All that a spec calls for is there.
Served(sp) ==
    /\ \A s \in DOMAIN sp.sas : /\ \A h \in sp.sas[s].ext : RouteUpTo(h, "external", 7)
                               /\ \A h \in sp.sas[s].sql : RouteUpTo(h, "cloudsql", 7)
    /\ Due(sp) \subseteq api["AP"]

SettledReached == \A c \in CRs : Settled(c) => Served(utsa[c].spec)

-----------------------------------------------------------------------------
(* Identities.                                                              *)

\* The first n - 1 calls for account s of this environment are made.
EquippedUpTo(env, s, owner, n) == \A i \in 1 .. 6 : i < n => Equipped(env, s, i, owner)

IdentitiesMade ==
    Home[job.cr] = spec.env =>
       /\ pc = "serviceAccounts" =>
             /\ cur = None => at = 1
             /\ cur # None => EquippedUpTo(spec.env, cur, Owner, at)
             /\ \A s \in Listed \ todo : EquippedUpTo(spec.env, s, Owner, 7)
       /\ pc \in DOMAIN NextPhase \ {"persist", "serviceAccounts"} =>
             \A s \in Listed : EquippedUpTo(spec.env, s, Owner, 7)

RemovingUnlisted == pc \in {"removeSAs", "removeSAsAgain"} => todo \cap Listed = {}

-----------------------------------------------------------------------------
(* The gateways, and what a cleanup works on.                               *)

\* A cache shows what it showed, or what was stored, or starts anew.
LEMMA CachesNext ==
    ASSUME StoreOK, [Next]_vars, NEW k \in Kinds
    PROVE  seen'[k] \in {seen[k], api[k], {}}
<1>1. ASSUME NEW new, Commit(new)
      PROVE  seen'[k] \in {seen[k], api[k], {}}
  BY <1>1 DEF Commit, View
<1>2. ASSUME NEW x, IdentityStep(x) \/ HostStep(x) \/ PolicyStep(x)
      PROVE  ReadOnly \/ \E new : Commit(new)
  <2>1. CASE IdentityStep(x)
    BY <2>1 DEF IdentityStep, ReconcileIAMServiceAccount, ReconcileServiceAccount,
       CreateIAMPolicyMember, CleanupIAMPolicyMember, CleanupIAMServiceAccount,
       DeleteServiceAccount, Write
  <2>2. CASE HostStep(x)
    BY <2>2 DEF HostStep, EnsureGatewayExists, EnsureGatewayContainsHost, UpdateGateway,
       UpdateConflicts, EnsureVirtualService, EnsureDestinationRule, EnsureServiceEntry,
       CreateUnless, RemoveExternalHost, Write
  <2>3. CASE PolicyStep(x)
    BY <2>3 DEF PolicyStep, EnsureAuthorizationPolicy, DeletePolicy, DeleteUnlistedPolicy, Write
  <2> QED
    BY <1>2, <2>1, <2>2, <2>3
<1>3. CASE CleanupGateway
  <2>1. ReadOnly \/ \E new : Commit(new)
    BY <1>3 DEF CleanupGateway, UpdateGateway, UpdateConflicts, Write
  <2> QED
    BY <1>1, <2>1 DEF ReadOnly
<1>4. CASE Caches \/ Background
  <2>1. \/ UNCHANGED seen
        \/ \E new : Commit(new)
        \/ \E j \in Kinds : seen' = [seen EXCEPT ![j] = {}]
    BY <1>4 DEF Caches, Observe, CatchUp, Background, Resync, GarbageCollect, Write
  <2> QED
    BY <1>1, <2>1 DEF StoreOK
<1>5. CASE Trouble
  BY <1>5 DEF Trouble, CallFails, Restart, ReadOnly
<1>6. CASE \/ \E c \in CRs : Start(c)
           \/ AddFinalizer \/ RemoveFinalizer \/ Advance \/ \E x : PersistAllowlist(x)
           \/ Users \/ UNCHANGED vars
  <2>1. UNCHANGED seen
    BY <1>6 DEF Start, AddFinalizer, RemoveFinalizer, Advance, PersistAllowlist, ReadOnly, Users,
       UserCreate, UserEdit, UserDelete, vars, clusterVars
  <2> QED
    BY <2>1
<1> QED
  BY <1>1, <1>2, <1>3, <1>4, <1>5, <1>6 DEF Next, Step, ReadOnly

\* Each entry of a loop over hosts is of the sort of the loop.
LEMMA ItemSorts ==
    ASSUME CoreTypeOK
    PROVE  /\ \A i \in ExternalItems : i[2] \in AllExternal
           /\ \A i \in CloudSQLItems : i[2] \in AllCloudSQL
<1>1. spec \in AllSpecs
  BY JobTypes
<1> QED
  BY <1>1 DEF ExternalItems, CloudSQLItems, Listed, AllExternal, AllCloudSQL

LEMMA ItemTypes ==
    ASSUME CoreTypeOK, NEW i \in ExternalItems \cup CloudSQLItems
    PROVE  i \in SaNames \X Hosts /\ i[2] \in Hosts
<1>1. PICK s \in Listed : \E h \in spec.sas[s].ext \cup spec.sas[s].sql : i = <<s, h>>
  BY DEF ExternalItems, CloudSQLItems
<1> QED
  BY <1>1, JobTypes, SpecTypes DEF Listed

\* So is what is in use.
LEMMA InUseSorts ==
    ASSUME RestOK
    PROVE  InUse("external") \subseteq AllExternal /\ InUse("cloudsql") \subseteq AllCloudSQL \cup {"*"}
BY DEF RestOK, InUse, ExternalInUse, CloudSQLInUse, AllExternal, AllCloudSQL

LEMMA ViewOfItsSort ==
    ASSUME GatewaysApart
    PROVE  OfItsSort(View("GW"))
BY DEF GatewaysApart, View

\* The calls for a host leave gateways with hosts of their own sort.
LEMMA GatewaysWritten ==
    ASSUME TInv, GatewaysApart, [Next]_vars
    PROVE  OfItsSort(api'["GW"])
<1> USE DEF TInv, GInv, FInv
<1>k. "GW" \in Kinds
  BY DEF Kinds
<1>s. OfItsSort(api["GW"]) /\ OfItsSort(View("GW"))
  BY ViewOfItsSort DEF GatewaysApart
<1>n. ASSUME NEW objects, Write("GW", objects), NEW g2,
             \A g \in objects : g \in api["GW"] \/ g = g2, OfItsSort({g2})
      PROVE  OfItsSort(api'["GW"])
  <2>1. api'["GW"] = objects
    BY <1>k, <1>n, WriteEffect
  <2> QED
    BY <1>n, <1>s, <2>1 DEF OfItsSort
<1>u. ASSUME NEW g, NEW hosts, UpdateGateway(g, hosts),
             hosts \subseteq IF g.name = "external" THEN AllExternal ELSE AllCloudSQL \cup {"*"}
      PROVE  OfItsSort(api'["GW"])
  <2> DEFINE g2 == [g EXCEPT !.hosts = hosts]
  <2>1. g \in api["GW"] /\ Write("GW", (api["GW"] \ {g}) \cup {g2})
    BY <1>u DEF UpdateGateway
  <2>2. g2.name = g.name /\ g2.hosts = hosts
    <3>1. g \in [name : {"external", "cloudsql"}, hosts : SUBSET (Hosts \cup {"*"})]
      BY <1>k, <2>1, ObjectTypes DEF StoreOK
    <3> QED
      BY <3>1
  <2> HIDE DEF g2
  <2>3. OfItsSort({g2})
    BY <1>u, <2>2 DEF OfItsSort
  <2> QED
    BY <1>n, <2>1, <2>3
<1>1. ASSUME NEW x \in todo, EnsureGatewayExists(x) \/ EnsureGatewayContainsHost(x)
      PROVE  OfItsSort(api'["GW"])
  <2>1. \/ pc = "externalHosts" /\ x[2] \in AllExternal /\ GatewayName = "external"
        \/ pc = "cloudSQLHosts" /\ x[2] \in AllCloudSQL /\ GatewayName = "cloudsql"
    BY <1>1, ItemSorts DEF EnsureGatewayExists, EnsureGatewayContainsHost, EnsuringHost,
       RowsFirst, GatewayName
  <2>2. CASE EnsureGatewayExists(x)
    <3> DEFINE g2 == [name |-> GatewayName, hosts |-> {x[2]}]
    <3>1. ReadOnly \/ Write("GW", api["GW"] \cup {g2})
      BY <2>2 DEF EnsureGatewayExists
    <3>2. OfItsSort({g2})
      BY <2>1 DEF OfItsSort
    <3> QED
      BY <1>n, <1>s, <3>1, <3>2 DEF ReadOnly
  <2>3. CASE EnsureGatewayContainsHost(x)
    <3>1. \/ ReadOnly
          \/ \E g \in Gateways(View("GW"), GatewayName) : UpdateGateway(g, g.hosts \cup {x[2]})
      BY <2>3 DEF EnsureGatewayContainsHost, UpdateConflicts
    <3>2. ASSUME NEW g \in Gateways(View("GW"), GatewayName), UpdateGateway(g, g.hosts \cup {x[2]})
          PROVE  OfItsSort(api'["GW"])
      BY <1>s, <1>u, <2>1, <3>2 DEF Gateways, OfItsSort
    <3> QED
      BY <1>s, <3>1, <3>2 DEF ReadOnly
  <2> QED
    BY <1>1, <2>2, <2>3
<1>2. CASE CleanupGateway
  <2>1. ASSUME UpdateGateway(gw, InUse(gw.name))
        PROVE  OfItsSort(api'["GW"])
    <3>1. gw.name \in {"external", "cloudsql"}
      <4>1. gw \in [name : {"external", "cloudsql"}, hosts : SUBSET (Hosts \cup {"*"})]
        BY <1>k, <2>1, ObjectTypes DEF UpdateGateway, StoreOK
      <4> QED
        BY <4>1
    <3> QED
      BY <1>u, <2>1, <3>1, InUseSorts
  <2>2. \/ ReadOnly
        \/ Write("GW", api["GW"] \ Gateways(api["GW"], gw.name))
        \/ UpdateGateway(gw, InUse(gw.name))
    BY <1>2 DEF CleanupGateway, UpdateConflicts
  <2>3. CASE Write("GW", api["GW"] \ Gateways(api["GW"], gw.name))
    BY <1>k, <1>s, <2>3, WriteEffect DEF OfItsSort
  <2> QED
    BY <1>s, <2>1, <2>2, <2>3 DEF ReadOnly
<1>3. ASSUME NEW x, EnsureVirtualService(x) \/ EnsureDestinationRule(x) \/ EnsureServiceEntry(x)
      PROVE  api'["GW"] = api["GW"]
  <2>1. ReadOnly \/ \E k \in Kinds \ {"GW"} : \E objects : Write(k, objects)
    BY <1>3 DEF EnsureVirtualService, EnsureDestinationRule, EnsureServiceEntry, CreateUnless,
       Kinds
  <2> QED
    BY <1>k, <2>1, WriteEffect DEF ReadOnly
<1>4. ASSUME NEW x \in todo, HostStep(x)
      PROVE  OfItsSort(api'["GW"])
  BY <1>s, <1>1, <1>3, <1>4, RemoveEffect DEF HostStep
<1>5. ASSUME NEW x, IdentityStep(x) \/ PolicyStep(x)
      PROVE  api'["GW"] = api["GW"]
  BY <1>5, IdentityWrites, PolicyWrites DEF Kinds, IdentityKinds
<1> QED
  BY <1>s, <1>2, <1>4, <1>5, OtherWrites DEF Next, Step, Kinds, IdentityKinds

LEMMA GatewaysApartNext ==
    ASSUME TInv, GatewaysApart, [Next]_vars
    PROVE  GatewaysApart'
<1>1. seen'["GW"] \in {seen["GW"], api["GW"], {}}
  BY CachesNext DEF TInv, Kinds
<1>2. OfItsSort(seen'["GW"])
  BY <1>1 DEF GatewaysApart, OfItsSort
<1> QED
  BY <1>2, GatewaysWritten DEF GatewaysApart, OfItsSort

\* A phase of the cleanup of gateways begins with what no listed CR uses.
LEMMA TakingOutBegins ==
    ASSUME TInv, GatewaysApart, TakingOutUnused, BeginsPhase,
           pc' \in {"externalGateway", "cloudSQLGateway"},
           NEW name, name = IF pc' = "externalGateway" THEN "external" ELSE "cloudsql"
    PROVE  /\ gw' # None => gw'.name = name
           /\ todo' \cap InUse(name)' = {}
           /\ todo' \subseteq IF name = "external" THEN AllExternal ELSE AllCloudSQL
<1>1. /\ listed' = listed
      /\ todo' = UNION {g.hosts \ InUse(g.name) : g \in CachedGateways(pc')}
      /\ gw' \in CachedGateways(pc') \/ gw' = None
  BY DEF BeginsPhase, Advance, EnterPhase, PhaseItems, ReturnError, ReturnNil, Forget
<1>2. /\ \A g \in CachedGateways(pc') : g.name = name
      /\ OfItsSort(CachedGateways(pc'))
  BY ViewOfItsSort DEF CachedGateways, Gateways, OfItsSort
<1>3. InUse(name)' = InUse(name)
  BY <1>1 DEF InUse, ExternalInUse, CloudSQLInUse
<1>4. todo' \cap InUse(name) = {}
  BY <1>1, <1>2
<1>5. "*" \in InUse("cloudsql")
  BY DEF InUse, CloudSQLInUse
<1>6. todo' \subseteq IF name = "external" THEN AllExternal ELSE AllCloudSQL
  BY <1>1, <1>2, <1>5 DEF OfItsSort
<1> QED
  BY <1>1, <1>2, <1>3, <1>4, <1>6

LEMMA TakingOutUnusedNext ==
    ASSUME TInv, GatewaysApart, TakingOutUnused, [Next]_vars
    PROVE  TakingOutUnused'
<1> USE DEF TInv, GInv, FInv
<1>1. CASE pc' \in {"externalGateway", "cloudSQLGateway"}
  <2>1. BeginsPhase \/ Waits \/ Works
    BY <1>1, PhaseSteps DEF NextPhase
  <2>2. CASE BeginsPhase
    BY <1>1, <2>2, TakingOutBegins DEF TakingOutUnused
  <2>3. CASE Waits \/ Works
    <3>1. pc' = pc /\ listed' = listed /\ todo' \subseteq todo /\ gw' \in {gw, None}
      <4>1. CASE Waits
        BY <4>1 DEF Waits, workerVars
      <4>2. CASE Works
        <5>1. pc' = pc
          BY <4>2 DEF Works
        <5>2. ~ReturnError
          BY <1>1 DEF ReturnError, Forget
        <5>3. CASE CleanupGateway
          BY <5>1, <5>2, <5>3 DEF CleanupGateway
        <5>4. CASE ~CleanupGateway
          BY <4>2, <5>1, <5>2, <5>4, LoopFrame DEF Works, CoreTypeOK
        <5> QED
          BY <5>3, <5>4
      <4> QED
        BY <2>3, <4>1, <4>2
    <3> QED
      BY <3>1, InUseStays DEF TakingOutUnused
  <2> QED
    BY <2>1, <2>2, <2>3
<1>2. CASE pc' \notin {"externalGateway", "cloudSQLGateway"}
  <2>1. gw' = None
    <3>1. CASE pc \in {"externalGateway", "cloudSQLGateway"}
      <4>1. CASE \/ \E c \in CRs : Start(c)
                 \/ AddFinalizer \/ RemoveFinalizer \/ \E x : PersistAllowlist(x)
        BY <3>1, <4>1 DEF Start, AddFinalizer, RemoveFinalizer, PersistAllowlist
      <4>2. CASE Trouble
        BY <4>2 DEF Trouble, CallFails, Restart, ReturnError, Forget
      <4>3. CASE CleanupGateway
        BY <4>3 DEF CleanupGateway, ReturnError, Forget
      <4>4. CASE Users \/ Caches \/ Background \/ UNCHANGED vars
        BY <1>2, <3>1, <4>4 DEF Users, Caches, Background, vars, workerVars
      <4>5. ASSUME NEW x, IdentityStep(x) \/ HostStep(x) \/ PolicyStep(x)
            PROVE  gw' = None
        BY <1>2, <3>1, <4>5, LoopFrame DEF CoreTypeOK, ReturnError, Forget
      <4>6. CASE Advance
        BY <1>2, <3>1, <4>6 DEF Advance, EnterPhase, ReturnError, ReturnNil, Forget
      <4> QED
        BY <4>1, <4>2, <4>3, <4>4, <4>5, <4>6 DEF Next, Step
    <3>2. CASE pc \notin {"externalGateway", "cloudSQLGateway"}
      <4>1. gw = None
        BY <3>2 DEF TakingOutUnused
      <4>2. CASE \/ \E c \in CRs : Start(c)
                 \/ AddFinalizer \/ RemoveFinalizer \/ \E x : PersistAllowlist(x)
        BY <4>1, <4>2 DEF Start, AddFinalizer, RemoveFinalizer, PersistAllowlist, DoneWith,
           DoneNoting, ReturnError, ReturnNil, Forget, workerVars
      <4>3. CASE Trouble
        BY <4>3 DEF Trouble, CallFails, Restart, ReturnError, Forget
      <4>4. CASE Users \/ Caches \/ Background \/ UNCHANGED vars
        BY <4>1, <4>4 DEF Users, Caches, Background, vars, workerVars
      <4>5. ASSUME NEW x, IdentityStep(x) \/ HostStep(x) \/ PolicyStep(x)
            PROVE  gw' = None
        BY <4>1, <4>5, LoopFrame DEF CoreTypeOK, ReturnError, Forget
      <4>6. CASE Advance
        BY <1>2, <4>1, <4>6 DEF Advance, EnterPhase, ReturnError, ReturnNil, Forget
      <4> QED
        BY <3>2, <4>2, <4>3, <4>4, <4>5, <4>6 DEF Next, Step, CleanupGateway
    <3> QED
      BY <3>1, <3>2
  <2> QED
    BY <1>2, <2>1 DEF TakingOutUnused
<1> QED
  BY <1>1, <1>2

\* A step of a phase leaves the queue and the cache of the CRs alone.
LEMMA WorksQuietly ==
    ASSUME FInv, Works, pc # "idle"
    PROVE  UNCHANGED <<seenUtsa, listed, queue>> /\ todo' \subseteq todo
<1>1. pc' = pc /\ ~ReturnError
  BY DEF Works, ReturnError, Forget
<1>2. CASE CleanupGateway
  BY <1>1, <1>2 DEF CleanupGateway
<1>3. ASSUME NEW x, IdentityStep(x) \/ HostStep(x) \/ PolicyStep(x)
      PROVE  UNCHANGED <<seenUtsa, listed, queue>> /\ todo' \subseteq todo
  BY <1>1, <1>3, LoopFrame DEF LoopKeeps, FInv, CoreTypeOK
<1> QED
  BY <1>2, <1>3 DEF Works

\* While the worker waits, what the cache comes to show is queued.
LEMMA WaitsQueueing ==
    ASSUME FInv, Waits
    PROVE  /\ queue \subseteq queue'
           /\ \A c \in CRs : c \notin queue' => seenUtsa'[c] = seenUtsa[c]
<1>1. CASE Caches /\ Observe
  BY <1>1 DEF Observe
<1>2. CASE ~(Caches /\ Observe)
  BY <1>2 DEF Waits, Users, UserCreate, UserEdit, UserDelete, Caches, CatchUp,
     Background, Resync, GarbageCollect, vars, clusterVars
<1> QED
  BY <1>1, <1>2

LEMMA SpecsListedNext ==
    ASSUME TInv, SpecsListed, [Next]_vars
    PROVE  SpecsListed'
<1> USE DEF TInv, GInv, FInv
<1> SUFFICES ASSUME pc' \in CleanupPhases, NEW c \in CRs, seenUtsa'[c].live, c \notin queue'
             PROVE  seenUtsa'[c].spec \in listed'
  BY DEF SpecsListed
<1>1. BeginsPhase \/ Waits \/ Works
  BY PhaseSteps DEF NextPhase, CleanupPhases
<1>2. CASE BeginsPhase
  <2>1. seenUtsa' = seenUtsa /\ queue' = queue
    BY <1>2 DEF BeginsPhase, Advance
  <2>2. CASE pc' = "internalHosts"
    <3>1. listed' = ListedSpecs
      BY <1>2, <2>2 DEF BeginsPhase, Advance, ReturnError, ReturnNil, Forget
    <3> QED
      BY <2>1, <3>1 DEF ListedSpecs
  <2>3. CASE pc' \in {"externalGateway", "cloudSQLGateway"}
    <3>1. listed' = listed
      BY <1>2, <2>3 DEF BeginsPhase, Advance, ReturnError, ReturnNil, Forget
    <3>2. pc \in {"internalHosts", "externalGateway"}
      BY <1>2, <2>3, PhaseBefore
    <3> QED
      BY <2>1, <3>1, <3>2 DEF SpecsListed, CleanupPhases
  <2> QED
    BY <2>2, <2>3 DEF CleanupPhases
<1>3. CASE Waits
  <2>1. UNCHANGED <<pc, listed>>
    BY <1>3 DEF Waits, workerVars
  <2> QED
    BY <1>3, <2>1, WaitsQueueing DEF SpecsListed
<1>4. CASE Works
  <2>1. pc' = pc /\ pc # "idle"
    BY <1>4 DEF Works, CleanupPhases
  <2> QED
    BY <1>4, <2>1, WorksQuietly DEF SpecsListed
<1> QED
  BY <1>1, <1>2, <1>3, <1>4

-----------------------------------------------------------------------------
(* What stays.                                                              *)

\* No cleanup works on specs that lack this one.
Standing(sp) ==
    pc \in CleanupPhases => \E c \in CRs : /\ seenUtsa[c].live /\ c \notin queue
                                           /\ seenUtsa[c].spec = sp

ListOK == SInv /\ GatewaysApart /\ TakingOutUnused /\ SpecsListed

\* The hosts of such a spec are in use and not to be taken out.
LEMMA StandingHosts ==
    ASSUME HostsApart, ListOK, NEW sp, Standing(sp), NEW s \in DOMAIN sp.sas,
           pc \in {"externalGateway", "cloudSQLGateway"}
    PROVE  /\ \A h \in sp.sas[s].ext : h \in InUse("external") \ todo
           /\ \A h \in sp.sas[s].sql : h \in InUse("cloudsql") \ todo
<1> USE DEF ListOK
<1>1. sp \in listed
  BY DEF Standing, SpecsListed, CleanupPhases
<1>2. sp \in AllSpecs
  BY <1>1 DEF SInv, TInv, RestOK
<1>3. /\ sp.sas[s].ext \subseteq AllExternal /\ sp.sas[s].sql \subseteq AllCloudSQL
      /\ sp.sas[s].ext \subseteq InUse("external") /\ sp.sas[s].sql \subseteq InUse("cloudsql")
  BY <1>1, <1>2 DEF AllExternal, AllCloudSQL, InUse, ExternalInUse, CloudSQLInUse
<1> QED
  BY <1>3 DEF TakingOutUnused, HostsApart

\* Routes are only removed host by host.
LEMMA RoutesGrow ==
    ASSUME TInv, [Next]_vars, NEW k \in RouteKinds, \A x \in todo : ~RemoveExternalHost(x)
    PROVE  api[k] \subseteq api'[k]
<1> USE DEF TInv
<1>k. RouteKinds \subseteq Kinds /\ "GW" \in Kinds
      /\ RouteKinds \cap (IdentityKinds \cup {"AP", "GW"}) = {}
  BY DEF Kinds, RouteKinds, IdentityKinds
<1>1. ASSUME NEW x \in todo, HostStep(x)
      PROVE  api[k] \subseteq api'[k]
  <2>1. \/ ReadOnly \/ \E objects : Write("GW", objects)
        \/ \E j \in RouteKinds : \E o : Write(j, api[j] \cup {o})
    BY <1>1 DEF HostStep, EnsureGatewayExists, EnsureGatewayContainsHost, UpdateGateway,
       UpdateConflicts, EnsureVirtualService, EnsureDestinationRule, EnsureServiceEntry,
       CreateUnless, RouteKinds
  <2>2. ASSUME NEW objects, Write("GW", objects)
        PROVE  api'[k] = api[k]
    BY <1>k, <2>2, WriteEffect
  <2>3. ASSUME NEW j \in RouteKinds, NEW o, Write(j, api[j] \cup {o})
        PROVE  api[k] \subseteq api'[k]
    BY <1>k, <2>3, WriteEffect
  <2> QED
    BY <2>1, <2>2, <2>3 DEF ReadOnly
<1>2. ASSUME NEW x, IdentityStep(x) \/ PolicyStep(x)
      PROVE  api'[k] = api[k]
  BY <1>2, <1>k, IdentityWrites, PolicyWrites
<1>3. CASE CleanupGateway
  BY <1>3, <1>k, GatewayWrites
<1> QED
  BY <1>1, <1>2, <1>3, <1>k, OtherWrites DEF Next, Step

LEMMA HostsAreHosts ==
    ASSUME NEW k \in RouteKinds \cup {"AP"}, NEW o \in Objects(k)
    PROVE  o.host \in Hosts
<1>1. CASE k \in {"VS", "SE"}
  <2>1. o \in [host : Hosts]
    BY <1>1, ObjectTypes
  <2> QED
    BY <2>1
<1>2. CASE k = "DR"
  <2>1. o \in [host : Hosts, to : BOOLEAN]
    BY <1>2, ObjectTypes
  <2> QED
    BY <2>1
<1>3. CASE k = "AP"
  <2>1. o \in [env : Envs, sa : SaNames, host : Hosts, parent : Hosts, type : {"external", "internal"}]
    BY <1>3, ObjectTypes
  <2> QED
    BY <2>1
<1> QED
  BY <1>1, <1>2, <1>3 DEF RouteKinds

\* The removal of a host takes away what is named like its objects.
LEMMA RemoveKeeps ==
    ASSUME DistinctNames, StoreOK, NEW h, RemoveExternalHost(h), NEW k \in RouteKinds \cup {"AP"},
           NEW o \in api[k], o.host # h
    PROVE  o \in api'[k]
<1>k. RouteKinds \cup {"AP"} \subseteq Kinds
  BY DEF Kinds, RouteKinds
<1>1. PICK failing \in SUBSET HostObjects(h) :
         Commit([j \in Kinds |-> api[j] \ UNION {Namesakes(j, y[2]) :
                    y \in {z \in HostObjects(h) \ failing : z[1] = j}}])
  BY DEF RemoveExternalHost
<1>2. api'[k] = api[k] \ UNION {Namesakes(k, y[2]) :
                   y \in {z \in HostObjects(h) \ failing : z[1] = k}}
  BY <1>1, <1>k DEF Commit
<1> SUFFICES ASSUME NEW z \in HostObjects(h), z[1] = k
             PROVE  o \notin Namesakes(k, z[2])
  BY <1>2
<1>3. z[2] \in View(k) /\ z[2].host = h
  BY DEF HostObjects
<1>4. z[2] \in Objects(k) /\ o \in Objects(k)
  BY <1>k, <1>3 DEF StoreOK, View
<1>5. z[2].host \in Hosts /\ o.host \in Hosts
  BY <1>4, HostsAreHosts
<1>6. NameOf[o.host] # NameOf[z[2].host]
  BY <1>3, <1>5 DEF DistinctNames
<1> QED
  BY <1>6 DEF Namesakes, ObjectName, RouteKinds

\* A host in use stays in its gateway.
LEMMA HasHostStays ==
    ASSUME TInv, [Next]_vars, NEW h, NEW name, HasHost(h, name),
           CleanupGateway => h \in InUse(name)
    PROVE  HasHost(h, name)'
<1> USE DEF TInv
<1>k. "GW" \in Kinds
  BY DEF Kinds
<1>s. api["GW"] \subseteq api'["GW"] => HasHost(h, name)'
  BY DEF HasHost, Gateways
<1>u. ASSUME NEW g, NEW hosts, UpdateGateway(g, hosts),
             g.name = name /\ h \in g.hosts => h \in hosts
      PROVE  HasHost(h, name)'
  <2> DEFINE g2 == [g EXCEPT !.hosts = hosts]
  <2>1. g \in api["GW"] /\ api'["GW"] = (api["GW"] \ {g}) \cup {g2}
    BY <1>k, <1>u, WriteEffect DEF UpdateGateway
  <2>2. g2.name = g.name /\ g2.hosts = hosts
    <3>1. g \in [name : {"external", "cloudsql"}, hosts : SUBSET (Hosts \cup {"*"})]
      BY <1>k, <2>1, ObjectTypes DEF StoreOK
    <3> QED
      BY <3>1
  <2> HIDE DEF g2
  <2>3. PICK g3 \in api["GW"] : g3.name = name /\ h \in g3.hosts
    BY DEF HasHost, Gateways
  <2>4. IF g3 = g THEN g2 \in api'["GW"] /\ g2.name = name /\ h \in g2.hosts
                  ELSE g3 \in api'["GW"]
    BY <1>u, <2>1, <2>2, <2>3
  <2> QED
    BY <2>3, <2>4 DEF HasHost, Gateways
<1>1. CASE CleanupGateway
  <2>1. \/ ReadOnly
        \/ InUse(gw.name) = {} /\ Write("GW", api["GW"] \ Gateways(api["GW"], gw.name))
        \/ UpdateGateway(gw, InUse(gw.name))
    BY <1>1 DEF CleanupGateway, UpdateConflicts
  <2>2. CASE InUse(gw.name) = {} /\ Write("GW", api["GW"] \ Gateways(api["GW"], gw.name))
    <3>1. api'["GW"] = api["GW"] \ Gateways(api["GW"], gw.name) /\ gw.name # name
      BY <1>k, <1>1, <2>2, WriteEffect
    <3> QED
      BY <3>1 DEF HasHost, Gateways
  <2>3. CASE UpdateGateway(gw, InUse(gw.name))
    BY <1>1, <1>u, <2>3
  <2> QED
    BY <1>s, <2>1, <2>2, <2>3 DEF ReadOnly
<1>2. ASSUME NEW x, EnsureGatewayExists(x) \/ EnsureGatewayContainsHost(x)
      PROVE  HasHost(h, name)'
  <2>1. \/ ReadOnly
        \/ \E o : Write("GW", api["GW"] \cup {o})
        \/ \E g : UpdateGateway(g, g.hosts \cup {x[2]})
    BY <1>2 DEF EnsureGatewayExists, EnsureGatewayContainsHost, UpdateConflicts
  <2>2. ASSUME NEW o, Write("GW", api["GW"] \cup {o})
        PROVE  api["GW"] \subseteq api'["GW"]
    BY <1>k, <2>2, WriteEffect
  <2>3. ASSUME NEW g, UpdateGateway(g, g.hosts \cup {x[2]})
        PROVE  HasHost(h, name)'
    BY <1>u, <2>3
  <2> QED
    BY <1>s, <2>1, <2>2, <2>3 DEF ReadOnly
<1>3. ASSUME NEW x, EnsureVirtualService(x) \/ EnsureDestinationRule(x) \/ EnsureServiceEntry(x)
      PROVE  api'["GW"] = api["GW"]
  <2>1. ReadOnly \/ \E k \in Kinds \ {"GW"} : \E objects : Write(k, objects)
    BY <1>3 DEF EnsureVirtualService, EnsureDestinationRule, EnsureServiceEntry, CreateUnless,
       Kinds
  <2> QED
    BY <1>k, <2>1, WriteEffect DEF ReadOnly
<1>4. ASSUME NEW x, HostStep(x)
      PROVE  HasHost(h, name)'
  BY <1>s, <1>2, <1>3, <1>4, RemoveEffect DEF HostStep
<1>5. ASSUME NEW x, IdentityStep(x) \/ PolicyStep(x)
      PROVE  api'["GW"] = api["GW"]
  BY <1>5, IdentityWrites, PolicyWrites DEF Kinds, IdentityKinds
<1> QED
  BY <1>s, <1>1, <1>4, <1>5, OtherWrites DEF Next, Step, Kinds, IdentityKinds

\* The calls that are made for a host are not undone while it is in use.
LEMMA RouteStays ==
    ASSUME DistinctNames, TInv, [Next]_vars, NEW h, NEW name, NEW n, RouteUpTo(h, name, n),
           pc \in {"externalGateway", "cloudSQLGateway"} => h \in InUse(name) \ todo
    PROVE  RouteUpTo(h, name, n)'
<1>1. ASSUME HasHost(h, name)
      PROVE  HasHost(h, name)'
  BY <1>1, HasHostStays DEF CleanupGateway
<1>2. ASSUME NEW k \in RouteKinds, NEW o \in api[k], o.host = h
      PROVE  o \in api'[k]
  <2>1. ASSUME NEW x \in todo, RemoveExternalHost(x)
        PROVE  o \in api'[k]
    <3>1. x # h
      BY <2>1 DEF RemoveExternalHost
    <3> QED
      BY <1>2, <2>1, <3>1, RemoveKeeps DEF TInv
  <2> QED
    BY <1>2, <2>1, RoutesGrow
<1>3. \A k \in {"VS", "SE"} : [host |-> h] \in api[k] => [host |-> h] \in api'[k]
  BY <1>2 DEF RouteKinds
<1>4. \A to \in BOOLEAN :
         [host |-> h, to |-> to] \in api["DR"] => [host |-> h, to |-> to] \in api'["DR"]
  BY <1>2 DEF RouteKinds
<1> QED
  BY <1>1, <1>3, <1>4 DEF RouteUpTo

\* On fresh caches a call for a host makes what it is to make, or is an error.
LEMMA HostCallMakes ==
    ASSUME DistinctNames, TInv, [Next]_vars, stale \cap HostKinds = {},
           NEW x \in todo, NEW n \in 1 .. 6, EnsuringHost(x, n), HostStep(x),
           NEW name, name = GatewayName, RouteUpTo(x[2], name, n)
    PROVE  \/ ReturnError
           \/ n < 6 /\ NextCall(x) /\ RouteUpTo(x[2], name, n + 1)'
           \/ n = 6 /\ DoneWith(x) /\ RouteUpTo(x[2], name, 7)'
<1> DEFINE h == x[2]
<1>k. {"GW", "VS", "DR", "SE"} \subseteq Kinds
  BY DEF Kinds
<1>s. StoreOK
  BY DEF TInv
<1>v. \A k \in HostKinds : View(k) = api[k]
  BY DEF View
<1>r. RouteUpTo(h, name, n)'
  BY RouteStays DEF EnsuringHost
<1>n. \A m \in 1 .. 6 : EnsuringHost(x, m) => m = n
  BY DEF EnsuringHost
<1>1. CASE EnsureGatewayExists(x)
  <2>1. n = 1
    BY <1>1, <1>n DEF EnsureGatewayExists
  <2>2. RouteUpTo(h, name, 2)'
    BY DEF RouteUpTo
  <2>3. NextCall(x) \/ ReturnError
    BY <1>1 DEF EnsureGatewayExists
  <2> QED
    BY <2>1, <2>2, <2>3
<1>2. CASE EnsureGatewayContainsHost(x)
  <2>1. n = 2
    BY <1>2, <1>n DEF EnsureGatewayContainsHost
  <2>2. ASSUME NEW g \in Gateways(View("GW"), name), UpdateGateway(g, g.hosts \cup {h})
        PROVE  RouteUpTo(h, name, 3)'
    <3> DEFINE g2 == [g EXCEPT !.hosts = g.hosts \cup {h}]
    <3>1. g \in api["GW"] /\ g.name = name /\ g2 \in api'["GW"]
      BY <1>k, <1>s, <2>2, WriteEffect DEF UpdateGateway, Gateways
    <3>2. g2.name = g.name /\ h \in g2.hosts
      <4>1. g \in [name : {"external", "cloudsql"}, hosts : SUBSET (Hosts \cup {"*"})]
        BY <1>k, <1>s, <3>1, ObjectTypes DEF StoreOK
      <4> QED
        BY <4>1
    <3> HIDE DEF g2
    <3> QED
      BY <3>1, <3>2 DEF RouteUpTo, HasHost, Gateways
  <2>3. \/ ReturnError
        \/ NextCall(x) /\ \E g \in Gateways(View("GW"), name) : UpdateGateway(g, g.hosts \cup {h})
    BY <1>2 DEF EnsureGatewayContainsHost
  <2>4. ReturnError \/ (NextCall(x) /\ RouteUpTo(h, name, 3)')
    BY <2>2, <2>3
  <2> QED
    BY <2>1, <2>4
<1>3. CASE EnsureVirtualService(x)
  <2>1. n = 3
    BY <1>3, <1>n DEF EnsureVirtualService
  <2>2. ASSUME NEW o \in View("VS"), NameOf[o.host] = NameOf[h]
        PROVE  [host |-> h] \in api["VS"]
    <3>1. o \in api["VS"] /\ o \in [host : Hosts]
      BY <1>k, <1>s, <1>v, <2>2, ObjectTypes DEF StoreOK, HostKinds
    <3>2. h \in Hosts
      <4>1. x \in ExternalItems \/ x \in CloudSQLItems
        BY <1>3 DEF EnsureVirtualService, EnsuringHost, TInv, GInv, RowsFirst
      <4> QED
        BY <4>1, ItemTypes DEF TInv, GInv, FInv
    <3>3. o.host = h /\ o = [host |-> o.host]
      BY <2>2, <3>1, <3>2 DEF DistinctNames
    <3> QED
      BY <3>1, <3>3
  <2>3. \/ ReturnError
        \/ NextCall(x) /\ \/ ReadOnly /\ \E o \in View("VS") : NameOf[o.host] = NameOf[h]
                          \/ Write("VS", api["VS"] \cup {[host |-> h]})
    BY <1>3 DEF EnsureVirtualService, CreateUnless
  <2>4. ReturnError \/ (NextCall(x) /\ [host |-> h] \in api'["VS"])
    BY <1>k, <1>s, <2>2, <2>3, WriteEffect DEF ReadOnly
  <2> QED
    BY <1>r, <2>1, <2>4 DEF RouteUpTo
<1>4. CASE EnsureDestinationRule(x)
  <2>1. PICK to \in BOOLEAN :
           /\ EnsuringHost(x, IF to THEN 4 ELSE 5)
           /\ CreateUnless([host |-> h, to |-> to] \in View("DR"),
                           "DR", [host |-> h, to |-> to], NextCall(x))
    BY <1>4 DEF EnsureDestinationRule
  <2>2. n = IF to THEN 4 ELSE 5
    BY <1>n, <2>1
  <2>3. \/ ReturnError
        \/ NextCall(x) /\ \/ ReadOnly /\ [host |-> h, to |-> to] \in View("DR")
                          \/ Write("DR", api["DR"] \cup {[host |-> h, to |-> to]})
    BY <2>1 DEF CreateUnless
  <2>4. ReturnError \/ (NextCall(x) /\ [host |-> h, to |-> to] \in api'["DR"])
    BY <1>k, <1>s, <1>v, <2>3, WriteEffect DEF ReadOnly, HostKinds
  <2>5. CASE to = TRUE
    BY <1>r, <2>2, <2>4, <2>5 DEF RouteUpTo
  <2>6. CASE to = FALSE
    <3>1. ReturnError \/ (NextCall(x) /\ [host |-> h, to |-> FALSE] \in api'["DR"])
      BY <2>4, <2>6
    <3>2. n = 5
      BY <2>2, <2>6
    <3> QED
      BY <1>r, <3>1, <3>2 DEF RouteUpTo
  <2> QED
    BY <2>5, <2>6
<1>5. CASE EnsureServiceEntry(x)
  <2>1. n = 6
    BY <1>5, <1>n DEF EnsureServiceEntry
  <2>2. \/ ReturnError
        \/ DoneWith(x) /\ \/ ReadOnly /\ [host |-> h] \in View("SE")
                          \/ Write("SE", api["SE"] \cup {[host |-> h]})
    BY <1>5 DEF EnsureServiceEntry, CreateUnless
  <2>3. ReturnError \/ (DoneWith(x) /\ [host |-> h] \in api'["SE"])
    BY <1>k, <1>s, <1>v, <2>2, WriteEffect DEF ReadOnly, HostKinds
  <2> QED
    BY <1>r, <2>1, <2>3 DEF RouteUpTo
<1>6. ~RemoveExternalHost(x)
  BY DEF RemoveExternalHost, EnsuringHost
<1> QED
  BY <1>1, <1>2, <1>3, <1>4, <1>5, <1>6 DEF HostStep

\* After all calls for it a host is routed.
LEMMA RouteComplete ==
    ASSUME NEW h, NEW name, RouteUpTo(h, name, 7)
    PROVE  RouteExists(h, name)
<1>1. /\ HasHost(h, name)
      /\ [host |-> h] \in api["VS"] /\ [host |-> h] \in api["SE"]
      /\ [host |-> h, to |-> TRUE] \in api["DR"] /\ [host |-> h, to |-> FALSE] \in api["DR"]
  BY DEF RouteUpTo
<1>2. ASSUME NEW to \in BOOLEAN
      PROVE  [host |-> h, to |-> to] \in api["DR"]
  <2>1. CASE to = TRUE
    BY <1>1, <2>1
  <2>2. CASE to = FALSE
    BY <1>1, <2>2
  <2> QED
    BY <2>1, <2>2
<1> QED
  BY <1>1, <1>2 DEF HasHost, RouteExists

\* What is routed for the spec the worker works on stays so, until it is out of date.
LEMMA RoutedStays ==
    ASSUME DistinctNames, HostsApart, ListOK, [Next]_vars,
           NEW items, NEW name, Routed(items, name),
           \/ name = "external" /\ items \subseteq ExternalItems
           \/ name = "cloudsql" /\ items \subseteq CloudSQLItems,
           pc \in CleanupPhases => job.cr \notin queue
    PROVE  \A i \in items : RouteUpTo(i[2], name, 7)'
<1> SUFFICES ASSUME NEW i \in items
             PROVE  RouteUpTo(i[2], name, 7)'
  OBVIOUS
<1>1. TInv /\ job.cr \in CRs
  BY DEF ListOK, SInv, TInv, GInv, FInv, CoreTypeOK
<1>2. ASSUME pc \in {"externalGateway", "cloudSQLGateway"}
      PROVE  i[2] \in InUse(name) \ todo
  <2>1. Standing(spec)
    BY <1>1, <1>2 DEF Standing, ListOK, SInv, Orderly, JobSeen, CleanupPhases
  <2>2. PICK s \in Listed : \/ name = "external" /\ i[2] \in spec.sas[s].ext
                            \/ name = "cloudsql" /\ i[2] \in spec.sas[s].sql
    BY DEF ExternalItems, CloudSQLItems
  <2> QED
    BY <1>2, <2>1, <2>2, StandingHosts DEF Listed
<1> QED
  BY <1>1, <1>2, RouteStays DEF Routed

LEMMA RoutesMadeBegins ==
    ASSUME RoutesMade, BeginsPhase
    PROVE  RoutesMade'
<1>1. \A h, name, n : RouteUpTo(h, name, n)' <=> RouteUpTo(h, name, n)
  BY DEF BeginsPhase, RouteUpTo, HasHost
<1>2. ExternalItems' = ExternalItems /\ CloudSQLItems' = CloudSQLItems
  BY DEF BeginsPhase, ExternalItems, CloudSQLItems, Listed, spec
<1>3. /\ UNCHANGED <<job, queue>> /\ todo = {} /\ cur' = None /\ at' = 1
      /\ todo' = PhaseItems(pc')
  BY DEF BeginsPhase, EnterPhase
<1>4. CASE pc' = "externalHosts"
  BY <1>2, <1>3, <1>4 DEF RoutesMade, Routed, PhaseItems, CleanupPhases
<1>5. CASE pc' = "cloudSQLHosts"
  <2>1. pc = "externalHosts"
    BY <1>5, PhaseBefore
  <2>2. Routed(ExternalItems, "external")'
    BY <1>1, <1>2, <1>3, <2>1 DEF RoutesMade, Routed
  <2> QED
    BY <1>2, <1>3, <1>5, <2>2 DEF RoutesMade, Routed, PhaseItems, CleanupPhases
<1>6. CASE pc' = "authzPolicies"
  <2>1. pc = "cloudSQLHosts"
    BY <1>6, PhaseBefore
  <2>2. Routed(ExternalItems, "external")' /\ Routed(CloudSQLItems, "cloudsql")'
    BY <1>1, <1>2, <1>3, <2>1 DEF RoutesMade, Routed
  <2> QED
    BY <1>3, <1>6, <2>2 DEF RoutesMade
<1>7. CASE pc' \in {"removedAuthz"} \cup CleanupPhases
  <2>1. pc \in {"authzPolicies", "removedAuthz", "internalHosts", "externalGateway"}
    BY <1>7 DEF BeginsPhase, NextPhase, CleanupPhases
  <2>2. job.cr \notin queue \/ pc' = "removedAuthz" =>
           Routed(ExternalItems, "external") /\ Routed(CloudSQLItems, "cloudsql")
    <3> QED
      BY <2>1, PhaseBefore DEF RoutesMade, CleanupPhases
  <2>3. job.cr \notin queue \/ pc' = "removedAuthz" =>
           Routed(ExternalItems, "external")' /\ Routed(CloudSQLItems, "cloudsql")'
    BY <1>1, <1>2, <2>2 DEF Routed
  <2> QED
    BY <1>3, <1>7, <2>3 DEF RoutesMade, CleanupPhases
<1> QED
  BY <1>4, <1>5, <1>6, <1>7 DEF RoutesMade, CleanupPhases

LEMMA RoutesMadeWaits ==
    ASSUME TInv, RoutesMade, Waits
    PROVE  RoutesMade'
<1>1. queue \subseteq queue' /\ UNCHANGED <<pc, job, todo, cur, at>>
  BY WaitsQueueing DEF TInv, GInv, Waits, workerVars
<1>2. \A k \in {"GW", "VS", "DR", "SE"} : api'[k] = api[k]
  BY OtherWrites DEF TInv, Waits, Kinds, IdentityKinds
<1>3. \A h, name, n : RouteUpTo(h, name, n)' <=> RouteUpTo(h, name, n)
  BY <1>2 DEF RouteUpTo, HasHost
<1>4. ExternalItems' = ExternalItems /\ CloudSQLItems' = CloudSQLItems
  BY <1>1 DEF ExternalItems, CloudSQLItems, Listed, spec
<1> QED
  BY <1>1, <1>3, <1>4 DEF RoutesMade, Routed

\* The calls for hosts are made one after the other.
LEMMA HostCallNext ==
    ASSUME DistinctNames, HostsApart, ListOK, RoutesMade, Works, [Next]_vars,
           stale \cap HostKinds = {},
           NEW name, NEW items,
           \/ pc = "externalHosts" /\ name = "external" /\ items = ExternalItems
           \/ pc = "cloudSQLHosts" /\ name = "cloudsql" /\ items = CloudSQLItems
    PROVE  /\ \A i \in items \ todo' : RouteUpTo(i[2], name, 7)'
           /\ cur' = None => at' = 1
           /\ cur' # None /\ pc = "externalHosts" => RouteUpTo(cur[2], name, at)'
           /\ cur' # None /\ pc = "cloudSQLHosts" => RouteUpTo(cur[2], name, at + 1)'
<1>t. TInv /\ FInv /\ StoreOK /\ at \in 1 .. 6
  BY DEF ListOK, SInv, TInv, GInv, FInv, CoreTypeOK
<1>p. pc \in {"externalHosts", "cloudSQLHosts"} /\ name = GatewayName
  BY DEF GatewayName
<1>n. PICK n \in 1 .. 7 : n = IF pc = "externalHosts" THEN at ELSE at + 1
  BY <1>t
<1>1. PICK x \in todo : HostStep(x)
  <2>1. ~CleanupGateway /\ \A x : ~PolicyStep(x) /\ ~IdentityStep(x)
    BY <1>p, <1>t, IdentityWrites DEF CleanupGateway, PolicyStep, EnsureAuthorizationPolicy,
       DeletePolicy, DeleteUnlistedPolicy
  <2> QED
    BY <2>1 DEF Works
<1>2. EnsuringHost(x, n) /\ n \in 1 .. 6
  <2>1. \E m \in 1 .. 6 : EnsuringHost(x, m)
    <3>1. CASE EnsureDestinationRule(x)
      <4>1. PICK to \in BOOLEAN : EnsuringHost(x, IF to THEN 4 ELSE 5)
        BY <3>1 DEF EnsureDestinationRule
      <4>2. EnsuringHost(x, 4) \/ EnsuringHost(x, 5)
        BY <4>1
      <4> QED
        BY <4>2
    <3>2. CASE EnsureGatewayExists(x)
      BY <3>2 DEF EnsureGatewayExists
    <3>3. CASE EnsureGatewayContainsHost(x)
      BY <3>3 DEF EnsureGatewayContainsHost
    <3>4. CASE EnsureVirtualService(x)
      BY <3>4 DEF EnsureVirtualService
    <3>5. CASE EnsureServiceEntry(x)
      BY <3>5 DEF EnsureServiceEntry
    <3> QED
      BY <1>1, <1>p, <3>1, <3>2, <3>3, <3>4, <3>5 DEF HostStep, RemoveExternalHost
  <2> QED
    BY <1>n, <1>t, <2>1 DEF EnsuringHost
<1>3. x \in items /\ x # None
  <2>1. x \in items
    BY <1>t DEF TInv, GInv, RowsFirst
  <2> QED
    BY <1>t, <2>1, ItemTypes, WorkerAssumption DEF FInv
<1>4. RouteUpTo(x[2], name, n)
  <2>1. cur = None \/ cur = x
    BY <1>2 DEF EnsuringHost, Taking
  <2>2. cur = None => n \in {1, 2}
    BY <1>n DEF RoutesMade
  <2>3. n \in {1, 2} => RouteUpTo(x[2], name, n)
    BY DEF RouteUpTo
  <2> QED
    BY <1>n, <1>3, <2>1, <2>2, <2>3 DEF RoutesMade
<1>5. \A i \in items \ todo : RouteUpTo(i[2], name, 7)'
  <2>1. Routed(items \ todo, name)
    BY DEF RoutesMade
  <2> QED
    BY <1>p, <2>1, RoutedStays DEF CleanupPhases
<1>6. ~ReturnError
  BY <1>p DEF Works, ReturnError, Forget
<1>7. \/ n < 6 /\ NextCall(x) /\ RouteUpTo(x[2], name, n + 1)'
      \/ n = 6 /\ DoneWith(x) /\ RouteUpTo(x[2], name, 7)'
  BY <1>t, <1>p, <1>1, <1>2, <1>4, <1>6, HostCallMakes
<1>8. CASE n < 6 /\ NextCall(x) /\ RouteUpTo(x[2], name, n + 1)'
  <2>1. cur' = x /\ at' = at + 1 /\ todo' = todo
    BY <1>8 DEF NextCall, NextCallNoting
  <2>2. n + 1 = IF pc = "externalHosts" THEN at' ELSE at' + 1
    BY <1>n, <1>p, <1>t, <2>1
  <2>3. RouteUpTo(cur[2], name, n + 1)'
    BY <1>8, <2>1
  <2> QED
    BY <1>p, <1>3, <1>5, <2>1, <2>2, <2>3
<1>9. CASE n = 6 /\ DoneWith(x) /\ RouteUpTo(x[2], name, 7)'
  <2>1. cur' = None /\ at' = 1 /\ todo' = todo \ {x}
    BY <1>9 DEF DoneWith, DoneNoting
  <2> QED
    BY <1>5, <1>9, <2>1
<1> QED
  BY <1>7, <1>8, <1>9

LEMMA RoutesMadeWorks ==
    ASSUME DistinctNames, HostsApart, ListOK, RoutesMade, Works, [Next]_vars,
           pc \in HostPhases => stale \cap HostKinds = {}
    PROVE  RoutesMade'
<1>1. CASE pc = "idle"
  BY <1>1 DEF Works, RoutesMade, CleanupPhases
<1>2. CASE pc # "idle"
  <2>1. UNCHANGED <<pc, job, queue>> /\ todo' \subseteq todo
    BY <1>2, WorksQuietly DEF Works, ListOK, SInv, TInv, GInv
  <2>2. ExternalItems' = ExternalItems /\ CloudSQLItems' = CloudSQLItems
    BY <2>1 DEF ExternalItems, CloudSQLItems, Listed, spec
  <2>e. ASSUME Routed(ExternalItems, "external"), pc \in CleanupPhases => job.cr \notin queue
        PROVE  Routed(ExternalItems, "external")'
    BY <2>2, <2>e, RoutedStays DEF Routed
  <2>c. ASSUME Routed(CloudSQLItems, "cloudsql"), pc \in CleanupPhases => job.cr \notin queue
        PROVE  Routed(CloudSQLItems, "cloudsql")'
    BY <2>2, <2>c, RoutedStays DEF Routed
  <2>3. CASE pc \notin {"externalHosts", "cloudSQLHosts"}
    BY <2>1, <2>3, <2>e, <2>c DEF RoutesMade, CleanupPhases
  <2>4. CASE pc = "externalHosts"
    <3>1. /\ \A i \in ExternalItems \ todo' : RouteUpTo(i[2], "external", 7)'
          /\ cur' = None => at' = 1
          /\ cur' # None => RouteUpTo(cur[2], "external", at)'
      BY <2>4, HostCallNext DEF HostPhases
    <3> QED
      BY <2>1, <2>2, <2>4, <3>1 DEF RoutesMade, Routed, CleanupPhases
  <2>5. CASE pc = "cloudSQLHosts"
    <3>1. /\ \A i \in CloudSQLItems \ todo' : RouteUpTo(i[2], "cloudsql", 7)'
          /\ cur' = None => at' = 1
          /\ cur' # None => RouteUpTo(cur[2], "cloudsql", at + 1)'
      BY <2>5, HostCallNext DEF HostPhases
    <3>2. Routed(ExternalItems, "external")'
      BY <2>e, <2>5 DEF RoutesMade, CleanupPhases
    <3> QED
      BY <2>1, <2>2, <2>5, <3>1, <3>2 DEF RoutesMade, Routed, CleanupPhases
  <2> QED
    BY <2>3, <2>4, <2>5
<1> QED
  BY <1>1, <1>2

LEMMA RoutesMadeNext ==
    ASSUME DistinctNames, HostsApart, ListOK, RoutesMade, [Next]_vars,
           pc \in HostPhases => stale \cap HostKinds = {}
    PROVE  RoutesMade'
<1>1. CASE pc' \in DOMAIN NextPhase \ {"persist"}
  BY <1>1, PhaseSteps, RoutesMadeBegins, RoutesMadeWaits, RoutesMadeWorks
     DEF ListOK, SInv, TInv, GInv
<1>2. CASE pc' \notin DOMAIN NextPhase \ {"persist"}
  BY <1>2 DEF NextPhase, RoutesMade, CleanupPhases
<1> QED
  BY <1>1, <1>2

LEMMA ListOKInit == Init => ListOK
<1> SUFFICES ASSUME Init
             PROVE  ListOK
  OBVIOUS
<1>1. GatewaysApart
  <2>1. api["GW"] = InitialGateways /\ seen["GW"] = {}
    BY DEF Init, ClusterInit, Kinds
  <2> QED
    BY <2>1 DEF GatewaysApart, OfItsSort, InitialGateways
<1>2. TakingOutUnused /\ SpecsListed
  BY DEF Init, WorkerInit, TakingOutUnused, SpecsListed, CleanupPhases
<1> QED
  BY <1>1, <1>2, SInvInit DEF ListOK

LEMMA ListOKNext ==
    ASSUME ListOK, [Next]_vars
    PROVE  ListOK'
BY SInvNext, GatewaysApartNext, TakingOutUnusedNext, SpecsListedNext DEF ListOK, SInv

\* A reconcile that gets to its end and is not queued was not queued before.
LEMMA NotQueuedBefore ==
    ASSUME FInv, [Next]_vars, pc \in DOMAIN NextPhase, job.cr \notin queue'
    PROVE  job.cr \notin queue
<1>1. utsa[job.cr].live /\ job.cr \in CRs /\ at \in 1 .. 6 /\ pc # "idle"
  BY DEF FInv, FinalizerHeld, CoreTypeOK, NextPhase
<1>2. CASE Step
  BY <1>1, <1>2, StepQueues
<1>3. CASE UNCHANGED workerVars /\ (Users \/ Caches \/ Background \/ UNCHANGED vars)
  BY <1>3, WaitsQueueing DEF Waits
<1>4. CASE Trouble
  BY <1>1, <1>4 DEF Trouble, CallFails, Restart, ReturnError
<1>5. CASE \E c \in CRs : Start(c)
  BY <1>1, <1>5 DEF Start
<1> QED
  BY <1>2, <1>3, <1>4, <1>5 DEF Next, Users, Caches, Background, vars

(* The repair: what reconciles on stale caches have left out or taken away, *)
(* one that reads fresh ones puts back.                                     *)
RoutedWhenDone ==
    Succeeds /\ current =>
        \A s \in Listed : /\ \A h \in spec.sas[s].ext : RouteExists(h, "external")
                          /\ \A h \in spec.sas[s].sql : RouteExists(h, "cloudsql")

RepairInv == ListOK /\ (current => RoutesMade)

LEMMA RepairInvNext ==
    ASSUME DistinctNames, HostsApart, RepairInv, [RepairNext]_repairVars
    PROVE  RepairInv'
<1>1. [Next]_vars
  BY DEF RepairNext, repairVars
<1>2. ListOK'
  BY <1>1, ListOKNext DEF RepairInv
<1>3. ASSUME current'
      PROVE  RoutesMade'
  <2>1. CASE UNCHANGED repairVars
    BY <1>3, <2>1 DEF RepairInv, RoutesMade, Routed, RouteUpTo, HasHost, repairVars, vars, clusterVars,
       workerVars, ExternalItems, CloudSQLItems, Listed, spec
  <2>2. CASE pc = "idle"
    <3>1. pc' \notin DOMAIN NextPhase \ {"persist"}
      <4>1. CASE BeginsPhase
        BY <2>2, <4>1 DEF BeginsPhase, NextPhase
      <4>2. CASE Waits \/ Works
        BY <2>2, <4>2 DEF Waits, Works, workerVars, NextPhase
      <4> QED
        BY <1>1, <4>1, <4>2, PhaseSteps DEF RepairInv, ListOK, SInv, TInv, GInv
    <3> QED
      BY <3>1 DEF NextPhase, RoutesMade, CleanupPhases
  <2>3. CASE RepairNext /\ pc # "idle"
    <3>1. current /\ (pc \in HostPhases => stale \cap HostKinds = {})
      BY <1>3, <2>3 DEF RepairNext
    <3> QED
      BY <1>1, <3>1, RoutesMadeNext DEF RepairInv
  <2> QED
    BY <2>1, <2>2, <2>3
<1> QED
  BY <1>2, <1>3 DEF RepairInv

\* A reconcile that succeeds and has read fresh caches of gateways and routes leaves
\* every external and CloudSQL host of the CR routed (reconciler.go:18-127), whatever
\* stale caches have made other reconciles skip or take away; when hosts have names of
\* their own and each is of one sort.
THEOREM FreshReconcilesRepair ==
    ASSUME DistinctNames, HostsApart
    PROVE  RepairSpec => FreshReconcileRepairs
<1>1. RepairInit => RepairInv
  <2>1. Init => RoutesMade
    BY DEF Init, WorkerInit, RoutesMade, CleanupPhases
  <2> QED
    BY <2>1, ListOKInit DEF RepairInit, RepairInv
<1>2. RepairInv /\ [RepairNext]_repairVars => RepairInv'
  BY RepairInvNext
<1>3. RepairInv /\ [RepairNext]_repairVars => [RoutedWhenDone]_repairVars
  <2> SUFFICES ASSUME RepairInv, RepairNext, Succeeds, current, NEW s \in Listed
               PROVE  /\ \A h \in spec.sas[s].ext : RouteExists(h, "external")
                      /\ \A h \in spec.sas[s].sql : RouteExists(h, "cloudsql")
    BY DEF RoutedWhenDone
  <2>1. job.cr \notin queue
    BY NotQueuedBefore DEF RepairInv, ListOK, SInv, TInv, GInv, RepairNext, Succeeds, NextPhase
  <2>2. Routed(ExternalItems, "external") /\ Routed(CloudSQLItems, "cloudsql")
    BY <2>1 DEF RepairInv, RoutesMade, Succeeds, CleanupPhases
  <2>3. \A h, name : RouteUpTo(h, name, 7) => RouteExists(h, name)
    BY RouteComplete
  <2>4. ASSUME NEW h \in spec.sas[s].ext
        PROVE  RouteUpTo(h, "external", 7)
    <3>1. <<s, h>> \in ExternalItems
      BY DEF ExternalItems
    <3> QED
      BY <2>2, <3>1 DEF Routed
  <2>5. ASSUME NEW h \in spec.sas[s].sql
        PROVE  RouteUpTo(h, "cloudsql", 7)
    <3>1. <<s, h>> \in CloudSQLItems
      BY DEF CloudSQLItems
    <3> QED
      BY <2>2, <3>1 DEF Routed
  <2> QED
    BY <2>3, <2>4, <2>5
<1>4. RepairSpec => [][RoutedWhenDone]_repairVars
  BY <1>1, <1>2, <1>3, PTL DEF RepairSpec
<1> QED
  BY <1>4 DEF RoutedWhenDone, FreshReconcileRepairs

-----------------------------------------------------------------------------
(* Policies, on a fresh cache of them.                                      *)

\* What EnsureAuthorizationPolicies makes for a spec is what the spec calls for.
LEMMA ItemsDue ==
    ASSUME CoreTypeOK, NEW i \in PolicyItems
    PROVE  i[2] \in Due(spec)
<1>1. PICK s \in Listed :
         \/ \E h \in spec.sas[s].ext \cup spec.sas[s].sql : i[2] = Policy(s, h, h, "external")
         \/ \E h \in spec.sas[s].int \cap DOMAIN Onprem :
               \/ i[2] = Policy(s, h, h, "internal")
               \/ \E v \in Onprem[h] : i[2] = Policy(s, v, h, "internal")
  BY DEF PolicyItems
<1>2. /\ spec \in AllSpecs /\ s \in DOMAIN spec.sas /\ spec.env \in Envs /\ s \in SaNames
      /\ spec.sas[s].ext \subseteq Hosts /\ spec.sas[s].int \subseteq Hosts
      /\ spec.sas[s].sql \subseteq Hosts
  BY JobTypes, SpecTypes DEF Listed
<1>3. ASSUME NEW h \in spec.sas[s].ext \cup spec.sas[s].sql, i[2] = Policy(s, h, h, "external")
      PROVE  i[2] \in Due(spec)
  <2>1. h \in AllExternal \cup AllCloudSQL
    BY <1>2 DEF AllExternal, AllCloudSQL
  <2>2. i[2] \in Objects("AP")
    BY <1>2, <1>3, ObjectTypes DEF Policy
  <2> QED
    BY <1>2, <1>3, <2>1, <2>2 DEF Due, PolicyShape, Policy
<1>4. ASSUME NEW h \in spec.sas[s].int \cap DOMAIN Onprem, NEW v \in {h} \cup Onprem[h],
             i[2] = Policy(s, v, h, "internal")
      PROVE  i[2] \in Due(spec)
  <2>1. v \in Hosts
    BY <1>2, OnpremAssumption
  <2>2. i[2] \in Objects("AP")
    BY <1>2, <1>4, <2>1, ObjectTypes DEF Policy
  <2> QED
    BY <1>2, <1>4, <2>2 DEF Due, PolicyShape, Policy
<1> QED
  BY <1>1, <1>3, <1>4

LEMMA DueItems ==
    ASSUME NEW p \in Due(spec)
    PROVE  \E i \in PolicyItems : i[2] = p
<1>1. /\ p \in [env : Envs, sa : SaNames, host : Hosts, parent : Hosts, type : {"external", "internal"}]
      /\ p.env = spec.env /\ p.sa \in Listed
  BY ObjectTypes DEF Due, Listed
<1>2. p = Policy(p.sa, p.host, p.parent, p.type)
  BY <1>1 DEF Policy
<1> DEFINE e == spec.sas[p.sa]
<1>3. CASE p.type = "external"
  <2>1. p.parent = p.host /\ p.host \in e.ext \cup e.sql
    BY <1>3 DEF Due, PolicyShape
  <2>2. <<1, p>> \in PolicyItems \/ <<2, p>> \in PolicyItems
    BY <1>1, <1>2, <1>3, <2>1 DEF PolicyItems
  <2> QED
    BY <2>2
<1>4. CASE p.type = "internal"
  <2>1. p.parent \in e.int \cap DOMAIN Onprem /\ (p.host = p.parent \/ p.host \in Onprem[p.parent])
    BY <1>4 DEF Due, PolicyShape
  <2>2. <<3, p>> \in PolicyItems
    BY <1>1, <1>2, <1>4, <2>1 DEF PolicyItems
  <2> QED
    BY <2>2
<1> QED
  BY <1>1, <1>3, <1>4

\* The host of a policy tells its parent and type.
LEMMA OneParent ==
    ASSUME HostsApart, NEW a, PolicyShape(a), NEW b, PolicyShape(b), a.host = b.host
    PROVE  a.parent = b.parent /\ a.type = b.type
<1>1. \A x : PolicyShape(x) /\ x.type = "internal" =>
         \/ x.host = x.parent /\ x.host \in DOMAIN Onprem
         \/ x.host \in Onprem[x.parent] /\ x.host \in VIPs /\ x.parent \in DOMAIN Onprem
  BY DEF PolicyShape, VIPs
<1>2. CASE a.type = "external" \/ b.type = "external"
  BY <1>1, <1>2 DEF HostsApart, PolicyShape
<1>3. CASE a.type = "internal" /\ b.type = "internal"
  BY <1>1, <1>3 DEF HostsApart
<1> QED
  BY <1>2, <1>3 DEF PolicyShape

\* So there is one policy of a name.
LEMMA OneOfAName ==
    ASSUME DistinctNames, HostsApart, StoreOK, PoliciesShaped,
           NEW ap \in Objects("AP"), PolicyShape(ap), NEW x \in api["AP"],
           \/ x \in Namesakes("AP", ap)
           \/ \E t : x = [ap EXCEPT !.type = t]
    PROVE  x = ap
<1>1. x \in Objects("AP")
  BY DEF StoreOK, Kinds
<1> DEFINE APs == [env : Envs, sa : SaNames, host : Hosts, parent : Hosts, type : {"external", "internal"}]
<1>2. x \in APs /\ ap \in APs
  BY <1>1, ObjectTypes
<1>3. x.env = ap.env /\ x.sa = ap.sa /\ x.host = ap.host
  <2>1. CASE x \in Namesakes("AP", ap)
    <3>1. <<x.env, x.sa, NameOf[x.host]>> = <<ap.env, ap.sa, NameOf[ap.host]>>
      BY <2>1 DEF Namesakes, ObjectName
    <3> QED
      BY <1>2, <3>1 DEF DistinctNames
  <2>2. CASE \E t : x = [ap EXCEPT !.type = t]
    BY <1>2, <2>2
  <2> QED
    BY <2>1, <2>2
<1>4. x.parent = ap.parent /\ x.type = ap.type
  BY <1>3, OneParent DEF PoliciesShaped
<1> QED
  BY <1>2, <1>3, <1>4

\* A call for a policy makes it, or is an error.
LEMMA PolicyCallMakes ==
    ASSUME DistinctNames, HostsApart, "AP" \notin Lagging, TInv, PoliciesShaped,
           NEW i \in PolicyItems, EnsureAuthorizationPolicy(i)
    PROVE  ReturnError \/ (DoneWith(i) /\ i[2] \in api'["AP"])
<1>1. StoreOK /\ CoreTypeOK /\ "AP" \in Kinds
  BY DEF TInv, GInv, FInv, Kinds
<1>2. View("AP") = api["AP"]
  BY <1>1 DEF View, StoreOK
<1>3. i[2] \in Objects("AP") /\ PolicyShape(i[2])
  BY <1>1, ItemsDue DEF Due
<1>4. \/ ReturnError
      \/ DoneWith(i) /\ ReadOnly /\ \E t : [i[2] EXCEPT !.type = t] \in api["AP"]
      \/ DoneWith(i) /\ ReadOnly /\ Namesakes("AP", i[2]) # {}
      \/ DoneWith(i) /\ Write("AP", api["AP"] \cup {i[2]})
  BY <1>2 DEF EnsureAuthorizationPolicy
<1>5. ASSUME \E t : [i[2] EXCEPT !.type = t] \in api["AP"]
      PROVE  i[2] \in api["AP"]
  BY <1>1, <1>3, <1>5, OneOfAName
<1>6. ASSUME Namesakes("AP", i[2]) # {}
      PROVE  i[2] \in api["AP"]
  <2>1. PICK x \in api["AP"] : x \in Namesakes("AP", i[2])
    BY <1>6 DEF Namesakes
  <2> QED
    BY <1>1, <1>3, <2>1, OneOfAName
<1>7. ASSUME Write("AP", api["AP"] \cup {i[2]})
      PROVE  i[2] \in api'["AP"]
  BY <1>1, <1>7, WriteEffect
<1> QED
  BY <1>4, <1>5, <1>6, <1>7 DEF ReadOnly

LEMMA PoliciesShapedNext ==
    ASSUME TInv, PoliciesShaped, [Next]_vars
    PROVE  PoliciesShaped'
<1>1. ASSUME NEW ap \in api'["AP"], ap \notin api["AP"]
      PROVE  PolicyShape(ap)
  <2>1. PICK i \in PolicyItems : ap = i[2]
    BY <1>1, PoliciesGrow
  <2> QED
    BY <2>1, ItemsDue DEF Due, TInv, GInv, FInv
<1> QED
  BY <1>1 DEF PoliciesShaped, PolicyShape

\* A policy that is called for is not taken away.
LEMMA PoliciesStay ==
    ASSUME DistinctNames, HostsApart, ListOK, PoliciesShaped, RevokingUnlisted, [Next]_vars,
           NEW sp, Standing(sp), NEW p \in Due(sp), p \in api["AP"],
           pc \in {"finalize", "removedAuthz"} =>
               \A ap \in todo : ap.env # sp.env \/ ap.sa \notin DOMAIN sp.sas
    PROVE  p \in api'["AP"]
<1>t. TInv /\ StoreOK /\ "AP" \in Kinds \ (IdentityKinds \cup {"GW"})
  BY DEF ListOK, SInv, TInv, Kinds, IdentityKinds
<1>p. /\ p \in Objects("AP") /\ PolicyShape(p) /\ p.host \in Hosts
      /\ p.env = sp.env /\ p.sa \in DOMAIN sp.sas
  BY HostsAreHosts DEF Due
<1>1. ASSUME NEW x \in todo, RemoveExternalHost(x)
      PROVE  p \in api'["AP"]
  <2>1. pc \in {"externalGateway", "cloudSQLGateway"}
    BY <1>1 DEF RemoveExternalHost
  <2>2. p.host # x
    <3>1. CASE p.type = "external"
      BY <1>p, <2>1, <3>1, StandingHosts DEF Due
    <3>2. CASE p.type = "internal"
      <4>1. p.host \in DOMAIN Onprem \cup VIPs
        BY <1>p, <3>2 DEF PolicyShape, VIPs
      <4>2. x \in AllExternal \cup AllCloudSQL
        BY <2>1 DEF ListOK, TakingOutUnused
      <4> QED
        BY <4>1, <4>2 DEF HostsApart
    <3> QED
      BY <1>p, <3>1, <3>2 DEF PolicyShape
  <2> QED
    BY <1>t, <1>1, <2>2, RemoveKeeps
<1>2. ASSUME NEW x \in todo, HostStep(x)
      PROVE  p \in api'["AP"]
  BY <1>t, <1>1, <1>2, HostWrites
<1>3. ASSUME NEW x, EnsureAuthorizationPolicy(x)
      PROVE  p \in api'["AP"]
  <2>1. ReadOnly \/ \E o : Write("AP", api["AP"] \cup {o})
    BY <1>3 DEF EnsureAuthorizationPolicy
  <2>2. ASSUME NEW o, Write("AP", api["AP"] \cup {o})
        PROVE  p \in api'["AP"]
    BY <1>t, <2>2, WriteEffect
  <2> QED
    BY <2>1, <2>2 DEF ReadOnly
<1>4. ASSUME NEW x \in todo, DeletePolicy(x)
      PROVE  p \in api'["AP"]
  <2>1. ReadOnly \/ Write("AP", api["AP"] \ Namesakes("AP", x))
    BY <1>4 DEF DeletePolicy
  <2>2. p \notin Namesakes("AP", x)
    <3>1. x.env # sp.env \/ x.sa \notin DOMAIN sp.sas
      BY <1>4 DEF DeletePolicy
    <3> QED
      BY <1>p, <3>1 DEF Namesakes, ObjectName
  <2> QED
    BY <1>t, <2>1, <2>2, WriteEffect DEF ReadOnly
<1>5. ASSUME NEW x \in todo, DeleteUnlistedPolicy(x)
      PROVE  p \in api'["AP"]
  <2>1. ReadOnly \/ Write("AP", api["AP"] \ Namesakes("AP", x))
    BY <1>5 DEF DeleteUnlistedPolicy
  <2>2. pc = "internalHosts" /\ x \in Objects("AP") /\ PolicyShape(x) /\ x.type = "internal"
    BY <1>5 DEF DeleteUnlistedPolicy, RevokingUnlisted
  <2>3. p \notin Namesakes("AP", x)
    <3>1. SUFFICES ASSUME p \in Namesakes("AP", x)
                   PROVE  FALSE
      OBVIOUS
    <3>2. p = x
      BY <1>t, <2>2, <3>1, OneOfAName
    <3>3. p.parent \in sp.sas[p.sa].int
      BY <2>2, <3>2 DEF Due
    <3>4. p.parent \notin sp.sas[p.sa].int
      BY <1>p, <2>2, <3>2 DEF RevokingUnlisted, Standing, CleanupPhases
    <3> QED
      BY <3>3, <3>4
  <2> QED
    BY <1>t, <2>1, <2>3, WriteEffect DEF ReadOnly
<1>6. ASSUME NEW x, IdentityStep(x)
      PROVE  p \in api'["AP"]
  BY <1>t, <1>6, IdentityWrites
<1>7. CASE CleanupGateway
  BY <1>t, <1>7, GatewayWrites
<1> QED
  BY <1>t, <1>2, <1>3, <1>4, <1>5, <1>6, <1>7, OtherWrites DEF Next, Step, PolicyStep

LEMMA RevokingUnlistedNext ==
    ASSUME OnePerPair, "AP" \notin Lagging, ListOK, PoliciesShaped, RevokingUnlisted, [Next]_vars
    PROVE  RevokingUnlisted'
<1>t. TInv /\ FInv /\ StoreOK /\ "AP" \in Kinds
  BY DEF ListOK, SInv, TInv, GInv, Kinds
<1>v. View("AP") = api["AP"]
  BY <1>t DEF View, StoreOK
<1>1. ASSUME pc' = "finalize"
      PROVE  \A ap \in todo' : ap.env = spec'.env
  <2>1. CASE \E c \in CRs : Start(c)
    <3>1. PICK c \in CRs : Start(c)
      BY <2>1
    <3>2. job'.obj = seenUtsa[c] /\ todo' = FinalPolicies(seenUtsa[c].spec)
      BY <1>1, <3>1 DEF Start, EnterPhase, workerVars
    <3> QED
      BY <3>2 DEF FinalPolicies, spec
  <2>2. CASE Advance \/ AddFinalizer \/ RemoveFinalizer \/ Trouble
    BY <1>1, <2>2, Phases DEF Advance, AddFinalizer, RemoveFinalizer, EnterPhase, Trouble, CallFails, Restart,
       ReturnError, ReturnNil, Forget
  <2>3. CASE pc' = pc /\ job' = job /\ todo' \subseteq todo
    BY <1>1, <2>3 DEF RevokingUnlisted, spec
  <2>4. ASSUME NEW x \in todo, PersistAllowlist(x) \/ IdentityStep(x) \/ HostStep(x) \/ PolicyStep(x)
        PROVE  pc' = pc /\ job' = job /\ todo' \subseteq todo
    <3>1. CASE PersistAllowlist(x)
      BY <1>1, <3>1 DEF PersistAllowlist, DoneWith, DoneNoting, ReturnError, Forget
    <3>2. CASE ~PersistAllowlist(x)
      BY <1>t, <1>1, <2>4, <3>2, LoopFrame DEF FInv, CoreTypeOK, ReturnError, Forget
    <3> QED
      BY <3>1, <3>2
  <2>5. CASE CleanupGateway
    BY <1>1, <2>5 DEF CleanupGateway, ReturnError, Forget
  <2>6. CASE Users \/ Caches \/ Background \/ UNCHANGED vars
    BY <2>3, <2>6 DEF Users, Caches, Background, vars, workerVars
  <2> QED
    BY <2>1, <2>2, <2>3, <2>4, <2>5, <2>6 DEF Next, Step
<1>2. ASSUME pc' = "removedAuthz"
      PROVE  \A ap \in todo' : ap.env = spec'.env /\ ap.sa \notin Listed'
  <2>1. BeginsPhase \/ Waits \/ Works
    BY <1>t, <1>2, PhaseSteps DEF NextPhase
  <2>2. CASE BeginsPhase
    <3>1. job' = job /\ todo' = RemovedPolicies
      BY <1>2, <2>2 DEF BeginsPhase, EnterPhase, PhaseItems
    <3> QED
      BY <3>1 DEF RemovedPolicies, spec, Listed
  <2>3. CASE Waits \/ Works
    <3>1. pc' = pc /\ job' = job /\ todo' \subseteq todo
      BY <1>t, <1>2, <2>3, WorksQuietly DEF Waits, workerVars, Works
    <3> QED
      BY <1>2, <3>1 DEF RevokingUnlisted, spec, Listed
  <2> QED
    BY <2>1, <2>2, <2>3
<1>3. ASSUME pc' = "internalHosts", NEW ap \in todo'
      PROVE  /\ ap \in Objects("AP") /\ PolicyShape(ap) /\ ap.type = "internal"
             /\ \A c \in CRs :
                   /\ seenUtsa'[c].live /\ c \notin queue'
                   /\ ap.env = seenUtsa'[c].spec.env /\ ap.sa \in DOMAIN seenUtsa'[c].spec.sas
                   => ap.parent \notin seenUtsa'[c].spec.sas[ap.sa].int
  <2>1. BeginsPhase \/ Waits \/ Works
    BY <1>t, <1>3, PhaseSteps DEF NextPhase
  <2>2. CASE BeginsPhase
    <3>1. seenUtsa' = seenUtsa /\ todo' = UnlistedPolicies(ListedSpecs)
      BY <1>3, <2>2 DEF BeginsPhase, Advance, EnterPhase, PhaseItems
    <3>2. ap \in api["AP"] /\ ap.type = "internal"
      BY <1>3, <1>v, <3>1 DEF UnlistedPolicies
    <3>3. ap \in Objects("AP") /\ PolicyShape(ap)
      BY <1>t, <3>2 DEF StoreOK, PoliciesShaped
    <3>4. PICK d \in CRs : /\ seenUtsa[d].live /\ ap.env = seenUtsa[d].spec.env
                           /\ ap.parent \notin seenUtsa[d].spec.sas[ap.sa].int
      BY <1>3, <3>1 DEF UnlistedPolicies, ListedSpecs
    <3>5. \A c \in CRs : seenUtsa[c].live /\ ap.env = seenUtsa[c].spec.env => c = d
      BY <3>4 DEF ListOK, SInv, Orderly, OneEach
    <3> QED
      BY <3>1, <3>2, <3>3, <3>4, <3>5
  <2>3. CASE Waits
    <3>1. pc' = pc /\ todo' = todo
      BY <2>3 DEF Waits, workerVars
    <3> QED
      BY <1>t, <1>3, <2>3, <3>1, WaitsQueueing DEF RevokingUnlisted
  <2>4. CASE Works
    <3>1. pc' = pc /\ UNCHANGED <<seenUtsa, queue>> /\ todo' \subseteq todo
      BY <1>t, <1>3, <2>4, WorksQuietly DEF Works
    <3> QED
      BY <1>3, <3>1 DEF RevokingUnlisted
  <2> QED
    BY <2>1, <2>2, <2>3, <2>4
<1> QED
  BY <1>1, <1>2, <1>3 DEF RevokingUnlisted, PolicyShape

LEMMA PoliciesMadeBegins ==
    ASSUME PoliciesMade, BeginsPhase
    PROVE  PoliciesMade'
<1>1. /\ UNCHANGED <<job, queue>> /\ todo = {} /\ api' = api /\ todo' = PhaseItems(pc')
      /\ PolicyItems' = PolicyItems /\ Due(spec)' = Due(spec)
  BY DEF BeginsPhase, EnterPhase, PolicyItems, Policy, Listed, spec, Due, PolicyShape
<1>2. CASE pc' = "authzPolicies"
  BY <1>1, <1>2 DEF PoliciesMade, PhaseItems, CleanupPhases
<1>3. CASE pc' = "removedAuthz"
  <2>1. pc = "authzPolicies"
    BY <1>3, PhaseBefore
  <2>2. Due(spec) \subseteq api["AP"]
    BY <1>1, <2>1, DueItems DEF PoliciesMade
  <2> QED
    BY <1>1, <1>3, <2>2 DEF PoliciesMade
<1>4. CASE pc' \in CleanupPhases
  <2>1. pc \in {"removedAuthz", "internalHosts", "externalGateway"}
    BY <1>4, PhaseBefore DEF CleanupPhases
  <2> QED
    BY <1>1, <1>4, <2>1 DEF PoliciesMade, CleanupPhases
<1> QED
  BY <1>2, <1>3, <1>4 DEF PoliciesMade

LEMMA PoliciesMadeNext ==
    ASSUME DistinctNames, HostsApart, "AP" \notin Lagging, ListOK, PoliciesShaped,
           RevokingUnlisted, PoliciesMade, [Next]_vars
    PROVE  PoliciesMade'
<1>t. TInv /\ FInv /\ StoreOK /\ CoreTypeOK /\ "AP" \in Kinds \ IdentityKinds /\ job.cr \in CRs
  BY DEF ListOK, SInv, TInv, GInv, FInv, CoreTypeOK, Kinds, IdentityKinds
<1>1. CASE pc' \notin DOMAIN NextPhase \ {"persist"}
  BY <1>1 DEF NextPhase, PoliciesMade, CleanupPhases
<1>2. CASE pc' \in DOMAIN NextPhase \ {"persist"}
  <2>1. BeginsPhase \/ Waits \/ Works
    BY <1>t, <1>2, PhaseSteps
  <2>2. CASE BeginsPhase
    BY <2>2, PoliciesMadeBegins
  <2>3. CASE Waits \/ Works
    <3>1. UNCHANGED <<pc, job>> /\ todo' \subseteq todo /\ queue \subseteq queue'
      <4>1. CASE Waits
        BY <1>t, <4>1, WaitsQueueing DEF Waits, workerVars
      <4>2. CASE Works
        BY <1>t, <1>2, <4>2, WorksQuietly DEF Works, NextPhase
      <4> QED
        BY <2>3, <4>1, <4>2
    <3>2. PolicyItems' = PolicyItems /\ Due(spec)' = Due(spec)
      BY <3>1 DEF PolicyItems, Policy, Listed, spec, Due, PolicyShape
    <3>3. ASSUME NEW p \in Due(spec), p \in api["AP"],
                 pc \in CleanupPhases => job.cr \notin queue
          PROVE  p \in api'["AP"]
      <4>1. Standing(spec)
        BY <1>t, <3>3 DEF Standing, ListOK, SInv, Orderly, JobSeen, CleanupPhases
      <4>2. pc \in {"finalize", "removedAuthz"} =>
               \A ap \in todo : ap.env # spec.env \/ ap.sa \notin DOMAIN spec.sas
        BY <1>2, <3>1 DEF RevokingUnlisted, Listed, NextPhase
      <4> QED
        BY <3>3, <4>1, <4>2, PoliciesStay
    <3>4. CASE pc = "authzPolicies"
      <4>1. ASSUME NEW i \in PolicyItems, i \notin todo'
            PROVE  i[2] \in api'["AP"]
        <5>1. CASE i \notin todo
          BY <1>t, <3>3, <3>4, <5>1, ItemsDue DEF PoliciesMade, CleanupPhases
        <5>2. CASE i \in todo
          <6>1. CASE Waits
            BY <4>1, <5>2, <6>1 DEF Waits, workerVars
          <6>2. ASSUME NEW x \in todo, PolicyStep(x)
                PROVE  i[2] \in api'["AP"]
            <7>1. EnsureAuthorizationPolicy(x)
              BY <3>4, <6>2 DEF PolicyStep, DeletePolicy, DeleteUnlistedPolicy
            <7>2. x \in PolicyItems
              BY <1>t, <3>4 DEF TInv, GInv, RowsFirst
            <7>3. DoneWith(x) /\ x[2] \in api'["AP"]
              BY <1>t, <3>1, <3>4, <7>1, <7>2, PolicyCallMakes DEF ReturnError, Forget
            <7>4. i = x
              BY <4>1, <5>2, <7>3 DEF DoneWith, DoneNoting
            <7> QED
              BY <7>3, <7>4
          <6>3. ASSUME NEW x, IdentityStep(x) \/ HostStep(x)
                PROVE  FALSE
            BY <1>t, <3>4, <6>3, IdentityWrites, HostWrites
          <6>4. ~CleanupGateway
            BY <3>4 DEF CleanupGateway
          <6> QED
            BY <2>3, <6>1, <6>2, <6>3, <6>4 DEF Works
        <5> QED
          BY <5>1, <5>2
      <4> QED
        BY <3>1, <3>2, <3>4, <4>1 DEF PoliciesMade, CleanupPhases
    <3>5. CASE pc # "authzPolicies"
      <4>1. pc = "removedAuthz" \/ (pc \in CleanupPhases /\ job.cr \notin queue)
            => \A p \in Due(spec) : p \in api'["AP"]
        BY <3>3 DEF PoliciesMade, CleanupPhases
      <4> QED
        BY <3>1, <3>2, <3>5, <4>1 DEF PoliciesMade
    <3> QED
      BY <3>4, <3>5
  <2> QED
    BY <2>1, <2>2, <2>3
<1> QED
  BY <1>1, <1>2

-----------------------------------------------------------------------------
(* What a settled CR reaches.                                               *)

ReachInv ==
    /\ ListOK /\ RoutesMade /\ PoliciesShaped /\ RevokingUnlisted /\ PoliciesMade
    /\ SettledReached

LEMMA SettledReachedNext ==
    ASSUME DistinctNames, HostsApart, OnePerPair, ReachInv, [Next]_vars
    PROVE  SettledReached'
<1> USE DEF ReachInv
<1> SUFFICES ASSUME NEW c \in CRs, Settled(c)'
             PROVE  Served(utsa[c].spec)'
  BY DEF SettledReached
<1> DEFINE sp == utsa[c].spec
<1>t. SInv /\ TInv
  BY DEF ListOK, SInv
<1>1. utsa'[c] = utsa[c] /\ (Settled(c) \/ Finishing(c))
  BY <1>t, SettledBefore
<1>2. CASE Finishing(c)
  <2>1. /\ pc = "cloudSQLGateway" /\ job.cr \notin queue /\ sp = spec /\ api' = api
    BY <1>2 DEF Finishing
  <2>2. Routed(ExternalItems, "external") /\ Routed(CloudSQLItems, "cloudsql")
    BY <2>1 DEF RoutesMade, CleanupPhases
  <2>3. Due(spec) \subseteq api["AP"]
    BY <2>1 DEF PoliciesMade, CleanupPhases
  <2>4. ASSUME NEW s \in Listed
        PROVE  /\ \A h \in spec.sas[s].ext : RouteUpTo(h, "external", 7)
               /\ \A h \in spec.sas[s].sql : RouteUpTo(h, "cloudsql", 7)
    <3>1. \A h \in spec.sas[s].ext : <<s, h>> \in ExternalItems
      BY DEF ExternalItems
    <3>2. \A h \in spec.sas[s].sql : <<s, h>> \in CloudSQLItems
      BY DEF CloudSQLItems
    <3> QED
      BY <2>2, <3>1, <3>2 DEF Routed
  <2>5. Served(spec)
    BY <2>3, <2>4 DEF Served, Listed
  <2> QED
    BY <1>1, <2>1, <2>5 DEF Served, RouteUpTo, HasHost, Due
<1>3. CASE Settled(c)
  <2>1. Served(sp)
    BY <1>3 DEF SettledReached
  <2>2. Standing(sp)
    BY <1>3 DEF Standing, Settled
  <2>3. ASSUME NEW h, NEW name, NEW s \in DOMAIN sp.sas, RouteUpTo(h, name, 7),
               \/ name = "external" /\ h \in sp.sas[s].ext
               \/ name = "cloudsql" /\ h \in sp.sas[s].sql
        PROVE  RouteUpTo(h, name, 7)'
    BY <1>t, <2>2, <2>3, StandingHosts, RouteStays
  <2>4. ASSUME NEW p \in Due(sp)
        PROVE  p \in api'["AP"]
    <3>1. pc \in {"finalize", "removedAuthz"} =>
             \A ap \in todo : ap.env # sp.env \/ ap.sa \notin DOMAIN sp.sas
      <4>1. pc # "idle" => sp.env # spec.env
        BY <1>t, <1>3, SettledElsewhere
      <4> QED
        BY <4>1 DEF RevokingUnlisted
    <3> QED
      BY <2>1, <2>2, <2>4, <3>1, PoliciesStay DEF Served
  <2> QED
    BY <1>1, <2>1, <2>3, <2>4 DEF Served, Due
<1> QED
  BY <1>1, <1>2, <1>3

LEMMA ReachInvInit == Init => ReachInv
<1> SUFFICES ASSUME Init
             PROVE  ReachInv
  OBVIOUS
<1>1. pc = "idle" /\ api["AP"] = {} /\ \A c \in CRs : ~utsa[c].live
  BY DEF Init, WorkerInit, ClusterInit, Kinds
<1>2. PoliciesShaped /\ SettledReached
  BY <1>1 DEF PoliciesShaped, SettledReached, Settled
<1>3. RoutesMade /\ RevokingUnlisted /\ PoliciesMade
  BY <1>1 DEF RoutesMade, RevokingUnlisted, PoliciesMade, CleanupPhases
<1> QED
  BY <1>2, <1>3, ListOKInit DEF ReachInv

LEMMA ReachInvNext ==
    ASSUME FreshHostCaches, "AP" \notin Lagging, DistinctNames, HostsApart, OnePerPair,
           ReachInv, [Next]_vars
    PROVE  ReachInv'
<1>1. stale \cap HostKinds = {}
  BY DEF ReachInv, ListOK, SInv, TInv, StoreOK, FreshHostCaches, HostKinds, RoutingKinds, RouteKinds
<1> QED
  BY <1>1, ListOKNext, RoutesMadeNext, PoliciesShapedNext, RevokingUnlistedNext,
     PoliciesMadeNext, SettledReachedNext DEF ReachInv, ListOK, SInv

-----------------------------------------------------------------------------
(* Identities.                                                              *)

EquipInv == SInv /\ RemovingUnlisted /\ IdentitiesMade /\ SettledEquipped

\* A reconcile replaces what it finds by its own, and removes what is not listed; what
\* belongs to a CR at home is not the garbage collector's.
LEMMA OwnStays ==
    ASSUME SInv, RemovingUnlisted, [Next]_vars, NEW c \in CRs, utsa[c].live,
           NEW env, env = Home[c], NEW owner, owner = [cr |-> c, uid |-> utsa[c].uid],
           NEW s, NEW k \in IdentityKinds, NEW o \in api[k],
           o.env = env, o.sa = s, o.owner = owner,
           pc = "serviceAccounts" /\ spec.env = env => Owner = owner,
           pc \in {"removeSAs", "removeSAsAgain"} => spec.env # env \/ s \in Listed
    PROVE  \E o2 \in api'[k] : /\ o2.env = env /\ o2.sa = s /\ o2.owner = owner
                               /\ k = "PM" => o2.role = o.role
<1> DEFINE Like(o2) == /\ o2.env = env /\ o2.sa = s /\ o2.owner = owner
                       /\ k = "PM" => o2.role = o.role
<1>t. StoreOK /\ IdentityKinds \subseteq Kinds \ {"AP", "GW"}
      /\ IdentityKinds = {"SA", "GSA", "PM"}
  BY DEF SInv, TInv, IdentityKinds, Kinds
<1>s. ASSUME o \in api'[k]
      PROVE  \E o2 \in api'[k] : Like(o2)
  BY <1>s
<1>a. ASSUME NEW j \in IdentityKinds, NEW new, Write(j, api[j] \cup {new})
      PROVE  o \in api'[k]
  BY <1>t, <1>a, WriteEffect
<1>r. ASSUME pc = "serviceAccounts", NEW x, NEW j \in {"SA", "GSA"},
             Write(j, (api[j] \ Of(api[j], x)) \cup {Account(x)})
      PROVE  \E o2 \in api'[k] : Like(o2)
  <2>1. api'[j] = (api[j] \ Of(api[j], x)) \cup {Account(x)} /\ (k # j => api'[k] = api[k])
    BY <1>t, <1>r, WriteEffect
  <2>2. CASE k = j /\ o \in Of(api[j], x)
    <3>1. Account(x).env = env /\ Account(x).sa = s /\ Account(x).owner = owner
      BY <1>r, <2>2 DEF Of, Account
    <3> QED
      BY <1>r, <2>1, <2>2, <3>1
  <2>3. CASE ~(k = j /\ o \in Of(api[j], x))
    BY <1>s, <2>1, <2>3
  <2> QED
    BY <2>2, <2>3
<1>d. ASSUME NEW x \in todo, pc \in {"removeSAs", "removeSAsAgain"},
             NEW j \in IdentityKinds, NEW gone \in SUBSET Of(api[j], x), Write(j, api[j] \ gone)
      PROVE  o \in api'[k]
  <2>1. api'[j] = api[j] \ gone /\ (k # j => api'[k] = api[k])
    BY <1>t, <1>d, WriteEffect
  <2>2. x # s \/ spec.env # env
    BY <1>d DEF RemovingUnlisted
  <2> QED
    BY <2>1, <2>2 DEF Of
<1>1. ASSUME NEW x \in todo, ReconcileIAMServiceAccount(x)
      PROVE  \E o2 \in api'[k] : Like(o2)
  <2>1. /\ pc = "serviceAccounts"
        /\ \/ ReadOnly \/ Write("GSA", api["GSA"] \cup {Account(x)})
           \/ Write("GSA", (api["GSA"] \ Of(api["GSA"], x)) \cup {Account(x)})
    BY <1>1 DEF ReconcileIAMServiceAccount
  <2> QED
    BY <1>t, <1>s, <1>a, <1>r, <2>1 DEF ReadOnly
<1>2. ASSUME NEW x \in todo, ReconcileServiceAccount(x)
      PROVE  \E o2 \in api'[k] : Like(o2)
  <2>1. /\ pc = "serviceAccounts"
        /\ ReadOnly \/ Write("SA", (api["SA"] \ Of(api["SA"], x)) \cup {Account(x)})
    BY <1>2 DEF ReconcileServiceAccount
  <2> QED
    BY <1>s, <1>r, <2>1 DEF ReadOnly
<1>3. ASSUME NEW x \in todo, CreateIAMPolicyMember(x)
      PROVE  o \in api'[k]
  <2>1. ReadOnly \/ \E r : Write("PM", api["PM"] \cup {Member(x, r)})
    BY <1>3 DEF CreateIAMPolicyMember
  <2> QED
    BY <1>t, <1>a, <2>1 DEF ReadOnly
<1>4. ASSUME NEW x \in todo, CleanupIAMPolicyMember(x)
      PROVE  o \in api'[k]
  <2>1. pc \in {"removeSAs", "removeSAsAgain"}
        /\ (ReadOnly \/ \E r : Write("PM", api["PM"] \ OfRole(api["PM"], x, r)))
    BY <1>4 DEF CleanupIAMPolicyMember, Removing
  <2>2. \A r : OfRole(api["PM"], x, r) \subseteq Of(api["PM"], x)
    BY DEF OfRole
  <2> QED
    BY <1>t, <1>d, <2>1, <2>2 DEF ReadOnly
<1>5. ASSUME NEW x \in todo, CleanupIAMServiceAccount(x) \/ DeleteServiceAccount(x)
      PROVE  o \in api'[k]
  <2>1. pc \in {"removeSAs", "removeSAsAgain"}
        /\ (ReadOnly \/ \E j \in {"SA", "GSA"} : Write(j, api[j] \ Of(api[j], x)))
    BY <1>5 DEF CleanupIAMServiceAccount, DeleteServiceAccount, Removing
  <2> QED
    BY <1>t, <1>d, <2>1 DEF ReadOnly
<1>6. ASSUME NEW x, HostStep(x) \/ PolicyStep(x)
      PROVE  o \in api'[k]
  BY <1>t, <1>6, HostWrites, PolicyWrites
<1>7. CASE CleanupGateway
  BY <1>t, <1>s, <1>7, GatewayWrites
<1>8. CASE \/ \E x \in CRs : Start(x)
           \/ AddFinalizer \/ RemoveFinalizer \/ Advance \/ \E x : PersistAllowlist(x)
           \/ Users \/ Caches \/ Background \/ Trouble \/ UNCHANGED vars
  <2>1. \/ api' = api
        \/ \E j \in IdentityKinds : /\ api'[j] = {a \in api[j] : ~OwnerGone(a)}
                                    /\ \A i \in Kinds \ {j} : api'[i] = api[i]
    BY <1>t, <1>8, OtherWrites
  <2>2. ~OwnerGone(o)
    BY DEF OwnerGone
  <2>3. o \in api'[k]
    BY <1>t, <2>1, <2>2
  <2> QED
    BY <1>s, <2>3
<1> QED
  BY <1>s, <1>1, <1>2, <1>3, <1>4, <1>5, <1>6, <1>7, <1>8 DEF Next, Step, IdentityStep

\* On fresh caches of ServiceAccounts and members a call without an error leaves the
\* owner with what the call is to make, or with what it has inherited.
LEMMA EnsuredIsEquipped ==
    ASSUME FreshIdentityCaches, StoreOK, InheritNext, NEW s \in EnsuredNow,
           NEW env, env = spec.env, NEW owner, owner = Owner, NEW n \in 1 .. 6, n = at
    PROVE  Equipped(env, s, n, owner)'
<1> DEFINE found == IdentityObjects(api', env, s, n)
<1>k. {"SA", "GSA", "PM"} \subseteq Kinds
  BY DEF Kinds
<1>v. /\ View("SA") = api["SA"] /\ View("PM") = api["PM"]
      /\ "GSA" \notin Lagging => View("GSA") = api["GSA"]
  BY DEF View, StoreOK, FreshIdentityCaches
<1>o. ~ReturnError
  BY DEF EnsuredNow, ReturnError, Forget
<1>a. Account(s).env = env /\ Account(s).sa = s /\ Account(s).owner = owner
  BY DEF Account
<1>w. ASSUME NEW k \in {"SA", "GSA"}, NEW old, Write(k, old \cup {Account(s)})
      PROVE  \E o \in api'[k] : o.env = env /\ o.sa = s /\ o.owner = owner
  <2>1. Account(s) \in api'[k]
    BY <1>k, <1>w, WriteEffect
  <2> HIDE DEF Account
  <2> QED
    BY <1>a, <2>1
<1>m. found # {} /\ (n \notin Inheritable => \E o \in found : o.owner = owner)
  <2>1. CASE ReconcileIAMServiceAccount(s)
    <3>1. n = 1
      BY <2>1 DEF ReconcileIAMServiceAccount
    <3>2. \/ \E old : Write("GSA", old \cup {Account(s)})
          \/ ReadOnly /\ Of(api["GSA"], s) # {}
             /\ ("GSA" \notin Lagging => Account(s) \in Of(api["GSA"], s))
      BY <2>1, <1>o, <1>v DEF ReconcileIAMServiceAccount
    <3>3. /\ \E o \in api'["GSA"] : o.env = env /\ o.sa = s
          /\ "GSA" \notin Lagging =>
                \E o \in api'["GSA"] : o.env = env /\ o.sa = s /\ o.owner = owner
      <4>1. CASE \E old : Write("GSA", old \cup {Account(s)})
        BY <1>w, <4>1
      <4>2. CASE ReadOnly /\ Of(api["GSA"], s) # {}
                 /\ ("GSA" \notin Lagging => Account(s) \in Of(api["GSA"], s))
        <5> HIDE DEF Account
        <5> QED
          BY <1>a, <4>2 DEF ReadOnly, Of
      <4> QED
        BY <3>2, <4>1, <4>2
    <3> QED
      BY <3>1, <3>3 DEF IdentityObjects, Inheritable
  <2>2. CASE ReconcileServiceAccount(s)
    <3>1. n = 2
      BY <2>2 DEF ReconcileServiceAccount
    <3>2. \/ \E old : Write("SA", old \cup {Account(s)})
          \/ ReadOnly /\ Account(s) \in Of(api["SA"], s)
      BY <2>2, <1>o, <1>v DEF ReconcileServiceAccount
    <3>3. \E o \in api'["SA"] : o.env = env /\ o.sa = s /\ o.owner = owner
      <4>1. CASE ReadOnly /\ Account(s) \in Of(api["SA"], s)
        <5> HIDE DEF Account
        <5> QED
          BY <1>a, <4>1 DEF ReadOnly, Of
      <4> QED
        BY <1>w, <3>2, <4>1
    <3> QED
      BY <3>1, <3>3 DEF IdentityObjects
  <2>3. CASE CreateIAMPolicyMember(s)
    <3>1. n \in 3 .. 6
      BY <2>3 DEF CreateIAMPolicyMember
    <3>2. \/ Write("PM", api["PM"] \cup {Member(s, n - 2)})
          \/ ReadOnly /\ OfRole(api["PM"], s, n - 2) # {}
      BY <2>3, <1>v DEF CreateIAMPolicyMember
    <3>3. \E o \in api'["PM"] : o.env = env /\ o.sa = s /\ o.role = n - 2
      <4>1. CASE Write("PM", api["PM"] \cup {Member(s, n - 2)})
        <5>1. Member(s, n - 2) \in api'["PM"]
          BY <1>k, <4>1, WriteEffect
        <5>2. /\ Member(s, n - 2).env = env /\ Member(s, n - 2).sa = s
              /\ Member(s, n - 2).role = n - 2
          BY DEF Member
        <5> QED
          BY <5>1, <5>2
      <4>2. CASE ReadOnly /\ OfRole(api["PM"], s, n - 2) # {}
        BY <4>2 DEF ReadOnly, OfRole, Of
      <4> QED
        BY <3>2, <4>1, <4>2
    <3> QED
      BY <3>1, <3>3 DEF IdentityObjects, Inheritable
  <2> QED
    BY <2>1, <2>2, <2>3 DEF EnsuredNow
<1>1. CASE \E o \in found : o.owner = owner
  BY <1>1 DEF Equipped, IdentityObjects
<1>2. CASE ~\E o \in found : o.owner = owner
  <2>1. s \in LeftNow
    BY <1>m, <1>2 DEF LeftNow
  <2>2. <<env, s, n>> \in inherited'
    BY <2>1 DEF InheritNext
  <2> QED
    BY <1>m, <1>2, <2>2 DEF Equipped, Inheritable
<1> QED
  BY <1>1, <1>2

LEMMA EquippedStays ==
    ASSUME FreshIdentityCaches, SInv, RemovingUnlisted, [InheritNext]_inheritVars,
           NEW c \in CRs, utsa[c].live, NEW env, env = Home[c],
           NEW owner, owner = [cr |-> c, uid |-> utsa[c].uid],
           NEW s, NEW n \in 1 .. 6, Equipped(env, s, n, owner),
           pc = "serviceAccounts" /\ spec.env = env => Owner = owner,
           pc \in {"removeSAs", "removeSAsAgain"} => spec.env # env \/ s \in Listed
    PROVE  Equipped(env, s, n, owner)'
<1>t. StoreOK /\ [Next]_vars
  BY DEF SInv, TInv, InheritNext, inheritVars
<1>1. ASSUME NEW o \in IdentityObjects(api, env, s, n), o.owner = owner
      PROVE  \E o2 \in IdentityObjects(api', env, s, n) : o2.owner = owner
  <2>1. PICK k \in IdentityKinds : k = IF n = 1 THEN "GSA" ELSE IF n = 2 THEN "SA" ELSE "PM"
    BY DEF IdentityKinds
  <2>2. o \in api[k] /\ o.env = env /\ o.sa = s /\ (n > 2 => o.role = n - 2)
    BY <1>1, <2>1 DEF IdentityObjects
  <2>3. PICK o2 \in api'[k] : /\ o2.env = env /\ o2.sa = s /\ o2.owner = owner
                              /\ k = "PM" => o2.role = o.role
    BY <1>t, <1>1, <2>2, OwnStays
  <2>4. n > 2 => k = "PM"
    BY <2>1
  <2>5. o2 \in IdentityObjects(api', env, s, n)
    BY <2>1, <2>2, <2>3, <2>4 DEF IdentityObjects
  <2> QED
    BY <2>3, <2>5
<1>2. ASSUME n \in Inheritable, <<env, s, n>> \in inherited, <<env, s, n>> \notin inherited'
      PROVE  Equipped(env, s, n, owner)'
  <2>1. InheritNext
    BY <1>2 DEF inheritVars
  <2>2. PICK x \in EnsuredNow : <<env, s, n>> = <<spec.env, x, at>>
    BY <1>2, <2>1 DEF InheritNext
  <2>3. pc = "serviceAccounts"
    BY <2>2 DEF EnsuredNow, ReconcileIAMServiceAccount, ReconcileServiceAccount,
       CreateIAMPolicyMember
  <2>4. x = s /\ env = spec.env /\ n = at /\ owner = Owner
    BY <2>2, <2>3
  <2> QED
    BY <1>t, <2>1, <2>2, <2>4, EnsuredIsEquipped
<1>3. CASE \E o \in IdentityObjects(api, env, s, n) : o.owner = owner
  BY <1>1, <1>3 DEF Equipped, IdentityObjects
<1>4. CASE n \in Inheritable /\ <<env, s, n>> \in inherited
  BY <1>2, <1>4 DEF Equipped, Inheritable
<1> QED
  BY <1>3, <1>4 DEF Equipped

LEMMA RemovingUnlistedNext ==
    ASSUME TInv, RemovingUnlisted, [Next]_vars
    PROVE  RemovingUnlisted'
<1> USE DEF TInv, GInv
<1> SUFFICES ASSUME pc' \in {"removeSAs", "removeSAsAgain"}
             PROVE  todo' \cap Listed' = {}
  BY DEF RemovingUnlisted
<1>1. BeginsPhase \/ Waits \/ Works
  BY PhaseSteps DEF NextPhase
<1>2. CASE BeginsPhase
  <2>1. job' = job /\ todo' = RemovedItems
    BY <1>2 DEF BeginsPhase, EnterPhase, PhaseItems
  <2> QED
    BY <2>1 DEF RemovedItems, Listed, spec
<1>3. CASE Waits \/ Works
  <2>1. pc' = pc /\ job' = job /\ todo' \subseteq todo
    BY <1>3, WorksQuietly DEF Waits, workerVars, Works
  <2> QED
    BY <2>1 DEF RemovingUnlisted, Listed, spec
<1> QED
  BY <1>1, <1>2, <1>3

\* What a call leaves of the identities of the accounts the worker works on.
LEMMA IdentityCallNext ==
    ASSUME FreshIdentityCaches, SInv, IdentitiesMade, Works, [InheritNext]_inheritVars,
           pc = "serviceAccounts", NEW env, env = spec.env, Home[job.cr] = env,
           NEW owner, owner = Owner,
           \A s \in Listed : \A n \in 1 .. 6 : Equipped(env, s, n, owner) => Equipped(env, s, n, owner)'
    PROVE  /\ cur' = None => at' = 1
           /\ cur' # None => EquippedUpTo(env, cur, owner, at)'
           /\ \A s \in Listed \ todo' : EquippedUpTo(env, s, owner, 7)'
<1>t. StoreOK /\ CoreTypeOK /\ at \in 1 .. 6 /\ todo \subseteq Listed
  BY DEF SInv, TInv, GInv, FInv, CoreTypeOK, RowsFirst
<1>o. ~ReturnError /\ pc' = pc
  BY DEF Works, ReturnError, Forget
<1>1. PICK x \in todo : \/ ReconcileIAMServiceAccount(x) \/ ReconcileServiceAccount(x)
                        \/ CreateIAMPolicyMember(x)
  BY <1>t, WorkingIdentity
<1>2. x \in Listed /\ x # None /\ (cur = None \/ cur = x)
  <2>1. Taking(x)
    BY <1>1 DEF ReconcileIAMServiceAccount, ReconcileServiceAccount, CreateIAMPolicyMember
  <2>2. Listed \subseteq SaNames
    BY <1>t, JobTypes, SpecTypes DEF Listed
  <2> QED
    BY <1>t, <2>1, <2>2, WorkerAssumption DEF Taking
<1>n. PICK n \in 1 .. 6 : n = at
  BY <1>t
<1>3. \A i \in 1 .. 6 : i < n => Equipped(env, x, i, owner)
  BY <1>2, <1>n DEF IdentitiesMade, EquippedUpTo
<1>c. (n < 6 /\ NextCall(x)) \/ (n = 6 /\ DoneWith(x))
  BY <1>1, <1>n, <1>o DEF ReconcileIAMServiceAccount, ReconcileServiceAccount,
     CreateIAMPolicyMember
<1>4. Equipped(env, x, n, owner)'
  <2>1. x \in EnsuredNow
    BY <1>o, <1>1 DEF EnsuredNow
  <2>2. UNCHANGED inheritVars => UNCHANGED <<at, todo>>
    BY DEF inheritVars, vars, workerVars
  <2>3. at' # at \/ todo' # todo
    BY <1>t, <1>c DEF NextCall, NextCallNoting, DoneWith, DoneNoting
  <2> QED
    BY <1>t, <1>n, <2>1, <2>2, <2>3, EnsuredIsEquipped
<1>5. EquippedUpTo(env, x, owner, n + 1)'
  <2>1. ASSUME NEW i \in 1 .. 6, i < n + 1
        PROVE  Equipped(env, x, i, owner)'
    <3>1. i = n \/ i < n
      BY <2>1
    <3>2. CASE i < n
      <4>1. Equipped(env, x, i, owner)
        BY <1>3, <3>2
      <4> QED
        BY <1>2, <4>1
    <3> QED
      BY <1>4, <3>1, <3>2
  <2> QED
    BY <2>1 DEF EquippedUpTo
<1>7. \A s \in Listed \ todo : EquippedUpTo(env, s, owner, 7)'
  <2>1. ASSUME NEW s \in Listed \ todo, NEW i \in 1 .. 6
        PROVE  Equipped(env, s, i, owner)'
    <3>1. Equipped(env, s, i, owner)
      BY <2>1 DEF IdentitiesMade, EquippedUpTo
    <3> QED
      BY <2>1, <3>1
  <2> QED
    BY <2>1 DEF EquippedUpTo
<1>8. CASE n < 6 /\ NextCall(x)
  <2>1. cur' = x /\ at' = n + 1 /\ todo' = todo
    BY <1>n, <1>8 DEF NextCall, NextCallNoting
  <2>2. EquippedUpTo(env, cur, owner, at)'
    BY <1>5, <2>1
  <2> QED
    BY <1>2, <1>7, <2>1, <2>2
<1>9. CASE n = 6 /\ DoneWith(x)
  <2>1. cur' = None /\ at' = 1 /\ todo' = todo \ {x}
    BY <1>9 DEF DoneWith, DoneNoting
  <2>2. EquippedUpTo(env, x, owner, 7)'
    BY <1>5, <1>9
  <2> QED
    BY <1>7, <2>1, <2>2
<1> QED
  BY <1>c, <1>8, <1>9

LEMMA IdentitiesMadeNext ==
    ASSUME FreshIdentityCaches, SInv, RemovingUnlisted, IdentitiesMade,
           [InheritNext]_inheritVars
    PROVE  IdentitiesMade'
<1>t. TInv /\ FInv /\ StoreOK /\ job.cr \in CRs /\ [Next]_vars
  BY DEF SInv, TInv, GInv, FInv, CoreTypeOK, InheritNext, inheritVars
<1>1. CASE pc' \notin DOMAIN NextPhase \ {"persist"}
  BY <1>1 DEF NextPhase, IdentitiesMade
<1>2. CASE pc' \in DOMAIN NextPhase \ {"persist"}
  <2>1. BeginsPhase \/ Waits \/ Works
    BY <1>t, <1>2, PhaseSteps
  <2>2. pc \in DOMAIN NextPhase /\ job' = job
    BY <1>2, <2>1 DEF BeginsPhase, Waits, Works, workerVars
  <2> SUFFICES ASSUME Home[job.cr] = spec.env
               PROVE  IdentitiesMade'
    BY <2>2 DEF IdentitiesMade, spec
  <2>e. PICK env : env = spec.env
    OBVIOUS
  <2>o. PICK owner : owner = Owner
    OBVIOUS
  <2>s. spec'.env = env /\ Owner' = owner /\ Listed' = Listed /\ Home[job'.cr] = env
    BY <2>2, <2>e, <2>o DEF spec, Owner, Listed
  <2>3. \A s : s \in Listed \/ pc = "serviceAccounts" =>
           \A n \in 1 .. 6 : Equipped(env, s, n, owner) => Equipped(env, s, n, owner)'
    <3>1. utsa[job.cr].live /\ utsa[job.cr].uid = job.obj.uid
      BY <1>t, <2>2 DEF FInv, FinalizerHeld
    <3>2. owner = [cr |-> job.cr, uid |-> utsa[job.cr].uid]
      BY <2>o, <3>1 DEF Owner
    <3> QED
      BY <1>t, <2>e, <2>o, <3>1, <3>2, EquippedStays
  <2>4. \A s \in Listed : EquippedUpTo(env, s, owner, 7) => EquippedUpTo(env, s, owner, 7)'
    BY <2>3 DEF EquippedUpTo
  <2>5. CASE BeginsPhase
    <3>1. todo = {} /\ todo' = PhaseItems(pc') /\ cur' = None /\ at' = 1
          /\ pc' = NextPhase[pc]
      BY <2>5 DEF BeginsPhase, EnterPhase
    <3>2. CASE pc' = "serviceAccounts"
      BY <2>2, <2>s, <3>1, <3>2 DEF IdentitiesMade, PhaseItems, EnsureItems, Listed, spec
    <3>3. CASE pc' # "serviceAccounts"
      <4>1. pc # "persist"
        BY <3>1, <3>3 DEF NextPhase
      <4>2. \A s \in Listed : EquippedUpTo(env, s, owner, 7)
        BY <2>2, <2>e, <2>o, <3>1, <4>1 DEF IdentitiesMade
      <4>3. \A s \in Listed' : EquippedUpTo(env, s, owner, 7)'
        BY <2>4, <2>s, <4>2
      <4> QED
        BY <2>s, <3>3, <4>3 DEF IdentitiesMade
    <3> QED
      BY <3>2, <3>3
  <2>6. CASE Waits
    <3>1. UNCHANGED <<pc, cur, at, todo>>
      BY <2>6 DEF Waits, workerVars
    <3>2. CASE pc = "serviceAccounts"
      <4>1. cur = None => at = 1
        BY <3>2 DEF IdentitiesMade
      <4>2. cur # None => EquippedUpTo(env, cur, owner, at)'
        <5> SUFFICES ASSUME cur # None
                     PROVE  EquippedUpTo(env, cur, owner, at)'
          OBVIOUS
        <5>1. EquippedUpTo(env, cur, owner, at)
          BY <2>e, <2>o, <3>2 DEF IdentitiesMade
        <5>2. PICK x : x = cur
          OBVIOUS
        <5>3. \A i \in 1 .. 6 : i < at => Equipped(env, x, i, owner)'
          BY <2>3, <3>2, <5>1, <5>2 DEF EquippedUpTo
        <5> QED
          BY <3>1, <5>2, <5>3 DEF EquippedUpTo
      <4>3. \A s \in Listed \ todo : EquippedUpTo(env, s, owner, 7)'
        BY <2>4, <2>e, <2>o, <3>2 DEF IdentitiesMade
      <4> QED
        BY <2>s, <3>1, <3>2, <4>1, <4>2, <4>3 DEF IdentitiesMade
    <3>3. CASE pc # "serviceAccounts"
      <4>1. \A s \in Listed : EquippedUpTo(env, s, owner, 7)'
        BY <1>2, <2>2, <2>4, <2>e, <2>o, <3>1, <3>3 DEF IdentitiesMade
      <4> QED
        BY <2>s, <3>1, <3>3, <4>1 DEF IdentitiesMade
    <3> QED
      BY <3>2, <3>3
  <2>7. CASE Works
    <3>1. pc' = pc
      BY <2>7 DEF Works
    <3>2. CASE pc = "serviceAccounts"
      <4>1. /\ cur' = None => at' = 1
            /\ cur' # None => EquippedUpTo(env, cur, owner, at)'
            /\ \A s \in Listed \ todo' : EquippedUpTo(env, s, owner, 7)'
        BY <2>e, <2>o, <2>3, <2>7, <3>2, IdentityCallNext
      <4> QED
        BY <2>s, <3>1, <3>2, <4>1 DEF IdentitiesMade
    <3>3. CASE pc # "serviceAccounts"
      <4>1. \A s \in Listed : EquippedUpTo(env, s, owner, 7)'
        BY <1>2, <2>2, <2>4, <2>e, <2>o, <3>1, <3>3 DEF IdentitiesMade
      <4> QED
        BY <2>s, <3>1, <3>3, <4>1 DEF IdentitiesMade
    <3> QED
      BY <3>2, <3>3
  <2> QED
    BY <2>1, <2>5, <2>6, <2>7
<1> QED
  BY <1>1, <1>2

LEMMA SettledEquippedNext ==
    ASSUME FreshIdentityCaches, OnePerPair, EquipInv, [InheritNext]_inheritVars
    PROVE  SettledEquipped'
<1> USE DEF EquipInv
<1>t. SInv /\ FInv /\ [Next]_vars
  BY DEF SInv, TInv, GInv, InheritNext, inheritVars
<1> SUFFICES ASSUME NEW c \in CRs, Settled(c)', AtHome(c)', NEW s \in DOMAIN utsa'[c].spec.sas,
                    NEW n \in 1 .. 6
             PROVE  Equipped(utsa[c].spec.env, s, n, [cr |-> c, uid |-> utsa[c].uid])'
  BY DEF SettledEquipped
<1>1. utsa'[c] = utsa[c] /\ (Settled(c) \/ Finishing(c)) /\ AtHome(c)
  BY <1>t, SettledBefore DEF AtHome
<1>n. PICK env : env = utsa[c].spec.env
  OBVIOUS
<1>o. PICK owner : owner = [cr |-> c, uid |-> utsa[c].uid]
  OBVIOUS
<1>2. CASE Finishing(c)
  <2>1. pc = "cloudSQLGateway" /\ job.cr = c /\ utsa[c].spec = spec
    BY <1>2 DEF Finishing
  <2>2. utsa[c].live /\ utsa[c].uid = job.obj.uid
    BY <1>t, <2>1 DEF FInv, FinalizerHeld, NextPhase
  <2>3. owner = Owner
    BY <1>o, <2>1, <2>2 DEF Owner
  <2>4. Equipped(env, s, n, owner)
    BY <1>1, <1>n, <2>1, <2>3 DEF IdentitiesMade, NextPhase, Listed, AtHome, EquippedUpTo
  <2>5. Equipped(env, s, n, owner)'
    BY <1>1, <1>n, <1>o, <2>1, <2>2, <2>4, EquippedStays DEF AtHome
  <2> QED
    BY <1>1, <1>n, <1>o, <2>5
<1>3. CASE Settled(c)
  <2>1. Equipped(env, s, n, owner) /\ utsa[c].live /\ env = Home[c]
    BY <1>1, <1>3, <1>n, <1>o DEF SettledEquipped, Settled, AtHome
  <2>2. pc # "idle" => spec.env # env
    BY <1>3, <1>n, SettledElsewhere
  <2>3. Equipped(env, s, n, owner)'
    BY <1>o, <2>1, <2>2, EquippedStays
  <2> QED
    BY <1>1, <1>n, <1>o, <2>3
<1> QED
  BY <1>1, <1>2, <1>3

LEMMA EquipInvInit == InheritInit => EquipInv
<1> SUFFICES ASSUME Init
             PROVE  EquipInv
  BY DEF InheritInit
<1>1. pc = "idle" /\ \A c \in CRs : ~utsa[c].live
  BY DEF Init, WorkerInit, ClusterInit
<1>2. RemovingUnlisted /\ IdentitiesMade /\ SettledEquipped
  BY <1>1 DEF RemovingUnlisted, IdentitiesMade, SettledEquipped, Settled, NextPhase
<1> QED
  BY <1>2, SInvInit DEF EquipInv

LEMMA EquipInvNext ==
    ASSUME FreshIdentityCaches, OnePerPair, EquipInv, [InheritNext]_inheritVars
    PROVE  EquipInv'
<1>1. [Next]_vars
  BY DEF InheritNext, inheritVars
<1> QED
  BY <1>1, SInvNext, RemovingUnlistedNext, IdentitiesMadeNext, SettledEquippedNext
     DEF EquipInv, SInv

-----------------------------------------------------------------------------
(* The theorems.                                                            *)

LEMMA ReachInvSuffices == ReachInv => SettledReach
<1> SUFFICES ASSUME ReachInv, NEW c \in CRs, Settled(c), NEW s \in DOMAIN utsa[c].spec.sas
             PROVE  Reaches(c, s)
  BY DEF SettledReach
<1> DEFINE sp == utsa[c].spec
           e == sp.sas[s]
<1>1. Served(sp)
  BY DEF ReachInv, SettledReached
<1>2. /\ sp \in AllSpecs /\ sp.env \in Envs /\ s \in SaNames
      /\ e.ext \subseteq Hosts /\ e.int \subseteq Hosts /\ e.sql \subseteq Hosts
  <2>1. sp \in AllSpecs
    BY DEF ReachInv, ListOK, SInv, TInv, GInv, FInv, CoreTypeOK, Resource
  <2> QED
    BY <2>1, SpecTypes
<1>3. ASSUME NEW h \in Hosts, NEW parent \in Hosts, NEW type \in {"external", "internal"},
             PolicyShape([env |-> sp.env, sa |-> s, host |-> h, parent |-> parent, type |-> type]),
             type = "external" => h \in e.ext \cup e.sql,
             type = "internal" => parent \in e.int
      PROVE  PolicyExists(c, s, h, parent)
  <2> DEFINE p == [env |-> sp.env, sa |-> s, host |-> h, parent |-> parent, type |-> type]
  <2>1. p \in Objects("AP")
    BY <1>2, ObjectTypes
  <2>2. p \in Due(sp)
    BY <1>3, <2>1 DEF Due
  <2>3. p \in api["AP"]
    BY <1>1, <2>2 DEF Served
  <2> QED
    BY <2>3 DEF PolicyExists
<1>4. ASSUME NEW h \in e.ext \cup e.sql
      PROVE  PolicyExists(c, s, h, h)
  <2>1. h \in Hosts /\ h \in AllExternal \cup AllCloudSQL
    BY <1>2 DEF AllExternal, AllCloudSQL
  <2> QED
    BY <1>3, <2>1 DEF PolicyShape
<1>5. ASSUME NEW h \in e.int \cap DOMAIN Onprem, NEW v \in {h} \cup Onprem[h]
      PROVE  PolicyExists(c, s, v, h)
  <2>1. h \in Hosts /\ v \in Hosts
    BY <1>2, OnpremAssumption
  <2> QED
    BY <1>3, <2>1 DEF PolicyShape
<1>6. /\ \A h \in e.ext : RouteExists(h, "external")
      /\ \A h \in e.sql : RouteExists(h, "cloudsql")
  BY <1>1, RouteComplete DEF Served
<1> QED
  BY <1>4, <1>5, <1>6 DEF Reaches

\* Reconcile leaves each account of a CR the routes and policies of the hosts it lists
\* (reconciler.go:18-159), and no later reconcile, of this CR or of another, and no
\* cleanup takes any of them away (cleanup.go:19-86): when the caches of gateways,
\* routes and policies do not lag, hosts have names of their own and each is of one
\* sort, and no project and domain has two CRs.
THEOREM SettledStaysReaching ==
    ASSUME FreshHostCaches, "AP" \notin Lagging, DistinctNames, HostsApart, OnePerPair
    PROVE  Spec => []SettledReach
<1>1. Init => ReachInv
  BY ReachInvInit
<1>2. ReachInv /\ [Next]_vars => ReachInv'
  BY ReachInvNext
<1>3. ReachInv => SettledReach
  BY ReachInvSuffices
<1> QED
  BY <1>1, <1>2, <1>3, PTL DEF Spec

\* An account of a settled CR has the identities its CR made, or inherited members it
\* left alone (serviceaccount/iam.go:90-135), through edits, takeovers of the project
\* and domain, re-creation and garbage collection, when the caches of ServiceAccounts
\* and members are fresh and no project and domain has two CRs.
THEOREM SettledStaysEquipped ==
    ASSUME FreshIdentityCaches, OnePerPair
    PROVE  InheritSpec => []SettledEquipped
<1>1. InheritInit => EquipInv
  BY EquipInvInit
<1>2. EquipInv /\ [InheritNext]_inheritVars => EquipInv'
  BY EquipInvNext
<1>3. EquipInv => SettledEquipped
  BY DEF EquipInv
<1> QED
  BY <1>1, <1>2, <1>3, PTL DEF InheritSpec

\* Both together: a settled CR has all it lists (controller.go:144-171), its identities
\* included, as long as nothing was inherited; when the caches of gateways, routes,
\* policies, ServiceAccounts and members do not lag, hosts have names of their own and
\* each is of one sort, and no project and domain has two CRs.
THEOREM SettledStaysServed ==
    ASSUME FreshHostCaches, "AP" \notin Lagging, DistinctNames, HostsApart,
           FreshIdentityCaches, OnePerPair
    PROVE  InheritSpec => [](inherited = {} => SettledServed)
<1> DEFINE Inv == ReachInv /\ EquipInv
<1>1. InheritInit => Inv
  BY ReachInvInit, EquipInvInit DEF InheritInit
<1>2. Inv /\ [InheritNext]_inheritVars => Inv'
  <2>1. [InheritNext]_inheritVars => [Next]_vars
    BY DEF InheritNext, inheritVars
  <2> QED
    BY <2>1, ReachInvNext, EquipInvNext
<1>3. Inv => (inherited = {} => SettledServed)
  <2> SUFFICES ASSUME Inv, inherited = {}, NEW c \in CRs, Settled(c),
                      NEW s \in DOMAIN utsa[c].spec.sas
               PROVE  Reaches(c, s) /\ (AtHome(c) => IdentityExists(c, s))
    BY DEF SettledServed
  <2>1. Reaches(c, s)
    BY ReachInvSuffices DEF SettledReach
  <2>2. ASSUME AtHome(c)
        PROVE  IdentityExists(c, s)
    <3> DEFINE env == utsa[c].spec.env
    <3>1. \A n \in 1 .. 6 : IdentityObjects(api, env, s, n) # {}
      BY <2>2 DEF EquipInv, SettledEquipped, Equipped
    <3>2. /\ \E o \in api["GSA"] : o.env = env /\ o.sa = s
          /\ \E o \in api["SA"] : o.env = env /\ o.sa = s
      BY <3>1 DEF IdentityObjects
    <3>3. ASSUME NEW r \in 1 .. 4
          PROVE  \E o \in api["PM"] : o.env = env /\ o.sa = s /\ o.role = r
      <4>1. r + 2 \in 1 .. 6 /\ r + 2 > 2 /\ (r + 2) - 2 = r
        OBVIOUS
      <4> QED
        BY <3>1, <4>1 DEF IdentityObjects
    <3> QED
      BY <3>2, <3>3 DEF IdentityExists
  <2> QED
    BY <2>1, <2>2
<1> HIDE DEF Inv
<1> QED
  BY <1>1, <1>2, <1>3, PTL DEF InheritSpec
=============================================================================
