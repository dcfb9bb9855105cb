----------------------------- MODULE TypeProofs -----------------------------
(***************************************************************************)
(* Type correctness, for every set of CRs, specs, lagging caches and       *)
(* bounds.                                                                 *)
(***************************************************************************)
EXTENDS GrantProofs

\* The part of TypeOK that is about the objects and their caches, and the part
\* that neither FInv nor GInv speaks of.
StoreOK ==
    /\ DOMAIN api = Kinds /\ DOMAIN seen = Kinds
    /\ \A k \in Kinds : api[k] \subseteq Objects(k) /\ seen[k] \subseteq Objects(k)
    /\ stale \subseteq Lagging

RestOK ==
    /\ queue \subseteq CRs
    /\ disturbances \in 0 .. MaxDisturbances
    /\ kept \in BOOLEAN /\ failed \in BOOLEAN
    /\ listed \subseteq AllSpecs
    /\ gw = None \/ gw \in Objects("GW")
    /\ HistoryTypeOK

TInv == GInv /\ StoreOK /\ RestOK

\* The invariant is as strong as the type invariant.
LEMMA TInvSuffices == TInv => TypeOK
BY DEF TInv, GInv, FInv, CoreTypeOK, StoreOK, RestOK, TypeOK, ClusterTypeOK, WorkerTypeOK

\* The types of the kinds, one by one.
LEMMA ObjectTypes ==
    /\ Objects("GW") = [name : {"external", "cloudsql"}, hosts : SUBSET (Hosts \cup {"*"})]
    /\ Objects("VS") = [host : Hosts] /\ Objects("SE") = [host : Hosts]
    /\ Objects("DR") = [host : Hosts, to : BOOLEAN]
    /\ Objects("AP") = [env : Envs, sa : SaNames, host : Hosts, parent : Hosts,
                        type : {"external", "internal"}]
    /\ Objects("SA") = [env : Envs, sa : SaNames, owner : Owners]
    /\ Objects("GSA") = [env : Envs, sa : SaNames, owner : Owners]
    /\ Objects("PM") = [env : Envs, sa : SaNames, role : 1 .. 4, owner : Owners]
BY DEF Objects

\* A spec is as IsSpec says, the one Reconcile works on included.
LEMMA SpecTypes ==
    ASSUME NEW s \in AllSpecs
    PROVE  /\ s.env \in Envs /\ DOMAIN s.sas \subseteq SaNames
           /\ \A n \in DOMAIN s.sas : /\ s.sas[n] \in Entry
                                      /\ s.sas[n].ext \subseteq Hosts
                                      /\ s.sas[n].int \subseteq Hosts
                                      /\ s.sas[n].sql \subseteq Hosts
<1>1. IsSpec(s)
  BY ClusterAssumption DEF AllSpecs
<1> QED
  BY <1>1 DEF IsSpec, Entry

\* So is the CR that becomes the owner of what Reconcile creates.
LEMMA JobTypes ==
    ASSUME CoreTypeOK
    PROVE  spec \in AllSpecs /\ Owner \in Owners
BY DEF CoreTypeOK, Resource, spec, Owner, Owners

-----------------------------------------------------------------------------
(* Writes of objects of the right type.                                     *)

\* Objects of the right type are stored, and the caches show what was stored.
LEMMA CommitTypes ==
    ASSUME StoreOK, NEW new, Commit(new), DOMAIN new = Kinds,
           \A k \in Kinds : new[k] \subseteq Objects(k)
    PROVE  StoreOK'
<1>1. \A k \in Kinds : View(k) \subseteq Objects(k)
  BY DEF StoreOK, View
<1>2. api' = new /\ stale' \subseteq Lagging
  BY DEF Commit, StoreOK
<1>3. DOMAIN seen' = Kinds /\ \A k \in Kinds : seen'[k] = View(k) \/ seen'[k] = {}
  BY DEF Commit
<1>4. \A k \in Kinds : api'[k] \subseteq Objects(k) /\ seen'[k] \subseteq Objects(k)
  BY <1>1, <1>2, <1>3
<1>5. \A k \in Kinds : Objects(k)' = Objects(k)
  BY DEF Objects
<1>6. \A k \in Kinds : api'[k] \subseteq Objects(k)' /\ seen'[k] \subseteq Objects(k)'
  BY <1>4, <1>5
<1> QED
  BY <1>2, <1>3, <1>6 DEF StoreOK

\* The same for a write of one kind.
LEMMA WriteTypes ==
    ASSUME StoreOK, NEW k \in Kinds, NEW objects, Write(k, objects),
           \A o \in objects : o \in api[k] \/ o \in Objects(k)
    PROVE  StoreOK'
<1> DEFINE new == [api EXCEPT ![k] = objects]
<1>1. Commit(new) /\ DOMAIN new = Kinds
  BY DEF Write, StoreOK
<1>2. \A j \in Kinds : new[j] \subseteq Objects(j)
  BY DEF StoreOK
<1> HIDE DEF new
<1> QED
  BY <1>1, <1>2, CommitTypes

\* A step that writes nothing keeps the store as it is.
LEMMA ReadOnlyTypes ==
    ASSUME StoreOK, UNCHANGED <<api, seen, stale>>
    PROVE  StoreOK'
BY DEF StoreOK, Objects

-----------------------------------------------------------------------------
(* The calls inside the loops.                                              *)

\* The service account phases write objects of the right type.
LEMMA IdentityTypes ==
    ASSUME TInv, NEW x \in todo, IdentityStep(x)
    PROVE  StoreOK'
<1> USE DEF TInv
<1>1. \A k \in {"SA", "GSA", "PM"} : k \in Kinds
  BY DEF Kinds
<1>2. ASSUME ReadOnly PROVE StoreOK'
  BY <1>2, ReadOnlyTypes DEF ReadOnly
<1>3. ASSUME NEW k \in {"SA", "GSA", "PM"}, NEW objects, objects \subseteq api[k],
             Write(k, objects)
      PROVE  StoreOK'
  BY <1>1, <1>3, WriteTypes
<1>4. ASSUME NEW k \in {"SA", "GSA", "PM"}, NEW old, old \subseteq api[k],
             NEW o \in Objects(k), Write(k, old \cup {o})
      PROVE  StoreOK'
  BY <1>1, <1>4, WriteTypes
<1>5. ASSUME pc = "serviceAccounts"
      PROVE  /\ Account(x) \in Objects("SA") /\ Account(x) \in Objects("GSA")
             /\ \A r \in 1 .. 4 : Member(x, r) \in Objects("PM")
  <2>1. x \in SaNames /\ spec.env \in Envs /\ Owner \in Owners
    BY <1>5, JobTypes, SpecTypes DEF GInv, FInv, RowsFirst, Listed
  <2> QED
    BY <2>1, ObjectTypes DEF Account, Member
<1>6. CASE ReconcileIAMServiceAccount(x)
  BY <1>2, <1>4, <1>5, <1>6 DEF ReconcileIAMServiceAccount
<1>7. CASE ReconcileServiceAccount(x)
  BY <1>2, <1>4, <1>5, <1>7 DEF ReconcileServiceAccount
<1>8. CASE CreateIAMPolicyMember(x)
  <2>1. at - 2 \in 1 .. 4 /\ pc = "serviceAccounts"
    BY <1>8 DEF CreateIAMPolicyMember
  <2>2. ReadOnly \/ Write("PM", api["PM"] \cup {Member(x, at - 2)})
    BY <1>8 DEF CreateIAMPolicyMember
  <2> QED
    BY <1>2, <1>4, <1>5, <2>1, <2>2
<1>9. CASE CleanupIAMPolicyMember(x)
  BY <1>2, <1>3, <1>9 DEF CleanupIAMPolicyMember
<1>10. CASE CleanupIAMServiceAccount(x)
  BY <1>2, <1>3, <1>10 DEF CleanupIAMServiceAccount
<1>11. CASE DeleteServiceAccount(x)
  BY <1>2, <1>3, <1>11 DEF DeleteServiceAccount
<1> QED
  BY <1>6, <1>7, <1>8, <1>9, <1>10, <1>11 DEF IdentityStep

\* So do the host phases.
LEMMA HostTypes ==
    ASSUME TInv, NEW x \in todo, HostStep(x)
    PROVE  StoreOK'
<1> USE DEF TInv
<1>1. {"GW", "VS", "DR", "SE"} \subseteq Kinds
  BY DEF Kinds
<1>2. ASSUME ReadOnly PROVE StoreOK'
  BY <1>2, ReadOnlyTypes DEF ReadOnly
<1>3. ASSUME NEW k \in {"GW", "VS", "DR", "SE"}, NEW old, old \subseteq api[k],
             NEW o \in Objects(k), Write(k, old \cup {o})
      PROVE  StoreOK'
  BY <1>1, <1>3, WriteTypes
<1>4. ASSUME pc \in {"externalHosts", "cloudSQLHosts"}
      PROVE  x[2] \in Hosts
  <2>1. x \in ExternalItems \cup CloudSQLItems
    BY <1>4 DEF GInv, RowsFirst
  <2>2. PICK s \in Listed : x[2] \in spec.sas[s].ext \cup spec.sas[s].sql
    BY <2>1 DEF ExternalItems, CloudSQLItems
  <2> QED
    BY <2>2, JobTypes, SpecTypes DEF GInv, FInv, Listed
<1>5. CASE EnsureGatewayExists(x)
  <2>1. pc \in {"externalHosts", "cloudSQLHosts"}
    BY <1>5 DEF EnsureGatewayExists, EnsuringHost
  <2>2. [name |-> GatewayName, hosts |-> {x[2]}] \in Objects("GW")
    BY <1>4, <2>1, ObjectTypes DEF GatewayName
  <2> QED
    BY <1>2, <1>3, <1>5, <2>2 DEF EnsureGatewayExists
<1>6. CASE EnsureGatewayContainsHost(x)
  <2>1. pc \in {"externalHosts", "cloudSQLHosts"}
    BY <1>6 DEF EnsureGatewayContainsHost, EnsuringHost
  <2>2. ReadOnly \/ \E g \in Gateways(View("GW"), GatewayName) : UpdateGateway(g, g.hosts \cup {x[2]})
    BY <1>6 DEF EnsureGatewayContainsHost, UpdateConflicts
  <2>3. ASSUME NEW g \in api["GW"]
        PROVE  [g EXCEPT !.hosts = g.hosts \cup {x[2]}] \in Objects("GW")
    <3>1. g \in [name : {"external", "cloudsql"}, hosts : SUBSET (Hosts \cup {"*"})]
      BY <1>1, ObjectTypes DEF StoreOK
    <3> DEFINE hs == g.hosts \cup {x[2]}
    <3>2. hs \in SUBSET (Hosts \cup {"*"})
      BY <1>4, <2>1, <3>1
    <3> HIDE DEF hs
    <3>3. [g EXCEPT !.hosts = hs]
            \in [name : {"external", "cloudsql"}, hosts : SUBSET (Hosts \cup {"*"})]
      BY <3>1, <3>2
    <3> QED
      BY <3>3, ObjectTypes DEF hs
  <2> QED
    BY <1>2, <1>3, <2>2, <2>3 DEF UpdateGateway
<1>7. CASE EnsureVirtualService(x)
  <2>1. pc \in {"externalHosts", "cloudSQLHosts"}
    BY <1>7 DEF EnsureVirtualService, EnsuringHost
  <2>2. ReadOnly \/ Write("VS", api["VS"] \cup {[host |-> x[2]]})
    BY <1>7 DEF EnsureVirtualService, CreateUnless
  <2>3. [host |-> x[2]] \in Objects("VS")
    BY <1>4, <2>1, ObjectTypes
  <2> QED
    BY <1>2, <1>3, <2>2, <2>3
<1>8. CASE EnsureDestinationRule(x)
  <2>1. pc \in {"externalHosts", "cloudSQLHosts"}
    BY <1>8 DEF EnsureDestinationRule, EnsuringHost
  <2>2. PICK to \in BOOLEAN : ReadOnly \/ Write("DR", api["DR"] \cup {[host |-> x[2], to |-> to]})
    BY <1>8 DEF EnsureDestinationRule, CreateUnless
  <2>3. [host |-> x[2], to |-> to] \in Objects("DR")
    BY <1>4, <2>1, ObjectTypes
  <2> QED
    BY <1>2, <1>3, <2>2, <2>3
<1>9. CASE EnsureServiceEntry(x)
  <2>1. pc \in {"externalHosts", "cloudSQLHosts"}
    BY <1>9 DEF EnsureServiceEntry, EnsuringHost
  <2>2. ReadOnly \/ Write("SE", api["SE"] \cup {[host |-> x[2]]})
    BY <1>9 DEF EnsureServiceEntry, CreateUnless
  <2>3. [host |-> x[2]] \in Objects("SE")
    BY <1>4, <2>1, ObjectTypes
  <2> QED
    BY <1>2, <1>3, <2>2, <2>3
<1>10. CASE RemoveExternalHost(x)
  <2>1. PICK failing \in SUBSET HostObjects(x) :
          Commit([k \in Kinds |-> api[k] \ UNION {Namesakes(k, y[2]) :
                     y \in {z \in HostObjects(x) \ failing : z[1] = k}}])
    BY <1>10 DEF RemoveExternalHost
  <2> DEFINE new == [k \in Kinds |-> api[k] \ UNION {Namesakes(k, y[2]) :
                        y \in {z \in HostObjects(x) \ failing : z[1] = k}}]
  <2>2. Commit(new) /\ DOMAIN new = Kinds /\ \A k \in Kinds : new[k] \subseteq api[k]
    BY <2>1
  <2> HIDE DEF new
  <2>3. \A k \in Kinds : new[k] \subseteq Objects(k)
    BY <2>2 DEF StoreOK
  <2> QED
    BY <2>2, <2>3, CommitTypes
<1> QED
  BY <1>5, <1>6, <1>7, <1>8, <1>9, <1>10 DEF HostStep

\* So do the policy phases.
LEMMA PolicyTypes ==
    ASSUME TInv, NEW x \in todo, PolicyStep(x)
    PROVE  StoreOK'
<1> USE DEF TInv
<1>1. "AP" \in Kinds
  BY DEF Kinds
<1>2. ASSUME ReadOnly PROVE StoreOK'
  BY <1>2, ReadOnlyTypes DEF ReadOnly
<1>3. ASSUME NEW gone, Write("AP", api["AP"] \ gone)
      PROVE  StoreOK'
  BY <1>1, <1>3, WriteTypes
<1>4. ASSUME pc = "authzPolicies", Write("AP", api["AP"] \cup {x[2]})
      PROVE  StoreOK'
  <2>1. x \in PolicyItems
    BY <1>4 DEF GInv, RowsFirst
  <2>2. PICK s \in Listed :
          \/ \E h \in spec.sas[s].ext \cup spec.sas[s].sql : x[2] = Policy(s, h, h, "external")
          \/ \E h \in spec.sas[s].int \cap DOMAIN Onprem :
                \E v \in {h} \cup Onprem[h] : x[2] = Policy(s, v, h, "internal")
    BY <2>1 DEF PolicyItems
  <2>3. /\ s \in SaNames /\ spec.env \in Envs
        /\ spec.sas[s].ext \cup spec.sas[s].sql \cup spec.sas[s].int \subseteq Hosts
    BY JobTypes, SpecTypes DEF GInv, FInv, Listed
  <2>4. ASSUME NEW h \in spec.sas[s].ext \cup spec.sas[s].sql,
               x[2] = Policy(s, h, h, "external")
        PROVE  x[2] \in Objects("AP")
    BY <2>3, <2>4, ObjectTypes DEF Policy
  <2>5. ASSUME NEW h \in spec.sas[s].int \cap DOMAIN Onprem, NEW v \in {h} \cup Onprem[h],
               x[2] = Policy(s, v, h, "internal")
        PROVE  x[2] \in Objects("AP")
    <3>1. h \in Hosts /\ v \in Hosts
      BY <2>3, OnpremAssumption
    <3> QED
      BY <2>3, <2>5, <3>1, ObjectTypes DEF Policy
  <2>6. x[2] \in Objects("AP")
    BY <2>2, <2>4, <2>5
  <2> QED
    BY <1>1, <1>4, <2>6, WriteTypes
<1>5. CASE EnsureAuthorizationPolicy(x)
  BY <1>2, <1>4, <1>5 DEF EnsureAuthorizationPolicy
<1>6. CASE DeletePolicy(x)
  BY <1>2, <1>3, <1>6 DEF DeletePolicy
<1>7. CASE DeleteUnlistedPolicy(x)
  BY <1>2, <1>3, <1>7 DEF DeleteUnlistedPolicy
<1> QED
  BY <1>5, <1>6, <1>7 DEF PolicyStep

\* The cleanup of a gateway writes the hosts of listed specs.
LEMMA GatewayTypes ==
    ASSUME TInv, CleanupGateway
    PROVE  StoreOK'
<1> USE DEF TInv
<1>1. "GW" \in Kinds
  BY DEF Kinds
<1>2. ASSUME ReadOnly PROVE StoreOK'
  BY <1>2, ReadOnlyTypes DEF ReadOnly
<1>3. \A name : InUse(name) \subseteq Hosts \cup {"*"}
  <2>1. ASSUME NEW y \in listed
        PROVE  \A s \in DOMAIN y.sas : y.sas[s].ext \cup y.sas[s].sql \subseteq Hosts
    BY SpecTypes DEF RestOK
  <2> QED
    BY <2>1 DEF InUse, ExternalInUse, CloudSQLInUse
<1>4. ASSUME UpdateGateway(gw, InUse(gw.name))
      PROVE  StoreOK'
  <2> DEFINE hs == InUse(gw.name)
  <2>1. gw \in [name : {"external", "cloudsql"}, hosts : SUBSET (Hosts \cup {"*"})]
    BY <1>1, <1>4, ObjectTypes DEF UpdateGateway, StoreOK
  <2>2. hs \in SUBSET (Hosts \cup {"*"})
    BY <1>3
  <2>3. Write("GW", (api["GW"] \ {gw}) \cup {[gw EXCEPT !.hosts = hs]})
    BY <1>4 DEF UpdateGateway
  <2> HIDE DEF hs
  <2>4. [gw EXCEPT !.hosts = hs] \in Objects("GW")
    BY <2>1, <2>2, ObjectTypes
  <2> QED
    BY <1>1, <2>3, <2>4, WriteTypes
<1>5. ASSUME NEW gone, Write("GW", api["GW"] \ gone)
      PROVE  StoreOK'
  BY <1>1, <1>5, WriteTypes
<1> QED
  BY <1>2, <1>4, <1>5 DEF CleanupGateway, UpdateConflicts

-----------------------------------------------------------------------------
(* The rest of the variables, and the steps.                                *)

\* A step that leaves the rest alone keeps it well typed.
LEMMA RestKept ==
    ASSUME RestOK, UNCHANGED <<queue, disturbances, kept, failed, listed, gw, history>>
    PROVE  RestOK'
BY DEF RestOK, HistoryTypeOK, Objects

\* Forgetting the job keeps the rest well typed.
LEMMA RestForgotten ==
    ASSUME RestOK, Forget, queue' \subseteq CRs, UNCHANGED history,
           Disturb \/ UNCHANGED disturbances
    PROVE  RestOK'
<1>1. disturbances' \in 0 .. MaxDisturbances
  BY ClusterAssumption DEF RestOK, Disturb
<1> QED
  BY <1>1 DEF RestOK, Forget, HistoryTypeOK

\* So does returning.
LEMMA RestReturned ==
    ASSUME RestOK, CoreTypeOK, ReturnError \/ ReturnNil, UNCHANGED history,
           Disturb \/ UNCHANGED disturbances
    PROVE  RestOK'
<1>1. queue' \subseteq CRs
  BY DEF ReturnError, ReturnNil, RestOK, CoreTypeOK
<1> QED
  BY <1>1, RestForgotten DEF ReturnError, ReturnNil

\* So does a call inside a loop.
LEMMA RestLoop ==
    ASSUME RestOK, CoreTypeOK, NEW x, LoopEnds(x), LoopKeeps
    PROVE  RestOK'
<1>1. disturbances' \in 0 .. MaxDisturbances
  BY ClusterAssumption DEF RestOK, LoopKeeps, Disturb
<1>2. CASE Continues(x) \/ Finishes(x)
  <2>1. UNCHANGED <<queue, listed, gw, history>>
    BY <1>2 DEF Continues, Finishes, NextCallNoting, DoneNoting, LoopKeeps
  <2>2. kept' \in BOOLEAN /\ failed' \in BOOLEAN
    BY <1>2 DEF RestOK, Continues, Finishes, NextCallNoting, DoneNoting
  <2> QED
    BY <1>1, <2>1, <2>2 DEF RestOK, HistoryTypeOK, Objects
<1>3. CASE ReturnError
  BY <1>3, RestReturned DEF LoopKeeps
<1> QED
  BY <1>2, <1>3 DEF LoopEnds

\* Initially everything has its type.
LEMMA TInvInit == Init => TInv
<1> SUFFICES ASSUME Init PROVE TInv  OBVIOUS
<1>1. /\ api = [k \in Kinds |-> IF k = "GW" THEN InitialGateways ELSE {}]
      /\ seen = [k \in Kinds |-> {}] /\ stale = {}
  BY DEF Init, ClusterInit
<1>2. InitialGateways \subseteq Objects("GW")
  BY ObjectTypes DEF InitialGateways
<1>3. StoreOK
  BY <1>1, <1>2 DEF StoreOK
<1>4. /\ queue = {} /\ disturbances = 0 /\ kept = FALSE /\ failed = FALSE
      /\ listed = {} /\ gw = None /\ history = {}
  BY DEF Init, ClusterInit, WorkerInit, HistoryInit
<1>5. disturbances \in 0 .. MaxDisturbances
  BY <1>4, ClusterAssumption
<1>6. RestOK
  BY <1>4, <1>5 DEF RestOK, HistoryTypeOK
<1> QED
  BY <1>3, <1>6, GInvInit DEF TInv

\* The next phase reads the specs and the gateway from the caches.
LEMMA TInvAdvance ==
    ASSUME TInv, Advance
    PROVE  RestOK'
<1> USE DEF TInv, GInv, FInv
<1>1. UNCHANGED <<disturbances, history>>
  BY DEF Advance
<1>2. CASE ReturnError \/ ReturnNil
  BY <1>1, <1>2, RestReturned
<1>3. CASE ~(ReturnError \/ ReturnNil)
  <2> DEFINE p == NextPhase[pc]
  <2>1. /\ EnterPhase(p, PhaseItems(p)) /\ queue' = queue
        /\ listed' \in {ListedSpecs, listed}
        /\ gw' \in CachedGateways(p) \/ gw' = None
    BY <1>3 DEF Advance
  <2>2. kept' = FALSE /\ failed' = FALSE
    BY <2>1 DEF EnterPhase
  <2>3. ListedSpecs \subseteq AllSpecs
    BY DEF ListedSpecs, CoreTypeOK, Resource
  <2>4. CachedGateways(p) \subseteq Objects("GW")
    BY DEF CachedGateways, Gateways, View, StoreOK, Kinds
  <2> QED
    BY <1>1, <2>1, <2>2, <2>3, <2>4 DEF RestOK, HistoryTypeOK, Objects
<1> QED
  BY <1>2, <1>3

\* Every step of Reconcile keeps the types.
LEMMA TInvStep ==
    ASSUME TInv, Step
    PROVE  StoreOK' /\ RestOK'
<1> USE DEF TInv, GInv, FInv
<1>r. ASSUME ReadOnly PROVE StoreOK'
  BY <1>r, ReadOnlyTypes DEF ReadOnly
<1>1. CASE Advance
  BY <1>r, <1>1, TInvAdvance DEF Advance
<1>2. CASE AddFinalizer
  <2>1. UNCHANGED <<disturbances, history>>
    BY <1>2 DEF AddFinalizer
  <2>2. CASE ReturnError
    BY <1>2, <1>r, <2>1, <2>2, RestReturned DEF AddFinalizer
  <2>3. CASE ~ReturnError
    <3>1. UNCHANGED <<queue, listed, gw>> /\ kept' = FALSE /\ failed' = FALSE
      BY <1>2, <2>3 DEF AddFinalizer, EnterPhase
    <3>2. RestOK'
      BY <2>1, <3>1 DEF RestOK, HistoryTypeOK, Objects
    <3> QED
      BY <1>2, <1>r, <3>2 DEF AddFinalizer
  <2> QED
    BY <2>2, <2>3
<1>3. CASE RemoveFinalizer
  BY <1>r, <1>3, RestReturned DEF RemoveFinalizer
<1>4. CASE CleanupGateway
  <2>1. UNCHANGED <<disturbances, history>>
    BY <1>4 DEF CleanupGateway
  <2>2. ReturnError \/ (gw' = None /\ UNCHANGED <<kept, failed, listed, queue>>)
    BY <1>4 DEF CleanupGateway
  <2>3. RestOK'
    BY <2>1, <2>2, RestReturned DEF RestOK, HistoryTypeOK, Objects
  <2> QED
    BY <1>4, <2>3, GatewayTypes
<1>5. ASSUME NEW s \in todo, PersistAllowlist(s)
      PROVE  StoreOK' /\ RestOK'
  <2>1. Row(s) \in [env : Envs, sa : SaNames, entry : Entry]
    <3>1. s \in Listed
      BY <1>5 DEF PersistAllowlist, RowsFirst
    <3> QED
      BY <3>1, JobTypes, SpecTypes DEF Row, Listed
  <2>2. /\ ReadOnly /\ history' = history \cup {Row(s)}
        /\ UNCHANGED <<queue, disturbances, listed, gw>> /\ kept' = FALSE
        /\ failed' = (failed \/ FALSE)
    BY <1>5 DEF PersistAllowlist, DoneWith, DoneNoting
  <2> QED
    BY <1>r, <2>1, <2>2 DEF RestOK, HistoryTypeOK, Objects
<1>6. ASSUME NEW x \in todo, IdentityStep(x) \/ HostStep(x) \/ PolicyStep(x)
      PROVE  StoreOK' /\ RestOK'
  <2>1. LoopEnds(x) /\ LoopKeeps
    BY <1>6, IdentityFrame, HostFrame, PolicyFrame DEF CoreTypeOK
  <2> QED
    BY <1>6, <2>1, RestLoop, IdentityTypes, HostTypes, PolicyTypes
<1> QED
  BY <1>1, <1>2, <1>3, <1>4, <1>5, <1>6 DEF Step

\* Every step does.
LEMMA TInvNext == TInv /\ [Next]_vars => TInv'
<1> SUFFICES ASSUME TInv, [Next]_vars PROVE StoreOK' /\ RestOK'
  BY GInvNext DEF TInv
<1> USE DEF TInv, GInv, FInv
<1>r. ASSUME ReadOnly PROVE StoreOK'
  BY <1>r, ReadOnlyTypes DEF ReadOnly
<1>1. ASSUME NEW c \in CRs, Start(c)
      PROVE  StoreOK' /\ RestOK'
  <2>1. ReadOnly /\ UNCHANGED <<disturbances, history>> /\ queue' = queue \ {c}
    BY <1>1 DEF Start
  <2>2. UNCHANGED <<listed, gw>> /\ (UNCHANGED <<kept, failed>> \/ (kept' = FALSE /\ failed' = FALSE))
    BY <1>1 DEF Start, EnterPhase, workerVars
  <2> QED
    BY <1>r, <2>1, <2>2 DEF RestOK, HistoryTypeOK, Objects
<1>2. CASE Step
  BY <1>2, TInvStep
<1>3. CASE Users \/ Caches \/ Background
  <2>1. UNCHANGED <<kept, failed, listed, gw, history>>
    BY <1>3 DEF Users, Caches, Background, workerVars
  <2>2. queue' \subseteq CRs
    BY <1>3 DEF Users, UserCreate, UserEdit, UserDelete, Caches, Observe, CatchUp,
                Background, Resync, GarbageCollect, RestOK
  <2>3. Disturb \/ UNCHANGED disturbances
    BY <1>3 DEF Users, UserCreate, UserEdit, UserDelete, Caches, Observe, CatchUp,
                Background, Resync, GarbageCollect
  <2>4. disturbances' \in 0 .. MaxDisturbances
    BY <2>3, ClusterAssumption DEF RestOK, Disturb
  <2>5. RestOK'
    BY <2>1, <2>2, <2>4 DEF RestOK, HistoryTypeOK, Objects
  <2>6. StoreOK'
    <3>1. CASE ReadOnly
      BY <1>r, <3>1
    <3>2. ASSUME NEW k \in Kinds, CatchUp(k)
          PROVE  StoreOK'
      BY <3>2 DEF CatchUp, StoreOK, Objects
    <3>3. ASSUME NEW k \in Kinds, GarbageCollect(k)
          PROVE  StoreOK'
      BY <3>3, WriteTypes DEF GarbageCollect
    <3>4. \/ ReadOnly
          \/ \E k \in Kinds : CatchUp(k) \/ GarbageCollect(k)
      BY <1>3 DEF Users, UserCreate, UserEdit, UserDelete, Caches, Observe, Background,
                  Resync, ReadOnly
    <3> QED
      BY <3>1, <3>2, <3>3, <3>4
  <2> QED
    BY <2>5, <2>6
<1>4. CASE CallFails /\ UNCHANGED history
  BY <1>r, <1>4, RestReturned DEF CallFails
<1>5. CASE Restart /\ UNCHANGED history
  <2>1. StoreOK'
    BY <1>5 DEF Restart, StoreOK, Objects
  <2> QED
    BY <1>5, <2>1, RestForgotten DEF Restart
<1>6. CASE UNCHANGED vars
  BY <1>6, <1>r, RestKept DEF vars, clusterVars, workerVars, ReadOnly
<1> QED
  BY <1>1, <1>2, <1>3, <1>4, <1>5, <1>6 DEF Next, Trouble

\* The variables have their types in every reachable state: in particular a loop
\* never makes a call too many for its element, and the finalizer is removed from,
\* and the objects are owned by, a CR that a user created.
THEOREM TypeCorrect == Spec => []TypeOK
BY TInvInit, TInvNext, TInvSuffices, PTL DEF Spec
=============================================================================
