---------------------------- MODULE EgressHosts ----------------------------
(***************************************************************************)
(* internal/istio, hosts: the gateway server host, VirtualService (VS), two *)
(* DestinationRules (DR) and ServiceEntry (SE) that let an external or a    *)
(* CloudSQL host through the egress gateway, and their removal once no CR   *)
(* lists the host.  They belong to the host, not to a CR.                   *)
(***************************************************************************)
EXTENDS ServiceAccounts

CONSTANT NameOf   \* NameOf[h]: the name of the objects of host h

\* The name an object is stored under.
ObjectName(k, o) ==
    CASE k \in {"VS", "SE"} -> NameOf[o.host]
      [] k = "DR" -> <<NameOf[o.host], o.to>>
      [] k = "AP" -> <<o.env, o.sa, NameOf[o.host]>>
Namesakes(k, o) == {x \in api[k] : ObjectName(k, x) = ObjectName(k, o)}

Gateways(objects, name) == {g \in objects : g.name = name}
GatewayName == IF pc \in {"externalHosts", "externalGateway"} THEN "external" ELSE "cloudsql"

-----------------------------------------------------------------------------
(* EnsureExternalHosts and EnsureCloudSQLHosts.  Both make the calls 2 to 6 *)
(* for each entry; only the external hosts' gateway is created on demand.   *)

ExternalItems == UNION {{<<s, h>> : h \in spec.sas[s].ext} : s \in Listed}
CloudSQLItems == UNION {{<<s, h>> : h \in spec.sas[s].sql} : s \in Listed}

EnsuringHost(i, n) ==
    /\ Taking(i)
    /\ \/ pc = "externalHosts" /\ at = n
       \/ pc = "cloudSQLHosts" /\ at = n - 1

EnsureGatewayExists(i) ==
    /\ EnsuringHost(i, 1)
    /\ \/ Gateways(View("GW"), GatewayName) # {} /\ ReadOnly /\ NextCall(i)
       \/ /\ Gateways(View("GW"), GatewayName) = {} /\ Gateways(api["GW"], GatewayName) = {}
          /\ Write("GW", api["GW"] \cup {[name |-> GatewayName, hosts |-> {i[2]}]})
          /\ NextCall(i)
       \/ /\ Gateways(View("GW"), GatewayName) = {} /\ Gateways(api["GW"], GatewayName) # {}
          /\ ReadOnly /\ ReturnError
    /\ UNCHANGED <<utsa, seenUtsa, disturbances, history>>

\* Store g with the given hosts, on the resourceVersion g was read with.  A copy
\* from a cache that is behind may be outdated though it looks the same.
UpdateGateway(g, hosts) ==
    g \in api["GW"] /\ Write("GW", (api["GW"] \ {g}) \cup {[g EXCEPT !.hosts = hosts]})
UpdateConflicts(g) == (g \notin api["GW"] \/ "GW" \in stale) /\ ReadOnly

EnsureGatewayContainsHostMutant(i) ==  \* replaces the hosts instead of adding one
    /\ EnsuringHost(i, 2)
    /\ \/ Gateways(View("GW"), GatewayName) = {} /\ ReadOnly /\ ReturnError
       \/ \E g \in Gateways(View("GW"), GatewayName) :
             \/ UpdateGateway(g, {i[2]}) /\ NextCall(i)
             \/ UpdateConflicts(g) /\ ReturnError
    /\ UNCHANGED <<utsa, seenUtsa, disturbances, history>>

EnsureGatewayContainsHost(i) ==
    /\ EnsuringHost(i, 2)
    /\ \/ Gateways(View("GW"), GatewayName) = {} /\ ReadOnly /\ ReturnError
       \/ \E g \in Gateways(View("GW"), GatewayName) :
             \/ UpdateGateway(g, g.hosts \cup {i[2]}) /\ NextCall(i)
             \/ UpdateConflicts(g) /\ ReturnError
    /\ UNCHANGED <<utsa, seenUtsa, disturbances, history>>

\* Create o unless the cache shows it; any error of Create is returned.
CreateUnless(exists, k, o, ok) ==
    /\ \/ exists /\ ReadOnly /\ ok
       \/ ~exists /\ Namesakes(k, o) = {} /\ Write(k, api[k] \cup {o}) /\ ok
       \/ ~exists /\ Namesakes(k, o) # {} /\ ReadOnly /\ ReturnError
    /\ UNCHANGED <<utsa, seenUtsa, disturbances, history>>

\* A VirtualService is looked up by name, the other objects by their host label.
EnsureVirtualService(i) ==
    /\ EnsuringHost(i, 3)
    /\ CreateUnless(\E o \in View("VS") : NameOf[o.host] = NameOf[i[2]],
                    "VS", [host |-> i[2]], NextCall(i))

EnsureDestinationRule(i) ==
    \E to \in BOOLEAN :
       /\ EnsuringHost(i, IF to THEN 4 ELSE 5)
       /\ CreateUnless([host |-> i[2], to |-> to] \in View("DR"),
                       "DR", [host |-> i[2], to |-> to], NextCall(i))

EnsureServiceEntryMutant(i) ==  \* looks for the service account as the host label
    /\ EnsuringHost(i, 6)
    /\ CreateUnless([host |-> i[1]] \in View("SE"), "SE", [host |-> i[2]], DoneWith(i))

EnsureServiceEntryMutant2(i) ==  \* takes a host with a VirtualService for complete
    /\ EnsuringHost(i, 6)
    /\ CreateUnless([host |-> i[2]] \in View("VS"), "SE", [host |-> i[2]], DoneWith(i))

EnsureServiceEntry(i) ==
    /\ EnsuringHost(i, 6)
    /\ CreateUnless([host |-> i[2]] \in View("SE"), "SE", [host |-> i[2]], DoneWith(i))

-----------------------------------------------------------------------------
(* cleanupExternalHosts and cleanupCloudSQLHosts.                           *)

ExternalInUse == UNION {UNION {x.sas[s].ext : s \in DOMAIN x.sas} : x \in listed}
CloudSQLInUse == {"*"} \cup UNION {UNION {x.sas[s].sql : s \in DOMAIN x.sas} : x \in listed}
InUse(name) == IF name = "external" THEN ExternalInUse ELSE CloudSQLInUse

\* What removeExternalHost finds for h: the objects of every kind with that host
\* label, the AuthorizationPolicies of all teams among them.
HostObjectsMutant(h) ==  \* forgets the policies
    UNION {{<<k, o>> : o \in {x \in View(k) : x.host = h}} : k \in {"SE", "VS", "DR"}}

HostObjects(h) == UNION {{<<k, o>> : o \in {x \in View(k) : x.host = h}} :
                         k \in {"SE", "VS", "DR", "AP"}}

RemoveExternalHostMutant(h) ==  \* drops the errors it should return
    /\ pc \in {"externalGateway", "cloudSQLGateway"} /\ Taking(h)
    /\ \E failing \in SUBSET HostObjects(h) :
          /\ IF failing = {} THEN UNCHANGED disturbances ELSE Disturb
          /\ Commit([k \in Kinds |-> api[k] \ UNION {Namesakes(k, x[2]) :
                        x \in {y \in HostObjects(h) \ failing : y[1] = k}}])
    /\ DoneWith(h)
    /\ UNCHANGED <<utsa, seenUtsa, history>>

\* A failing delete, or one that finds nothing, does not stop the others, but
\* it ends the cleanup after this host.
RemoveExternalHost(h) ==
    /\ pc \in {"externalGateway", "cloudSQLGateway"} /\ Taking(h)
    /\ \E failing \in SUBSET HostObjects(h) :
          LET deleted == HostObjects(h) \ failing
              missing == {x \in deleted : Namesakes(x[1], x[2]) = {}}
          IN  /\ IF failing = {} THEN UNCHANGED disturbances ELSE Disturb
              /\ Commit([k \in Kinds |->
                           api[k] \ UNION {Namesakes(k, x[2]) : x \in {y \in deleted : y[1] = k}}])
              /\ IF failing \cup missing = {} THEN DoneWith(h) ELSE ReturnError
    /\ UNCHANGED <<utsa, seenUtsa, history>>

\* The gateway keeps exactly the hosts in use.  An external gateway left without
\* hosts is deleted, whatever its resourceVersion.
CleanupGateway ==
    /\ pc \in {"externalGateway", "cloudSQLGateway"} /\ todo = {} /\ gw # None
    /\ LET ok == gw' = None /\ UNCHANGED <<pc, job, todo, cur, at, kept, failed, listed, queue>>
           stored == Gateways(api["GW"], gw.name)
       IN  IF InUse(gw.name) = {}
           THEN \/ stored # {} /\ Write("GW", api["GW"] \ stored) /\ ok
                \/ stored = {} /\ ReadOnly /\ ReturnError
           ELSE \/ UpdateGateway(gw, InUse(gw.name)) /\ ok
                \/ UpdateConflicts(gw) /\ ReturnError
    /\ UNCHANGED <<utsa, seenUtsa, disturbances, history>>
=============================================================================
