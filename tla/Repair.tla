------------------------------- MODULE Repair -------------------------------
(***************************************************************************)
(* What still holds when the caches of gateways and routes lag.  A stale   *)
(* cache can make a reconcile skip or lose the route of a host; the next   *)
(* reconcile that reads fresh caches puts it back.  current is an auxiliary *)
(* variable: it records whether the present reconcile has done so yet.     *)
(***************************************************************************)
EXTENDS Properties

VARIABLE current   \* every host call of this reconcile was decided on fresh caches

HostKinds == {"GW", "VS", "DR", "SE"}

HostPhases == {"externalHosts", "cloudSQLHosts", "externalGateway", "cloudSQLGateway"}

repairVars == <<vars, current>>

RepairInit == Init /\ current = TRUE

RepairNext ==
    /\ Next
    /\ current' = \/ pc = "idle"
                  \/ current /\ (pc \in HostPhases => stale \cap HostKinds = {})

RepairSpec == RepairInit /\ [][RepairNext]_repairVars /\ Fairness

\* This step returns nil from the last phase of Reconcile, and the CR is, and is
\* known to be, what it was when Reconcile read it.
Succeeds ==
    /\ pc = "cloudSQLGateway" /\ pc' = "idle" /\ job.cr \notin queue'
    /\ utsa[job.cr] = job.obj /\ seenUtsa[job.cr] = job.obj

\* A reconcile that succeeds and has read fresh caches of gateways and routes leaves
\* every external and CloudSQL host of the CR routed (reconciler.go:18-127), whatever
\* earlier reconciles with stale caches have left out, or taken away from under it
\* (cleanup.go:204-219).
FreshReconcileRepairs ==
    [][Succeeds /\ current =>
          \A s \in Listed : /\ \A h \in spec.sas[s].ext : RouteExists(h, "external")
                            /\ \A h \in spec.sas[s].sql : RouteExists(h, "cloudsql")]_repairVars
=============================================================================
