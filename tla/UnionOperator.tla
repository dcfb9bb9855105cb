---------------------------- MODULE UnionOperator ----------------------------
(***************************************************************************)
(* internal/controller: Reconcile, which runs the phases of the other      *)
(* packages one after the other for one CR, and the system it makes with   *)
(* the cluster around it.                                                  *)
(***************************************************************************)
EXTENDS AuthzPolicies

vars == <<clusterVars, workerVars, history>>

Init == ClusterInit /\ WorkerInit /\ HistoryInit

\* Reconcile reads the CR from the cache.  One that is gone is done with; one
\* being deleted is finalized if it holds the finalizer; any other one gets the
\* finalizer first if it lacks it.
Start(c) ==
    /\ pc = "idle" /\ c \in queue
    /\ queue' = queue \ {c}
    /\ LET r == seenUtsa[c] IN
       IF ~r.live \/ (r.del /\ ~r.fin)
           THEN UNCHANGED workerVars
           ELSE /\ job' = [cr |-> c, obj |-> r]
                /\ UNCHANGED <<listed, gw>>
                /\ \/ r.del /\ EnterPhase("finalize", FinalPolicies(r.spec))
                   \/ ~r.del /\ ~r.fin /\ EnterPhase("addFinalizer", {})
                   \/ ~r.del /\ r.fin /\ EnterPhase("persist", PersistItems(r.spec))
    /\ ReadOnly
    /\ UNCHANGED <<utsa, seenUtsa, disturbances, history>>

\* r.Update of the CR carries the resourceVersion of the cached copy, so it fails
\* when the API server has another one.
CopyIsCurrent == utsa[job.cr] = job.obj

AddFinalizerMutant ==  \* writes without a resourceVersion
    /\ pc = "addFinalizer"
    /\ utsa' = [utsa EXCEPT ![job.cr].fin = TRUE]
    /\ job' = [job EXCEPT !.obj.fin = TRUE]
    /\ EnterPhase("persist", PersistItems(spec))
    /\ ReadOnly
    /\ UNCHANGED <<listed, gw, queue, seenUtsa, disturbances, history>>

AddFinalizer ==
    /\ pc = "addFinalizer"
    /\ IF CopyIsCurrent
       THEN /\ utsa' = [utsa EXCEPT ![job.cr].fin = TRUE]
            /\ job' = [job EXCEPT !.obj.fin = TRUE]
            /\ EnterPhase("persist", PersistItems(spec))
            /\ UNCHANGED <<listed, gw, queue>>
       ELSE ReturnError /\ UNCHANGED utsa
    /\ ReadOnly
    /\ UNCHANGED <<seenUtsa, disturbances, history>>

RemoveFinalizerMutant ==  \* forgets the errors of the cleanup
    /\ pc = "finalize" /\ todo = {}
    /\ IF CopyIsCurrent
       THEN ReturnNil /\ utsa' = [utsa EXCEPT ![job.cr].fin = FALSE, ![job.cr].live = FALSE]
       ELSE ReturnError /\ UNCHANGED utsa
    /\ ReadOnly
    /\ UNCHANGED <<seenUtsa, disturbances, history>>

RemoveFinalizerMutant2 ==  \* does not ask for a retry
    /\ pc = "finalize" /\ todo = {}
    /\ ReturnNil
    /\ IF CopyIsCurrent /\ ~failed
       THEN utsa' = [utsa EXCEPT ![job.cr].fin = FALSE, ![job.cr].live = FALSE]
       ELSE UNCHANGED utsa
    /\ ReadOnly
    /\ UNCHANGED <<seenUtsa, disturbances, history>>

\* With its last finalizer gone the API server drops the CR.
RemoveFinalizer ==
    /\ pc = "finalize" /\ todo = {}
    /\ IF CopyIsCurrent /\ ~failed
       THEN ReturnNil /\ utsa' = [utsa EXCEPT ![job.cr].fin = FALSE, ![job.cr].live = FALSE]
       ELSE ReturnError /\ UNCHANGED utsa
    /\ ReadOnly
    /\ UNCHANGED <<seenUtsa, disturbances, history>>

ListedSpecsMutant == {spec}  \* thinks of one team only

\* CleanupUnusedHosts lists the CRs once, those being deleted included.
ListedSpecs == {seenUtsa[c].spec : c \in {c \in CRs : seenUtsa[c].live}}

CachedGateways(p) ==
    Gateways(View("GW"), IF p = "externalGateway" THEN "external" ELSE "cloudsql")

\* What a phase has to do, from what Reconcile reads when it gets there.
PhaseItems(p) ==
    CASE p = "serviceAccounts"               -> EnsureItems
      [] p \in {"removeSAs", "removeSAsAgain"} -> RemovedItems
      [] p = "externalHosts"                 -> ExternalItems
      [] p = "cloudSQLHosts"                 -> CloudSQLItems
      [] p = "authzPolicies"                 -> PolicyItems
      [] p = "removedAuthz"                  -> RemovedPolicies
      [] p = "internalHosts"                 -> UnlistedPolicies(ListedSpecs)
      [] p \in {"externalGateway", "cloudSQLGateway"} ->
            UNION {g.hosts \ InUse(g.name) : g \in CachedGateways(p)}

\* A phase is over: Reconcile returns what it collected, or goes on.
Advance ==
    /\ pc \in DOMAIN NextPhase /\ todo = {} /\ gw = None
    /\ LET p == NextPhase[pc] IN
       \/ failed /\ ReturnError
       \/ ~failed /\ p = "idle" /\ ReturnNil
       \/ /\ ~failed /\ p # "idle"
          /\ EnterPhase(p, PhaseItems(p))
          /\ listed' = IF p = "internalHosts" THEN ListedSpecs ELSE listed
          /\ IF p \in {"externalGateway", "cloudSQLGateway"} /\ CachedGateways(p) # {}
             THEN gw' \in CachedGateways(p) ELSE gw' = None
          /\ UNCHANGED <<job, queue>>
    /\ ReadOnly
    /\ UNCHANGED <<utsa, seenUtsa, disturbances, history>>

-----------------------------------------------------------------------------

\* A call for the element x of the loop the worker is in.
IdentityStep(x) ==
    \/ ReconcileIAMServiceAccount(x) \/ ReconcileServiceAccount(x) \/ CreateIAMPolicyMember(x)
    \/ CleanupIAMPolicyMember(x) \/ CleanupIAMServiceAccount(x) \/ DeleteServiceAccount(x)
HostStep(x) ==
    \/ EnsureGatewayExists(x) \/ EnsureGatewayContainsHost(x)
    \/ EnsureVirtualService(x) \/ EnsureDestinationRule(x) \/ EnsureServiceEntry(x)
    \/ RemoveExternalHost(x)
PolicyStep(x) ==
    EnsureAuthorizationPolicy(x) \/ DeletePolicy(x) \/ DeleteUnlistedPolicy(x)

\* One step of the Reconcile call the worker is in.
Step ==
    \/ AddFinalizer \/ RemoveFinalizer \/ Advance \/ CleanupGateway
    \/ \E x \in todo : PersistAllowlist(x) \/ IdentityStep(x) \/ HostStep(x) \/ PolicyStep(x)

Users ==
    /\ \E c \in CRs : \/ \E s \in Specs[c] : UserCreate(c, s) \/ UserEdit(c, s)
                       \/ UserDelete(c)
    /\ UNCHANGED <<workerVars, history>>

Caches ==
    /\ Observe \/ \E k \in Kinds : CatchUp(k)
    /\ UNCHANGED <<workerVars, history>>

Background ==
    /\ (\E c \in CRs : Resync(c)) \/ (\E k \in Kinds : GarbageCollect(k))
    /\ UNCHANGED <<workerVars, history>>

Trouble == (CallFails \/ Restart) /\ UNCHANGED history

Next == (\E c \in CRs : Start(c)) \/ Step \/ Users \/ Caches \/ Background \/ Trouble

\* The worker and the informers go on.  The work queue is first in, first out, so
\* that no CR waits for ever although the others come back again and again.
Fairness ==
    /\ WF_vars(Step)
    /\ \A c \in CRs : SF_vars(Start(c))
    /\ WF_vars(Observe /\ UNCHANGED <<workerVars, history>>)
    /\ \A k \in Kinds : WF_vars(CatchUp(k) /\ UNCHANGED <<workerVars, history>>)

Spec == Init /\ [][Next]_vars
FairSpec == Spec /\ Fairness
=============================================================================
