----------------------------- MODULE GrantProofs -----------------------------
(***************************************************************************)
(* GrantsRecorded holds for every set of CRs, specs, lagging caches and    *)
(* bounds: whatever the operator grants was recorded before.               *)
(***************************************************************************)
EXTENDS OperatorProofs

-----------------------------------------------------------------------------
(* The invariant.                                                           *)

\* What GrantsRecorded says of one object o of kind k.
Recorded(k, o) ==
    /\ k \in {"SA", "GSA", "PM"} => RowsOf(o) # {}
    /\ k = "AP" => \E row \in RowsOf(o) :
          o.parent \in IF o.type = "internal" THEN row.entry.int
                                              ELSE row.entry.ext \cup row.entry.sql
    /\ k \in {"VS", "DR", "SE"} => \E row \in history :
          o.host \in row.entry.ext \cup row.entry.sql

\* The rows of the spec are written in the first phase, and the later ones only
\* ask for what the spec lists.
RowsFirst ==
    /\ pc = "persist" => \A s \in Listed \ todo : Row(s) \in history
    /\ pc \in DOMAIN NextPhase \ {"persist"} => \A s \in Listed : Row(s) \in history
    /\ pc \in {"persist", "serviceAccounts"} => todo \subseteq Listed
    /\ pc = "externalHosts" => todo \subseteq ExternalItems
    /\ pc = "cloudSQLHosts" => todo \subseteq CloudSQLItems
    /\ pc = "authzPolicies" => todo \subseteq PolicyItems

AllRecorded == \A k \in Kinds : \A o \in api[k] : Recorded(k, o)

GInv == FInv /\ DOMAIN api = Kinds /\ RowsFirst /\ AllRecorded

LEMMA AllRecordedSuffices == AllRecorded => GrantsRecorded
BY DEF AllRecorded, Recorded, GrantsRecorded, IdentitiesRecorded, PoliciesRecorded,
       RoutesRecorded, Kinds

\* Rows are never taken back.
LEMMA RecordedForGood ==
    ASSUME history \subseteq history', NEW k, NEW o, Recorded(k, o)
    PROVE  Recorded(k, o)'
BY DEF Recorded, RowsOf

-----------------------------------------------------------------------------
(* Writes of objects that are recorded.                                     *)

\* Objects that are recorded may be stored beside those that are there.
LEMMA CommitRecorded ==
    ASSUME AllRecorded, history \subseteq history',
           NEW new, Commit(new), DOMAIN new = Kinds,
           \A k \in Kinds : \A o \in new[k] : o \in api[k] \/ Recorded(k, o)
    PROVE  AllRecorded' /\ DOMAIN api' = Kinds
<1>1. api' = new
  BY DEF Commit
<1> QED
  BY <1>1, RecordedForGood DEF AllRecorded

\* The same for a write of one kind.
LEMMA WriteRecorded ==
    ASSUME AllRecorded, DOMAIN api = Kinds, history \subseteq history',
           NEW k \in Kinds, NEW objects, Write(k, objects),
           \A o \in objects : o \in api[k] \/ Recorded(k, o)
    PROVE  AllRecorded' /\ DOMAIN api' = Kinds
<1> DEFINE new == [api EXCEPT ![k] = objects]
<1>1. Commit(new) /\ DOMAIN new = Kinds
  BY DEF Write
<1>2. \A j \in Kinds : \A o \in new[j] : o \in api[j] \/ Recorded(j, o)
  OBVIOUS
<1> HIDE DEF new
<1> QED
  BY <1>1, <1>2, CommitRecorded

\* A step that writes nothing keeps what is recorded.
LEMMA ReadOnlyRecorded ==
    ASSUME AllRecorded, DOMAIN api = Kinds, history \subseteq history', api' = api
    PROVE  AllRecorded' /\ DOMAIN api' = Kinds
BY RecordedForGood DEF AllRecorded

-----------------------------------------------------------------------------
(* What the loops grant is recorded.                                        *)

\* A listed service account has a row.
LEMMA IdentityRecorded ==
    ASSUME NEW s \in Listed, Row(s) \in history, NEW o, o.env = spec.env, o.sa = s,
           NEW k \in {"SA", "GSA", "PM"}
    PROVE  Recorded(k, o)
BY DEF Recorded, RowsOf, Row

\* A host of a loop has a row that lists it.
LEMMA RouteRecorded ==
    ASSUME NEW i \in ExternalItems \cup CloudSQLItems,
           \A s \in Listed : Row(s) \in history,
           NEW o, o.host = i[2], NEW k \in {"VS", "DR", "SE"}
    PROVE  Recorded(k, o)
<1>1. PICK s \in Listed : i[2] \in spec.sas[s].ext \cup spec.sas[s].sql
  BY DEF ExternalItems, CloudSQLItems
<1>2. Row(s) \in history /\ Row(s).entry = spec.sas[s]
  BY DEF Row
<1> QED
  BY <1>1, <1>2 DEF Recorded

\* A policy of the loop has a row that lists its host, or its parent's.
LEMMA PolicyRecorded ==
    ASSUME NEW i \in PolicyItems, \A s \in Listed : Row(s) \in history
    PROVE  Recorded("AP", i[2])
<1>1. PICK s \in Listed :
         /\ i[2].env = spec.env /\ i[2].sa = s
         /\ \/ i[2].type = "external" /\ i[2].parent \in spec.sas[s].ext \cup spec.sas[s].sql
            \/ i[2].type = "internal" /\ i[2].parent \in spec.sas[s].int
  BY DEF PolicyItems, Policy
<1>2. Row(s) \in history /\ Row(s).entry = spec.sas[s] /\ Row(s) \in RowsOf(i[2])
  BY <1>1 DEF Row, RowsOf
<1> QED
  BY <1>1, <1>2 DEF Recorded

\* The service account phases only create what has a row.
LEMMA IdentityGrants ==
    ASSUME GInv, NEW x \in todo, IdentityStep(x), history \subseteq history'
    PROVE  AllRecorded' /\ DOMAIN api' = Kinds
<1> USE DEF GInv
<1>1. \A k \in {"SA", "GSA", "PM"} : k \in Kinds
  BY DEF Kinds
<1>2. ASSUME ReadOnly
      PROVE  AllRecorded' /\ DOMAIN api' = Kinds
  BY <1>2, ReadOnlyRecorded DEF ReadOnly
<1>3. ASSUME NEW k \in {"SA", "GSA", "PM"}, NEW objects, objects \subseteq api[k],
             Write(k, objects)
      PROVE  AllRecorded' /\ DOMAIN api' = Kinds
  BY <1>1, <1>3, WriteRecorded
<1>4. ASSUME NEW k \in {"SA", "GSA", "PM"}, NEW old, old \subseteq api[k],
             NEW o, o.env = spec.env, o.sa = x, pc = "serviceAccounts",
             Write(k, old \cup {o})
      PROVE  AllRecorded' /\ DOMAIN api' = Kinds
  <2>1. x \in Listed /\ Row(x) \in history
    BY <1>4, Phases DEF RowsFirst, NextPhase
  <2>2. Recorded(k, o)
    BY <1>4, <2>1, IdentityRecorded
  <2> QED
    BY <1>1, <1>4, <2>2, WriteRecorded
<1>5. Account(x).env = spec.env /\ Account(x).sa = x
  BY DEF Account
<1>6. \A r : Member(x, r).env = spec.env /\ Member(x, r).sa = x
  BY DEF Member
<1>7. CASE ReconcileIAMServiceAccount(x)
  BY <1>2, <1>4, <1>5, <1>7 DEF ReconcileIAMServiceAccount
<1>8. CASE ReconcileServiceAccount(x)
  BY <1>2, <1>4, <1>5, <1>8 DEF ReconcileServiceAccount
<1>9. CASE CreateIAMPolicyMember(x)
  BY <1>2, <1>4, <1>6, <1>9 DEF CreateIAMPolicyMember
<1>10. CASE CleanupIAMPolicyMember(x)
  BY <1>2, <1>3, <1>10 DEF CleanupIAMPolicyMember
<1>11. CASE CleanupIAMServiceAccount(x)
  BY <1>2, <1>3, <1>11 DEF CleanupIAMServiceAccount
<1>12. CASE DeleteServiceAccount(x)
  BY <1>2, <1>3, <1>12 DEF DeleteServiceAccount
<1> QED
  BY <1>7, <1>8, <1>9, <1>10, <1>11, <1>12 DEF IdentityStep

\* The host phases only create what has a row, apart from the gateways.
LEMMA HostGrants ==
    ASSUME GInv, NEW x \in todo, HostStep(x), history \subseteq history'
    PROVE  AllRecorded' /\ DOMAIN api' = Kinds
<1> USE DEF GInv
<1>1. {"GW", "VS", "DR", "SE"} \subseteq Kinds /\ \A g : Recorded("GW", g)
  BY DEF Kinds, Recorded
<1>2. ASSUME ReadOnly
      PROVE  AllRecorded' /\ DOMAIN api' = Kinds
  BY <1>2, ReadOnlyRecorded DEF ReadOnly
<1>3. ASSUME NEW objects, Write("GW", objects)
      PROVE  AllRecorded' /\ DOMAIN api' = Kinds
  BY <1>1, <1>3, WriteRecorded
<1>4. ASSUME NEW k \in {"VS", "DR", "SE"}, NEW o, o.host = x[2],
             pc \in {"externalHosts", "cloudSQLHosts"}, Write(k, api[k] \cup {o})
      PROVE  AllRecorded' /\ DOMAIN api' = Kinds
  <2>1. x \in ExternalItems \cup CloudSQLItems /\ \A s \in Listed : Row(s) \in history
    BY <1>4 DEF RowsFirst, NextPhase
  <2>2. Recorded(k, o)
    BY <1>4, <2>1, RouteRecorded
  <2> QED
    BY <1>1, <1>4, <2>2, WriteRecorded
<1>5. CASE EnsureGatewayExists(x)
  BY <1>2, <1>3, <1>5 DEF EnsureGatewayExists
<1>6. CASE EnsureGatewayContainsHost(x)
  BY <1>2, <1>3, <1>6 DEF EnsureGatewayContainsHost, UpdateGateway, UpdateConflicts
<1>7. CASE EnsureVirtualService(x)
  <2> DEFINE o == [host |-> x[2]]
  <2>1. ReadOnly \/ Write("VS", api["VS"] \cup {o})
    BY <1>7 DEF EnsureVirtualService, CreateUnless
  <2>2. pc \in {"externalHosts", "cloudSQLHosts"}
    BY <1>7 DEF EnsureVirtualService, EnsuringHost
  <2> QED
    BY <1>2, <1>4, <2>1, <2>2
<1>8. CASE EnsureDestinationRule(x)
  <2>1. PICK to \in BOOLEAN : ReadOnly \/ Write("DR", api["DR"] \cup {[host |-> x[2], to |-> to]})
    BY <1>8 DEF EnsureDestinationRule, CreateUnless
  <2>2. pc \in {"externalHosts", "cloudSQLHosts"}
    BY <1>8 DEF EnsureDestinationRule, EnsuringHost
  <2>3. [host |-> x[2], to |-> to].host = x[2]
    OBVIOUS
  <2> QED
    BY <1>2, <1>4, <2>1, <2>2, <2>3
<1>9. CASE EnsureServiceEntry(x)
  <2> DEFINE o == [host |-> x[2]]
  <2>1. ReadOnly \/ Write("SE", api["SE"] \cup {o})
    BY <1>9 DEF EnsureServiceEntry, CreateUnless
  <2>2. pc \in {"externalHosts", "cloudSQLHosts"}
    BY <1>9 DEF EnsureServiceEntry, EnsuringHost
  <2> QED
    BY <1>2, <1>4, <2>1, <2>2
<1>10. CASE RemoveExternalHost(x)
  <2>1. PICK gone : Commit([k \in Kinds |-> api[k] \ gone[k]])
    <3>1. PICK failing \in SUBSET HostObjects(x) :
            Commit([k \in Kinds |-> api[k] \ UNION {Namesakes(k, y[2]) :
                       y \in {z \in HostObjects(x) \ failing : z[1] = k}}])
      BY <1>10 DEF RemoveExternalHost
    <3> DEFINE gone == [k \in Kinds |-> UNION {Namesakes(k, y[2]) :
                           y \in {z \in HostObjects(x) \ failing : z[1] = k}}]
    <3>2. [k \in Kinds |-> api[k] \ UNION {Namesakes(k, y[2]) :
              y \in {z \in HostObjects(x) \ failing : z[1] = k}}]
            = [k \in Kinds |-> api[k] \ gone[k]]
      OBVIOUS
    <3> QED
      BY <3>1, <3>2
  <2> QED
    BY <2>1, CommitRecorded
<1> QED
  BY <1>5, <1>6, <1>7, <1>8, <1>9, <1>10 DEF HostStep

\* The policy phases only create the policies of the rows.
LEMMA PolicyGrants ==
    ASSUME GInv, NEW x \in todo, PolicyStep(x), history \subseteq history'
    PROVE  AllRecorded' /\ DOMAIN api' = Kinds
<1> USE DEF GInv
<1>1. "AP" \in Kinds
  BY DEF Kinds
<1>2. ASSUME ReadOnly
      PROVE  AllRecorded' /\ DOMAIN api' = Kinds
  BY <1>2, ReadOnlyRecorded DEF ReadOnly
<1>3. ASSUME NEW gone, Write("AP", api["AP"] \ gone)
      PROVE  AllRecorded' /\ DOMAIN api' = Kinds
  BY <1>1, <1>3, WriteRecorded
<1>4. ASSUME pc = "authzPolicies", Write("AP", api["AP"] \cup {x[2]})
      PROVE  AllRecorded' /\ DOMAIN api' = Kinds
  <2>1. x \in PolicyItems /\ \A s \in Listed : Row(s) \in history
    BY <1>4 DEF RowsFirst, NextPhase
  <2> QED
    BY <1>1, <1>4, <2>1, PolicyRecorded, WriteRecorded
<1>5. CASE EnsureAuthorizationPolicy(x)
  BY <1>2, <1>4, <1>5 DEF EnsureAuthorizationPolicy
<1>6. CASE DeletePolicy(x)
  BY <1>2, <1>3, <1>6 DEF DeletePolicy
<1>7. CASE DeleteUnlistedPolicy(x)
  BY <1>2, <1>3, <1>7 DEF DeleteUnlistedPolicy
<1> QED
  BY <1>5, <1>6, <1>7 DEF PolicyStep

-----------------------------------------------------------------------------
(* The steps.                                                               *)

\* RowsFirst is about the worker and the history only.
LEMMA RowsFirstKept ==
    ASSUME RowsFirst, history \subseteq history', UNCHANGED <<pc, job>>,
           todo' = todo \/ (pc # "persist" /\ todo' \subseteq todo)
    PROVE  RowsFirst'
BY DEF RowsFirst, Listed, spec, Row, ExternalItems, CloudSQLItems, PolicyItems, Policy

\* Between two calls of Reconcile, and before the first phase, there is nothing to show.
LEMMA RowsFirstIdle ==
    ASSUME pc' \in {"idle", "addFinalizer", "finalize"}
    PROVE  RowsFirst'
BY Phases DEF RowsFirst

\* Initially nothing is granted.
LEMMA GInvInit == Init => GInv
<1> SUFFICES ASSUME Init PROVE GInv  OBVIOUS
<1>1. api = [k \in Kinds |-> IF k = "GW" THEN InitialGateways ELSE {}]
  BY DEF Init, ClusterInit
<1>2. AllRecorded
  BY <1>1 DEF AllRecorded, Recorded
<1>3. RowsFirst
  BY Phases DEF Init, WorkerInit, RowsFirst
<1> QED
  BY <1>1, <1>2, <1>3, FInvInit DEF GInv

\* Reconcile begins with the loop that writes a row for every account.
LEMMA RowsFirstStart ==
    ASSUME RowsFirst, NEW c \in CRs, Start(c)
    PROVE  RowsFirst'
<1>1. history' = history
  BY DEF Start
<1>2. CASE UNCHANGED workerVars
  BY <1>1, <1>2, RowsFirstKept DEF workerVars
<1>3. CASE EnterPhase("persist", PersistItems(seenUtsa[c].spec))
           /\ job' = [cr |-> c, obj |-> seenUtsa[c]]
  <2>1. Listed' = todo' /\ pc' = "persist"
    BY <1>3 DEF EnterPhase, PersistItems, Listed, spec
  <2> QED
    BY <2>1 DEF RowsFirst
<1>4. CASE pc' \in {"addFinalizer", "finalize"}
  BY <1>4, RowsFirstIdle
<1> QED
  BY <1>2, <1>3, <1>4 DEF Start, EnterPhase

\* So it does when it goes on after the finalizer is added.
LEMMA RowsFirstAdd ==
    ASSUME FInv, AddFinalizer
    PROVE  RowsFirst'
<1>1. CASE ReturnError
  BY <1>1, RowsFirstIdle DEF ReturnError, Forget
<1>2. CASE job' = [job EXCEPT !.obj.fin = TRUE] /\ EnterPhase("persist", PersistItems(spec))
  <2>1. spec' = spec
    BY <1>2 DEF FInv, CoreTypeOK, Resource, spec
  <2>2. Listed' = todo' /\ pc' = "persist"
    BY <1>2, <2>1 DEF EnterPhase, PersistItems, Listed
  <2> QED
    BY <2>2 DEF RowsFirst
<1> QED
  BY <1>1, <1>2 DEF AddFinalizer

\* When the first loop is through, all rows are there; the others do what the
\* spec lists.
LEMMA RowsFirstAdvance ==
    ASSUME RowsFirst, Advance
    PROVE  RowsFirst'
<1>1. CASE ReturnError \/ ReturnNil
  BY <1>1, RowsFirstIdle DEF ReturnError, ReturnNil, Forget
<1>2. ASSUME NEW p, p = NextPhase[pc], EnterPhase(p, PhaseItems(p)), UNCHANGED job
      PROVE  RowsFirst'
  <2>1. pc \in DOMAIN NextPhase /\ todo = {} /\ history' = history
    BY DEF Advance
  <2>2. \A s \in Listed : Row(s) \in history
    BY <2>1 DEF RowsFirst
  <2>3. pc' = p /\ todo' = PhaseItems(p) /\ p # "persist"
    BY <1>2, <2>1 DEF EnterPhase, NextPhase
  <2>4. /\ UNCHANGED <<Listed, ExternalItems, CloudSQLItems, PolicyItems>>
        /\ \A s : Row(s)' = Row(s)
    BY <1>2 DEF Listed, spec, ExternalItems, CloudSQLItems, PolicyItems, Policy, Row
  <2>5. /\ p = "serviceAccounts" => todo' = Listed
        /\ p = "externalHosts" => todo' = ExternalItems
        /\ p = "cloudSQLHosts" => todo' = CloudSQLItems
        /\ p = "authzPolicies" => todo' = PolicyItems
    BY <2>3 DEF PhaseItems, EnsureItems
  <2> QED
    BY <2>1, <2>2, <2>3, <2>4, <2>5 DEF RowsFirst
<1> QED
  BY <1>1, <1>2 DEF Advance

\* Every step keeps the invariant.
LEMMA GInvNext == GInv /\ [Next]_vars => GInv'
<1> SUFFICES ASSUME GInv, [Next]_vars PROVE GInv'  OBVIOUS
<1> USE DEF GInv
<1>f. FInv'
  BY FInvNext
<1>r. ASSUME UNCHANGED <<api, history>>
      PROVE  AllRecorded' /\ DOMAIN api' = Kinds
  BY <1>r, ReadOnlyRecorded
<1>w. ASSUME UNCHANGED <<workerVars, history>>
      PROVE  RowsFirst'
  BY <1>w, RowsFirstKept DEF workerVars
<1>i. ASSUME Forget
      PROVE  RowsFirst'
  BY <1>i, RowsFirstIdle DEF Forget
<1>1. ASSUME NEW c \in CRs, Start(c)
      PROVE  GInv'
  <2>1. UNCHANGED <<api, history>>
    BY <1>1 DEF Start, ReadOnly
  <2> QED
    BY <1>f, <1>r, <1>1, <2>1, RowsFirstStart
<1>2. CASE AddFinalizer \/ RemoveFinalizer \/ Advance
  <2>1. UNCHANGED <<api, history>>
    BY <1>2 DEF AddFinalizer, RemoveFinalizer, Advance, ReadOnly
  <2>2. RowsFirst'
    BY <1>i, <1>2, RowsFirstAdd, RowsFirstAdvance DEF RemoveFinalizer, ReturnNil, ReturnError
  <2> QED
    BY <1>f, <1>r, <2>1, <2>2
<1>3. CASE CleanupGateway
  <2>1. history' = history
    BY <1>3 DEF CleanupGateway
  <2>2. RowsFirst'
    <3>1. ReturnError \/ UNCHANGED <<pc, job, todo>>
      BY <1>3 DEF CleanupGateway
    <3> QED
      BY <1>i, <2>1, <3>1, RowsFirstKept DEF ReturnError
  <2>3. \A g : Recorded("GW", g)
    BY DEF Recorded
  <2>4. ReadOnly \/ \E objects : Write("GW", objects)
    BY <1>3 DEF CleanupGateway, UpdateGateway, UpdateConflicts
  <2>5. AllRecorded' /\ DOMAIN api' = Kinds
    BY <1>r, <2>1, <2>3, <2>4, WriteRecorded DEF ReadOnly, Kinds
  <2> QED
    BY <1>f, <2>2, <2>5
<1>4. ASSUME NEW s \in todo, PersistAllowlist(s)
      PROVE  GInv'
  <2>1. /\ pc = "persist" /\ history' = history \cup {Row(s)} /\ api' = api
        /\ UNCHANGED <<pc, job>> /\ todo' = todo \ {s}
    BY <1>4 DEF PersistAllowlist, DoneWith, DoneNoting, ReadOnly
  <2>2. RowsFirst'
    <3>1. Listed' = Listed /\ \A t : Row(t)' = Row(t)
      BY <2>1 DEF Listed, spec, Row
    <3> QED
      BY <2>1, <3>1 DEF RowsFirst
  <2>3. AllRecorded' /\ DOMAIN api' = Kinds
    BY <2>1, ReadOnlyRecorded
  <2> QED
    BY <1>f, <2>2, <2>3
<1>5. ASSUME NEW x \in todo, IdentityStep(x) \/ HostStep(x) \/ PolicyStep(x)
      PROVE  GInv'
  <2>1. /\ history' = history
        /\ (UNCHANGED <<pc, job>> /\ todo' \subseteq todo) \/ ReturnError
    BY <1>5, LoopFrame DEF FInv, CoreTypeOK, LoopKeeps
  <2>2. pc # "persist"
    BY <1>5 DEF IdentityStep, ReconcileIAMServiceAccount, ReconcileServiceAccount,
         CreateIAMPolicyMember, CleanupIAMPolicyMember, CleanupIAMServiceAccount,
         DeleteServiceAccount, Removing, HostStep, EnsureGatewayExists,
         EnsureGatewayContainsHost, EnsureVirtualService, EnsureDestinationRule,
         EnsureServiceEntry, EnsuringHost, RemoveExternalHost, PolicyStep,
         EnsureAuthorizationPolicy, DeletePolicy, DeleteUnlistedPolicy
  <2>3. RowsFirst'
    BY <1>i, <2>1, <2>2, RowsFirstKept DEF ReturnError
  <2>4. AllRecorded' /\ DOMAIN api' = Kinds
    BY <1>5, <2>1, IdentityGrants, HostGrants, PolicyGrants
  <2> QED
    BY <1>f, <2>3, <2>4
<1>6. CASE Users \/ Caches \/ Background
  <2>1. UNCHANGED <<workerVars, history>>
    BY <1>6 DEF Users, Caches, Background
  <2>2. CASE api' = api
    BY <1>f, <1>r, <1>w, <2>1, <2>2
  <2>3. ASSUME NEW k \in Kinds, GarbageCollect(k)
        PROVE  AllRecorded' /\ DOMAIN api' = Kinds
    BY <2>1, <2>3, WriteRecorded DEF GarbageCollect
  <2>4. api' = api \/ \E k \in Kinds : GarbageCollect(k)
    BY <1>6 DEF Users, UserCreate, UserEdit, UserDelete, Caches, Observe, CatchUp,
                Background, Resync
  <2> QED
    BY <1>f, <1>w, <2>1, <2>2, <2>3, <2>4
<1>7. CASE Trouble
  <2>1. Forget /\ UNCHANGED <<api, history>>
    BY <1>7 DEF Trouble, CallFails, Restart, ReturnError, ReadOnly
  <2> QED
    BY <1>f, <1>r, <1>i, <2>1
<1>8. CASE UNCHANGED vars
  <2>1. UNCHANGED <<workerVars, history, api>>
    BY <1>8 DEF vars, clusterVars
  <2> QED
    BY <1>f, <1>r, <1>w, <2>1
<1>9. CASE Step
  BY <1>2, <1>3, <1>4, <1>5, <1>9 DEF Step
<1> QED
  BY <1>1, <1>6, <1>7, <1>8, <1>9 DEF Next

\* The history comes first (controller.go:144-151): whatever identity, policy or
\* route there is was allowed by a row written before, whatever fails, restarts or
\* lags behind in between.
THEOREM GrantsAreRecorded == Spec => []GrantsRecorded
<1>1. GInv => GrantsRecorded
  BY AllRecordedSuffices DEF GInv
<1> QED
  BY <1>1, GInvInit, GInvNext, PTL DEF Spec
=============================================================================
