---------------------------- MODULE CleanupProofs ----------------------------
(***************************************************************************)
(* The finalizer cleans up, when the cache of policies does not lag.  (When *)
(* it does, a policy created moments ago may be missed.)                    *)
(***************************************************************************)
EXTENDS TypeProofs

\* A policy that the finalizer still has to delete is in its loop, unless a delete
\* has failed; and only a stored CR holds the finalizer.
Cleaning ==
    pc = "finalize" /\ ~failed =>
        \A ap \in api["AP"] : ap.env = spec.env /\ ap.sa \in Listed => ap \in todo

HeldWhileStored == \A c \in CRs : utsa[c].fin => utsa[c].live

CInv == TInv /\ Cleaning /\ HeldWhileStored

\* Initially there is nothing to clean up.
LEMMA CInvInit == Init => CInv
BY TInvInit DEF Init, ClusterInit, WorkerInit, CInv, Cleaning, HeldWhileStored

\* Elsewhere than in the finalizer there is nothing to show.
LEMMA NotCleaning ==
    ASSUME pc' # "finalize"
    PROVE  Cleaning'
BY DEF Cleaning

\* While the worker waits, nobody else creates policies.
LEMMA CleaningKept ==
    ASSUME Cleaning, UNCHANGED workerVars, api'["AP"] \subseteq api["AP"]
    PROVE  Cleaning'
BY DEF Cleaning, workerVars, spec, Listed

\* The finalizer's loop begins with all policies there are: its cache is current.
LEMMA CleaningStart ==
    ASSUME "AP" \notin Lagging, CInv, NEW c \in CRs, Start(c)
    PROVE  Cleaning'
<1>1. api' = api
  BY DEF Start, ReadOnly
<1>2. CASE UNCHANGED workerVars
  BY <1>1, <1>2, CleaningKept DEF CInv
<1>3. CASE EnterPhase("finalize", FinalPolicies(seenUtsa[c].spec))
           /\ job' = [cr |-> c, obj |-> seenUtsa[c]]
  <2>1. View("AP") = api["AP"]
    BY DEF CInv, TInv, StoreOK, View
  <2>2. spec' = seenUtsa[c].spec /\ Listed' = DOMAIN seenUtsa[c].spec.sas
    BY <1>3 DEF spec, Listed
  <2> QED
    BY <1>1, <1>3, <2>1, <2>2 DEF Cleaning, FinalPolicies, EnterPhase
<1>4. CASE pc' \in {"addFinalizer", "persist"}
  BY <1>4, NotCleaning
<1> QED
  BY <1>2, <1>3, <1>4 DEF Start, EnterPhase

\* Inside the finalizer, a policy leaves the loop when it is deleted, or its delete
\* has failed.
LEMMA CleaningDelete ==
    ASSUME CInv, NEW ap, DeletePolicy(ap)
    PROVE  Cleaning'
<1>1. UNCHANGED <<pc, job>> /\ todo' = todo \ {ap}
  BY DEF DeletePolicy, DoneWith, DoneNoting
<1>2. spec' = spec /\ Listed' = Listed
  BY <1>1 DEF spec, Listed
<1>3. CASE Write("AP", api["AP"] \ Namesakes("AP", ap)) /\ DoneWith(ap)
  <2>1. api'["AP"] = api["AP"] \ Namesakes("AP", ap)
    BY <1>3 DEF Write, Commit, CInv, TInv, StoreOK, Kinds
  <2>2. ap \in api["AP"] => ap \in Namesakes("AP", ap)
    BY DEF Namesakes
  <2>3. failed' = (failed \/ FALSE)
    BY <1>3 DEF DoneWith, DoneNoting
  <2> QED
    BY <1>1, <1>2, <2>1, <2>2, <2>3 DEF CInv, Cleaning
<1>4. CASE DoneNoting(ap, TRUE)
  <2>1. failed'
    BY <1>4 DEF DoneNoting
  <2> QED
    BY <2>1 DEF Cleaning
<1> QED
  BY <1>3, <1>4 DEF DeletePolicy

\* Outside the phases that follow one another, the worker adds or removes the
\* finalizer, or deletes a policy.
LEMMA OnlyDeletes ==
    ASSUME Step, ~AddFinalizer, ~RemoveFinalizer, pc \notin DOMAIN NextPhase
    PROVE  \E x : DeletePolicy(x)
<1>1. {"persist", "serviceAccounts", "removeSAs", "removeSAsAgain", "externalHosts",
       "cloudSQLHosts", "authzPolicies", "internalHosts", "externalGateway",
       "cloudSQLGateway"} \subseteq DOMAIN NextPhase
  BY DEF NextPhase
<1>2. ASSUME NEW x, IdentityStep(x)
      PROVE  FALSE
  BY <1>1, <1>2 DEF IdentityStep, ReconcileIAMServiceAccount, ReconcileServiceAccount,
     CreateIAMPolicyMember, CleanupIAMPolicyMember, CleanupIAMServiceAccount,
     DeleteServiceAccount, Removing
<1>3. ASSUME NEW x, HostStep(x)
      PROVE  FALSE
  BY <1>1, <1>3 DEF HostStep, EnsureGatewayExists, EnsureGatewayContainsHost,
     EnsureVirtualService, EnsureDestinationRule, EnsureServiceEntry, EnsuringHost,
     RemoveExternalHost
<1>4. ASSUME NEW x, PolicyStep(x)
      PROVE  DeletePolicy(x)
  BY <1>1, <1>4 DEF PolicyStep, EnsureAuthorizationPolicy, DeleteUnlistedPolicy
<1>5. ~Advance /\ ~CleanupGateway /\ \A s : ~PersistAllowlist(s)
  BY <1>1 DEF Advance, CleanupGateway, PersistAllowlist
<1> QED
  BY <1>2, <1>3, <1>4, <1>5 DEF Step

\* No other step of Reconcile is taken in the finalizer or leads to it.
LEMMA CleaningStep ==
    ASSUME CInv, Step
    PROVE  Cleaning'
<1>1. CASE AddFinalizer \/ RemoveFinalizer
  <2>1. pc' # "finalize"
    BY <1>1 DEF AddFinalizer, RemoveFinalizer, EnterPhase, ReturnError, ReturnNil, Forget
  <2> QED
    BY <2>1, NotCleaning
<1>2. CASE ~AddFinalizer /\ ~RemoveFinalizer /\ pc # "finalize"
  <2>1. Passive
    BY <1>2, StepIsPassive DEF CInv, TInv, GInv
  <2>2. pc' # "finalize"
    BY <1>2, <2>1, Phases DEF Passive
  <2> QED
    BY <2>2, NotCleaning
<1>3. CASE ~AddFinalizer /\ ~RemoveFinalizer /\ pc = "finalize"
  <2>1. pc \notin DOMAIN NextPhase
    BY <1>3, Phases
  <2> QED
    BY <1>3, <2>1, OnlyDeletes, CleaningDelete
<1> QED
  BY <1>1, <1>2, <1>3

\* What users and the operator do to the finalizer of a CR.
LEMMA StoredNext ==
    ASSUME CInv, [Next]_vars
    PROVE  HeldWhileStored'
<1> USE DEF CInv, TInv, GInv, FInv, CoreTypeOK, HeldWhileStored
<1>1. CASE AddFinalizer
  <2>1. \/ utsa' = utsa
        \/ utsa' = [utsa EXCEPT ![job.cr].fin = TRUE] /\ utsa[job.cr] = job.obj
           /\ pc = "addFinalizer"
    BY <1>1 DEF AddFinalizer, CopyIsCurrent
  <2>2. pc = "addFinalizer" => job.obj.live
    BY DEF JobBehind
  <2>3. job.cr \in CRs /\ utsa[job.cr] \in Resource
    OBVIOUS
  <2>4. [utsa[job.cr] EXCEPT !.fin = TRUE].live = utsa[job.cr].live
    BY <2>3 DEF Resource
  <2>5. CASE utsa' = utsa
    BY <2>5
  <2>6. CASE utsa' = [utsa EXCEPT ![job.cr].fin = TRUE] /\ utsa[job.cr].live
    BY <2>3, <2>4, <2>6
  <2> QED
    BY <2>1, <2>2, <2>5, <2>6
<1>2. CASE RemoveFinalizer
  <2> DEFINE gone == [utsa[job.cr] EXCEPT !.fin = FALSE, !.live = FALSE]
  <2>1. job.cr \in CRs /\ utsa[job.cr] \in Resource
    OBVIOUS
  <2>2. ~gone.fin
    BY <2>1 DEF Resource
  <2>3. CASE utsa' = utsa
    BY <2>3
  <2>4. CASE utsa' = [utsa EXCEPT ![job.cr] = gone]
    <3>1. utsa'[job.cr] = gone /\ \A c \in CRs : c # job.cr => utsa'[c] = utsa[c]
      BY <2>1, <2>4
    <3> QED
      BY <2>2, <3>1
  <2> QED
    BY <1>2, <2>3, <2>4 DEF RemoveFinalizer
<1>3. CASE Users
  <2>1. ASSUME NEW c \in CRs, NEW s \in Specs[c], UserCreate(c, s)
        PROVE  HeldWhileStored'
    BY <2>1 DEF UserCreate
  <2>2. ASSUME NEW c \in CRs, NEW s \in Specs[c], UserEdit(c, s)
        PROVE  HeldWhileStored'
    <3> DEFINE edited == [utsa[c] EXCEPT !.spec = s, !.gen = @ + 1]
    <3>1. edited.fin = utsa[c].fin /\ edited.live = utsa[c].live
      BY DEF Resource
    <3>2. utsa' = [utsa EXCEPT ![c] = edited]
      BY <2>2 DEF UserEdit
    <3>3. utsa'[c] = edited /\ \A d \in CRs : d # c => utsa'[d] = utsa[d]
      BY <3>2
    <3> QED
      BY <3>1, <3>3
  <2>3. ASSUME NEW c \in CRs, UserDelete(c)
        PROVE  HeldWhileStored'
    <3>1. ASSUME NEW r, utsa' = [utsa EXCEPT ![c] = r], r.fin => r.live
          PROVE  HeldWhileStored'
      <4>1. utsa'[c] = r /\ \A d \in CRs : d # c => utsa'[d] = utsa[d]
        BY <3>1
      <4> QED
        BY <3>1, <4>1
    <3>2. utsa[c] \in Resource /\ utsa[c].live
      BY <2>3 DEF UserDelete
    <3>3. CASE utsa[c].fin
      <4>1. utsa' = [utsa EXCEPT ![c] = [utsa[c] EXCEPT !.del = TRUE]]
        BY <2>3, <3>3 DEF UserDelete
      <4>2. [utsa[c] EXCEPT !.del = TRUE].live
        BY <3>2 DEF Resource
      <4> QED
        BY <3>1, <4>1, <4>2
    <3>4. CASE ~utsa[c].fin
      <4>1. utsa' = [utsa EXCEPT ![c] = [utsa[c] EXCEPT !.live = FALSE]]
        BY <2>3, <3>4 DEF UserDelete
      <4>2. ~[utsa[c] EXCEPT !.live = FALSE].fin
        BY <3>2, <3>4 DEF Resource
      <4> QED
        BY <3>1, <4>1, <4>2
    <3> QED
      BY <3>3, <3>4
  <2> QED
    BY <1>3, <2>1, <2>2, <2>3 DEF Users
<1>4. CASE utsa' = utsa
  BY <1>4
<1>5. CASE Step /\ ~AddFinalizer /\ ~RemoveFinalizer
  BY <1>4, <1>5, StepIsPassive DEF Passive
<1>6. ASSUME NEW c \in CRs, Start(c)
      PROVE  utsa' = utsa
  BY <1>6 DEF Start
<1>7. CASE Caches \/ Background \/ Trouble
  BY <1>4, <1>7 DEF Caches, Observe, CatchUp, Background, Resync, GarbageCollect,
     Trouble, CallFails, Restart
<1>8. CASE UNCHANGED vars
  BY <1>4, <1>8 DEF vars, clusterVars
<1> QED
  BY <1>1, <1>2, <1>3, <1>4, <1>5, <1>6, <1>7, <1>8 DEF Next

\* Every step keeps the invariant.
LEMMA CInvNext ==
    ASSUME "AP" \notin Lagging, CInv, [Next]_vars
    PROVE  CInv'
<1>1. SUFFICES Cleaning'
  BY TInvNext, StoredNext DEF CInv
<1>2. ASSUME NEW c \in CRs, Start(c)
      PROVE  Cleaning'
  BY <1>2, CleaningStart
<1>3. CASE Users \/ Caches \/ Background
  <2>1. UNCHANGED workerVars
    BY <1>3 DEF Users, Caches, Background
  <2>2. api'["AP"] \subseteq api["AP"]
    <3>1. CASE api' = api
      BY <3>1
    <3>2. ASSUME NEW k \in Kinds, GarbageCollect(k)
          PROVE  api'["AP"] = api["AP"]
      BY <3>2 DEF GarbageCollect, Write, Commit
    <3>3. api' = api \/ \E k \in Kinds : GarbageCollect(k)
      BY <1>3 DEF Users, UserCreate, UserEdit, UserDelete, Caches, Observe, CatchUp,
                  Background, Resync
    <3> QED
      BY <3>1, <3>2, <3>3
  <2> QED
    BY <2>1, <2>2, CleaningKept DEF CInv
<1>4. CASE Trouble
  <2>1. pc' # "finalize"
    BY <1>4 DEF Trouble, CallFails, Restart, ReturnError, Forget
  <2> QED
    BY <2>1, NotCleaning
<1>5. CASE UNCHANGED vars
  BY <1>5, CleaningKept DEF vars, clusterVars, CInv
<1> QED
  BY <1>2, <1>3, <1>4, <1>5, CleaningStep DEF Next

-----------------------------------------------------------------------------
\* What FinalizerCleansPolicies says of one step.
CleanWhenReleased ==
    \A c \in CRs : utsa[c].fin /\ ~utsa'[c].fin =>
        \A ap \in api["AP"] : ap.env = utsa[c].spec.env => ap.sa \notin DOMAIN utsa[c].spec.sas

\* Only RemoveFinalizer takes the finalizer away, and then its loop is through.
LEMMA ReleaseStep ==
    ASSUME CInv, [Next]_vars
    PROVE  CleanWhenReleased
<1> USE DEF CInv, TInv, GInv, FInv, CoreTypeOK
<1> SUFFICES ASSUME NEW c \in CRs, utsa[c].fin, ~utsa'[c].fin
             PROVE  \A ap \in api["AP"] : ap.env = utsa[c].spec.env
                                             => ap.sa \notin DOMAIN utsa[c].spec.sas
  BY DEF CleanWhenReleased
<1>1. utsa' # utsa
  OBVIOUS
<1>2. CASE RemoveFinalizer
  <2>1. /\ utsa' = [utsa EXCEPT ![job.cr].fin = FALSE, ![job.cr].live = FALSE]
        /\ utsa[job.cr] = job.obj /\ ~failed /\ pc = "finalize" /\ todo = {}
    BY <1>1, <1>2 DEF RemoveFinalizer, CopyIsCurrent
  <2>2. c = job.cr
    BY <2>1 DEF Resource
  <2> QED
    BY <2>1, <2>2 DEF Cleaning, spec, Listed
<1>3. CASE AddFinalizer
  BY <1>1, <1>3 DEF AddFinalizer, Resource
<1>4. CASE Step /\ ~AddFinalizer /\ ~RemoveFinalizer
  BY <1>1, <1>4, StepIsPassive DEF Passive
<1>5. CASE Users
  <2>1. ASSUME NEW d \in CRs, NEW s \in Specs[d], UserCreate(d, s)
        PROVE  FALSE
    BY <2>1 DEF UserCreate, HeldWhileStored, Resource
  <2>2. ASSUME NEW d \in CRs, NEW s \in Specs[d], UserEdit(d, s)
        PROVE  FALSE
    BY <2>2 DEF UserEdit, Resource
  <2>3. ASSUME NEW d \in CRs, UserDelete(d)
        PROVE  FALSE
    BY <2>3 DEF UserDelete, Resource
  <2> QED
    BY <1>5, <2>1, <2>2, <2>3 DEF Users
<1>6. ASSUME NEW d \in CRs, Start(d)
      PROVE  utsa' = utsa
  BY <1>6 DEF Start
<1>7. CASE Caches \/ Background \/ Trouble
  BY <1>1, <1>7 DEF Caches, Observe, CatchUp, Background, Resync, GarbageCollect,
     Trouble, CallFails, Restart
<1>8. CASE UNCHANGED vars
  BY <1>1, <1>8 DEF vars, clusterVars
<1> QED
  BY <1>1, <1>2, <1>3, <1>4, <1>5, <1>6, <1>7, <1>8 DEF Next

\* CleanupAllResources before the finalizer is removed (controller.go:115-129): when the
\* cache of policies does not lag, a CR is let go only when no policy is left for the
\* accounts it lists at that moment, however its spec was edited and whichever
\* deletes failed meanwhile.
THEOREM FinalizerCleansUp ==
    ASSUME "AP" \notin Lagging
    PROVE  Spec => FinalizerCleansPolicies
<1>1. Init => CInv
  BY CInvInit
<1>2. CInv /\ [Next]_vars => CInv'
  BY CInvNext
<1>3. CInv /\ [Next]_vars => [CleanWhenReleased]_vars
  BY ReleaseStep
<1>4. Spec => [][CleanWhenReleased]_vars
  BY <1>1, <1>2, <1>3, PTL DEF Spec
<1> QED
  BY <1>4 DEF CleanWhenReleased, FinalizerCleansPolicies
=============================================================================
