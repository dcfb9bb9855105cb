--------------------------- MODULE OperatorProofs ---------------------------
(***************************************************************************)
(* What holds for every set of CRs, specs, lagging caches and bounds.      *)
(***************************************************************************)
EXTENDS Properties, TLAPS

-----------------------------------------------------------------------------
(* How the calls inside the loops leave the registers and the CRs.          *)

Continues(x) == NextCallNoting(x, FALSE) \/ NextCallNoting(x, TRUE)
Finishes(x) == DoneNoting(x, FALSE) \/ DoneNoting(x, TRUE)

\* The three ways a call inside a loop can end; no element has a seventh call.
LoopEnds(x) == (at # 6 /\ Continues(x)) \/ Finishes(x) \/ ReturnError

\* What the calls inside loops leave alone.
LoopKeeps ==
    /\ UNCHANGED <<utsa, seenUtsa>>
    /\ Disturb \/ UNCHANGED disturbances
    /\ UNCHANGED history

\* Every call of the service account phases ends in one of the three ways.
LEMMA IdentityFrame ==
    ASSUME NEW x, IdentityStep(x), at \in 1 .. 6
    PROVE  LoopEnds(x) /\ LoopKeeps
<1>1. CASE ReconcileIAMServiceAccount(x)
  <2>1. at # 6  BY <1>1 DEF ReconcileIAMServiceAccount
  <2>2. Continues(x) \/ ReturnError
    BY <1>1 DEF ReconcileIAMServiceAccount, NextCall, Continues
  <2> QED  BY <1>1, <2>1, <2>2 DEF ReconcileIAMServiceAccount, LoopEnds, LoopKeeps
<1>2. CASE ReconcileServiceAccount(x)
  <2>1. at # 6  BY <1>2 DEF ReconcileServiceAccount
  <2>2. Continues(x) \/ ReturnError
    BY <1>2 DEF ReconcileServiceAccount, NextCall, Continues
  <2> QED  BY <1>2, <2>1, <2>2 DEF ReconcileServiceAccount, LoopEnds, LoopKeeps
<1>3. CASE CreateIAMPolicyMember(x)
  <2>1. (at # 6 /\ Continues(x)) \/ Finishes(x)
    BY <1>3 DEF CreateIAMPolicyMember, NextCall, Continues, DoneWith, Finishes
  <2> QED  BY <1>3, <2>1 DEF CreateIAMPolicyMember, LoopEnds, LoopKeeps
<1>4. CASE CleanupIAMPolicyMember(x)
  <2>1. at # 6  BY <1>4 DEF CleanupIAMPolicyMember, Removing
  <2>2. Continues(x)  BY <1>4 DEF CleanupIAMPolicyMember, NextCall, Continues
  <2> QED  BY <1>4, <2>1, <2>2 DEF CleanupIAMPolicyMember, LoopEnds, LoopKeeps
<1>5. CASE CleanupIAMServiceAccount(x)
  <2>1. at # 6  BY <1>5 DEF CleanupIAMServiceAccount, Removing
  <2>2. Continues(x)  BY <1>5 DEF CleanupIAMServiceAccount, NextCall, Continues
  <2> QED  BY <1>5, <2>1, <2>2 DEF CleanupIAMServiceAccount, LoopEnds, LoopKeeps
<1>6. CASE DeleteServiceAccount(x)
  BY <1>6 DEF DeleteServiceAccount, DoneWith, Finishes, LoopEnds, LoopKeeps
<1> QED
  BY <1>1, <1>2, <1>3, <1>4, <1>5, <1>6 DEF IdentityStep

\* So does every call of the host phases.
LEMMA HostFrame ==
    ASSUME NEW x, HostStep(x), at \in 1 .. 6
    PROVE  LoopEnds(x) /\ LoopKeeps
<1>1. CASE EnsureGatewayExists(x)
  <2>1. at # 6  BY <1>1 DEF EnsureGatewayExists, EnsuringHost
  <2>2. Continues(x) \/ ReturnError
    BY <1>1 DEF EnsureGatewayExists, NextCall, Continues
  <2> QED  BY <1>1, <2>1, <2>2 DEF EnsureGatewayExists, LoopEnds, LoopKeeps
<1>2. CASE EnsureGatewayContainsHost(x)
  <2>1. at # 6  BY <1>2 DEF EnsureGatewayContainsHost, EnsuringHost
  <2>2. Continues(x) \/ ReturnError
    BY <1>2 DEF EnsureGatewayContainsHost, NextCall, Continues
  <2> QED  BY <1>2, <2>1, <2>2 DEF EnsureGatewayContainsHost, LoopEnds, LoopKeeps
<1>3. CASE EnsureVirtualService(x)
  <2>1. at # 6  BY <1>3 DEF EnsureVirtualService, EnsuringHost
  <2>2. Continues(x) \/ ReturnError
    BY <1>3 DEF EnsureVirtualService, CreateUnless, NextCall, Continues
  <2> QED
    BY <1>3, <2>1, <2>2 DEF EnsureVirtualService, CreateUnless, LoopEnds, LoopKeeps
<1>4. CASE EnsureDestinationRule(x)
  <2>1. at # 6  BY <1>4 DEF EnsureDestinationRule, EnsuringHost
  <2>2. Continues(x) \/ ReturnError
    BY <1>4 DEF EnsureDestinationRule, CreateUnless, NextCall, Continues
  <2> QED
    BY <1>4, <2>1, <2>2 DEF EnsureDestinationRule, CreateUnless, LoopEnds, LoopKeeps
<1>5. CASE EnsureServiceEntry(x)
  BY <1>5 DEF EnsureServiceEntry, CreateUnless, DoneWith, Finishes, LoopEnds, LoopKeeps
<1>6. CASE RemoveExternalHost(x)
  BY <1>6 DEF RemoveExternalHost, DoneWith, Finishes, LoopEnds, LoopKeeps
<1> QED
  BY <1>1, <1>2, <1>3, <1>4, <1>5, <1>6 DEF HostStep

\* So does every call of the policy phases.
LEMMA PolicyFrame ==
    ASSUME NEW x, PolicyStep(x)
    PROVE  LoopEnds(x) /\ LoopKeeps
<1> USE DEF DoneWith, Finishes, LoopEnds, LoopKeeps
<1>1. CASE EnsureAuthorizationPolicy(x)
  BY <1>1 DEF EnsureAuthorizationPolicy
<1>2. CASE DeletePolicy(x)
  BY <1>2 DEF DeletePolicy
<1>3. CASE DeleteUnlistedPolicy(x)
  BY <1>3 DEF DeleteUnlistedPolicy
<1> QED
  BY <1>1, <1>2, <1>3 DEF PolicyStep

\* The worker's view of the above: a call inside a loop goes on with the same job
\* and phase and less to do, or Reconcile returns.
LEMMA LoopFrame ==
    ASSUME NEW x, IdentityStep(x) \/ HostStep(x) \/ PolicyStep(x), at \in 1 .. 6
    PROVE  /\ LoopKeeps /\ at' \in 1 .. 6
           /\ \/ UNCHANGED <<pc, job, listed, gw, queue>> /\ todo' \subseteq todo
              \/ ReturnError
<1>1. LoopEnds(x) /\ LoopKeeps
  BY IdentityFrame, HostFrame, PolicyFrame
<1>2. CASE at # 6 /\ Continues(x)
  BY <1>1, <1>2 DEF Continues, NextCallNoting
<1>3. CASE Finishes(x)
  BY <1>1, <1>3 DEF Finishes, DoneNoting
<1>4. CASE ReturnError
  BY <1>1, <1>4 DEF ReturnError, Forget
<1> QED
  BY <1>1, <1>2, <1>3, <1>4 DEF LoopEnds

-----------------------------------------------------------------------------
(* The finalizer.  FinalizerHeld is not inductive: it needs to know what    *)
(* the cached copy Reconcile starts from tells of the CR that is stored.    *)

CoreTypeOK ==
    /\ utsa \in [CRs -> Resource] /\ seenUtsa \in [CRs -> Resource]
    /\ job \in [cr : CRs, obj : Resource]
    /\ pc \in PCs /\ at \in 1 .. 6

\* The cache shows a CR as it is or as it was: an incarnation that it shows with the
\* finalizer and not being deleted is still stored, and a deletion is not undone.
Behind(c) ==
    /\ seenUtsa[c].uid <= utsa[c].uid
    /\ seenUtsa[c].live /\ seenUtsa[c].fin /\ ~seenUtsa[c].del =>
          utsa[c].live /\ utsa[c].fin /\ utsa[c].uid = seenUtsa[c].uid
    /\ seenUtsa[c].uid = utsa[c].uid /\ seenUtsa[c].del => utsa[c].del

\* The worker's copy is not newer than the cache, and the finalizer only runs for
\* an incarnation that is being deleted.
JobBehind ==
    /\ pc # "idle" => job.obj.live /\ job.obj.uid <= seenUtsa[job.cr].uid
    /\ pc = "finalize" => /\ job.obj.del
                          /\ seenUtsa[job.cr].uid = job.obj.uid => seenUtsa[job.cr].del

FInv == CoreTypeOK /\ (\A c \in CRs : Behind(c)) /\ JobBehind /\ FinalizerHeld

\* NoJob, and the CRs nobody has created yet, are resources.
LEMMA NothingYet ==
    /\ NoJob \in [cr : CRs, obj : Resource]
    /\ \A c \in CRs : [live |-> FALSE, uid |-> 0, gen |-> 0, spec |-> CHOOSE s \in Specs[c] : TRUE,
                       del |-> FALSE, fin |-> FALSE] \in Resource
<1>1. \A c \in CRs : (CHOOSE s \in Specs[c] : TRUE) \in AllSpecs
  BY ClusterAssumption DEF AllSpecs
<1>2. 0 \in 0 .. MaxUid /\ 0 \in 0 .. MaxGen
  BY ClusterAssumption
<1>3. (CHOOSE c \in CRs : TRUE) \in CRs
  BY WorkerAssumption
<1> QED
  BY <1>1, <1>2, <1>3 DEF NoJob, Resource

\* The phases follow one another and end in idle.
LEMMA Phases ==
    /\ \A p \in DOMAIN NextPhase : NextPhase[p] \in DOMAIN NextPhase \cup {"idle"}
    /\ {"idle", "addFinalizer", "finalize"} \cap DOMAIN NextPhase = {}
    /\ "persist" \in DOMAIN NextPhase
BY DEF NextPhase

\* A step that leaves the CRs and the job alone, or forgets the job.
Passive ==
    /\ UNCHANGED <<utsa, seenUtsa>> /\ at' \in 1 .. 6
    /\ \/ job' = job /\ (pc' = pc \/ (pc \in DOMAIN NextPhase /\ pc' \in DOMAIN NextPhase))
       \/ job' = NoJob /\ pc' = "idle"

\* A passive step keeps the invariant.
LEMMA PassiveKeeps == FInv /\ Passive => FInv'
<1> SUFFICES ASSUME FInv, Passive PROVE FInv'  OBVIOUS
<1>1. CoreTypeOK'
  BY NothingYet DEF FInv, Passive, CoreTypeOK, PCs
<1>2. \A c \in CRs : Behind(c)'
  BY DEF FInv, Passive, Behind
<1>3. JobBehind'
  BY Phases DEF FInv, Passive, JobBehind
<1>4. FinalizerHeld'
  BY Phases DEF FInv, Passive, FinalizerHeld
<1> QED
  BY <1>1, <1>2, <1>3, <1>4 DEF FInv

\* Returning, with or without an error, is passive when the CRs stay as they are.
LEMMA ReturnIsPassive ==
    ASSUME UNCHANGED <<utsa, seenUtsa>>, Forget
    PROVE  Passive
BY DEF Passive, Forget

\* What a step of Reconcile does when it is not about the finalizer.
LEMMA StepIsPassive ==
    ASSUME FInv, Step, ~AddFinalizer, ~RemoveFinalizer
    PROVE  Passive
<1>1. CASE Advance
  <2>1. UNCHANGED <<utsa, seenUtsa>>
    BY <1>1 DEF Advance
  <2>2. CASE ReturnError \/ ReturnNil
    BY <2>1, <2>2, ReturnIsPassive DEF ReturnError, ReturnNil
  <2>3. CASE /\ NextPhase[pc] # "idle" /\ EnterPhase(NextPhase[pc], PhaseItems(NextPhase[pc]))
             /\ UNCHANGED job
    BY <1>1, <2>1, <2>3, Phases DEF Advance, EnterPhase, Passive
  <2> QED
    BY <1>1, <2>2, <2>3 DEF Advance
<1>2. CASE CleanupGateway
  BY <1>2, ReturnIsPassive DEF CleanupGateway, ReturnError, Passive, FInv, CoreTypeOK
<1>3. ASSUME NEW s, PersistAllowlist(s)
      PROVE  Passive
  BY <1>3 DEF PersistAllowlist, DoneWith, DoneNoting, Passive
<1>4. ASSUME NEW x, IdentityStep(x) \/ HostStep(x) \/ PolicyStep(x)
      PROVE  Passive
  <2>1. LoopKeeps /\ at' \in 1 .. 6 /\ (UNCHANGED <<pc, job>> \/ Forget)
    BY <1>4, LoopFrame DEF FInv, CoreTypeOK, ReturnError
  <2> QED
    BY <2>1, ReturnIsPassive DEF LoopKeeps, Passive
<1> QED
  BY <1>1, <1>2, <1>3, <1>4 DEF Step

\* Initially there are no CRs and nothing is known of them.
LEMMA FInvInit == Init => FInv
<1> SUFFICES ASSUME Init PROVE FInv  OBVIOUS
<1>1. utsa \in [CRs -> Resource] /\ seenUtsa = utsa
  BY NothingYet DEF Init, ClusterInit
<1>2. \A c \in CRs : utsa[c].uid = 0 /\ ~utsa[c].live /\ ~utsa[c].del
  BY DEF Init, ClusterInit
<1>3. pc = "idle" /\ job = NoJob /\ at = 1
  BY DEF Init, WorkerInit
<1>4. CoreTypeOK
  BY <1>1, <1>3, NothingYet DEF CoreTypeOK, PCs
<1>5. \A c \in CRs : Behind(c)
  BY <1>1, <1>2 DEF Behind
<1>6. JobBehind /\ FinalizerHeld
  BY <1>3, Phases DEF JobBehind, FinalizerHeld
<1> QED
  BY <1>4, <1>5, <1>6 DEF FInv

\* Reconcile starts from what the cache shows.
LEMMA FInvStart ==
    ASSUME NEW c \in CRs, Start(c), FInv
    PROVE  FInv'
<1>1. CASE UNCHANGED workerVars
  BY <1>1, PassiveKeeps DEF Start, workerVars, Passive, FInv, CoreTypeOK
<1>2. CASE ~UNCHANGED workerVars
  <2> DEFINE r == seenUtsa[c]
  <2>1. /\ r.live /\ job' = [cr |-> c, obj |-> r] /\ at' = 1
        /\ UNCHANGED <<utsa, seenUtsa>>
        /\ \/ r.del /\ pc' = "finalize"
           \/ ~r.del /\ pc' = "addFinalizer"
           \/ ~r.del /\ r.fin /\ pc' = "persist"
    BY <1>2 DEF Start, EnterPhase
  <2>2. CoreTypeOK'
    BY <2>1, Phases DEF FInv, CoreTypeOK, PCs
  <2>3. \A d \in CRs : Behind(d)'
    BY <2>1 DEF FInv, Behind
  <2>4. r.uid \in Nat
    BY DEF FInv, CoreTypeOK, Resource
  <2>5. JobBehind'
    BY <2>1, <2>4 DEF JobBehind
  <2>6. FinalizerHeld'
    BY <2>1, Phases DEF FInv, Behind, FinalizerHeld
  <2> QED
    BY <2>2, <2>3, <2>5, <2>6 DEF FInv
<1> QED
  BY <1>1, <1>2

\* The finalizer is only added to the copy that is stored.
LEMMA FInvAdd == AddFinalizer /\ FInv => FInv'
<1> SUFFICES ASSUME AddFinalizer, FInv PROVE FInv'  OBVIOUS
<1> USE Phases DEF FInv
<1>1. CASE ~CopyIsCurrent
  BY <1>1, ReturnIsPassive, PassiveKeeps DEF AddFinalizer, ReturnError
<1>2. CASE CopyIsCurrent
  <2> DEFINE j == job.cr
  <2>1. /\ utsa' = [utsa EXCEPT ![j].fin = TRUE] /\ job' = [job EXCEPT !.obj.fin = TRUE]
        /\ pc' = "persist" /\ at' = 1 /\ seenUtsa' = seenUtsa
        /\ pc = "addFinalizer" /\ utsa[j] = job.obj /\ j \in CRs
    BY <1>2 DEF AddFinalizer, EnterPhase, CopyIsCurrent, CoreTypeOK
  <2>2. CoreTypeOK'
    <3>1. job.obj \in Resource /\ utsa[j] \in Resource
      BY <2>1 DEF CoreTypeOK
    <3>2. [job.obj EXCEPT !.fin = TRUE] \in Resource
      BY <3>1 DEF Resource
    <3>3. utsa' \in [CRs -> Resource] /\ job' \in [cr : CRs, obj : Resource]
      BY <2>1, <3>2 DEF CoreTypeOK
    <3> QED
      BY <2>1, <3>3 DEF CoreTypeOK, PCs
  <2>3. \A c \in CRs : Behind(c)'
    BY <2>1 DEF CoreTypeOK, Resource, Behind
  <2>4. JobBehind'
    BY <2>1 DEF CoreTypeOK, Resource, JobBehind
  <2>5. FinalizerHeld'
    BY <2>1 DEF CoreTypeOK, Resource, JobBehind, FinalizerHeld
  <2> QED
    BY <2>2, <2>3, <2>4, <2>5
<1> QED
  BY <1>1, <1>2

\* The finalizer is only removed from an incarnation the cache, too, shows as
\* being deleted: Reconcile cannot be started for it any more.
LEMMA FInvRemove == RemoveFinalizer /\ FInv => FInv'
<1> SUFFICES ASSUME RemoveFinalizer, FInv PROVE FInv'  OBVIOUS
<1> USE Phases DEF FInv
<1>1. CASE ~(CopyIsCurrent /\ ~failed)
  BY <1>1, ReturnIsPassive, PassiveKeeps DEF RemoveFinalizer, ReturnError
<1>2. CASE CopyIsCurrent /\ ~failed
  <2> DEFINE j == job.cr
  <2>1. /\ utsa' = [utsa EXCEPT ![j].fin = FALSE, ![j].live = FALSE] /\ job' = NoJob
        /\ pc' = "idle" /\ at' = 1 /\ seenUtsa' = seenUtsa
        /\ pc = "finalize" /\ utsa[j] = job.obj /\ j \in CRs
    BY <1>2 DEF RemoveFinalizer, ReturnNil, Forget, CopyIsCurrent, CoreTypeOK
  <2>2. CoreTypeOK'
    <3>1. [job.obj EXCEPT !.fin = FALSE, !.live = FALSE] \in Resource
      BY <2>1 DEF CoreTypeOK, Resource
    <3>2. utsa' \in [CRs -> Resource]
      BY <2>1, <3>1 DEF CoreTypeOK
    <3> QED
      BY <2>1, <3>2, NothingYet DEF CoreTypeOK, PCs
  <2>3. seenUtsa[j].del
    <3>1. seenUtsa[j].uid \in Nat /\ utsa[j].uid \in Nat
      BY <2>1 DEF CoreTypeOK, Resource
    <3>2. seenUtsa[j].uid = job.obj.uid
      BY <2>1, <3>1 DEF JobBehind, Behind
    <3> QED
      BY <2>1, <3>2 DEF JobBehind
  <2>4. \A c \in CRs : Behind(c)'
    BY <2>1, <2>3 DEF CoreTypeOK, Resource, Behind
  <2>5. JobBehind' /\ FinalizerHeld'
    BY <2>1 DEF JobBehind, FinalizerHeld
  <2> QED
    BY <2>2, <2>4, <2>5
<1> QED
  BY <1>1, <1>2

\* Users cannot take the finalizer away, and cannot create a CR that is still there.
LEMMA FInvUsers == Users /\ FInv => FInv'
<1> SUFFICES ASSUME Users, FInv PROVE FInv'  OBVIOUS
<1> USE Phases DEF FInv
<1>1. UNCHANGED <<job, pc, at, seenUtsa>>
  BY DEF Users, workerVars, UserCreate, UserEdit, UserDelete
<1>2. ASSUME NEW c \in CRs, NEW s \in Specs[c], UserCreate(c, s)
      PROVE  FInv'
  <2>1. s \in AllSpecs
    BY DEF AllSpecs
  <2>2. CoreTypeOK'
    BY <1>1, <1>2, <2>1, ClusterAssumption DEF UserCreate, CoreTypeOK, Resource
  <2>3. \A d \in CRs : Behind(d)'
    BY <1>1, <1>2 DEF UserCreate, CoreTypeOK, Resource, Behind
  <2>4. JobBehind' /\ FinalizerHeld'
    BY <1>1, <1>2 DEF UserCreate, CoreTypeOK, Resource, JobBehind, FinalizerHeld
  <2> QED
    BY <2>2, <2>3, <2>4
<1>3. ASSUME NEW c \in CRs, NEW s \in Specs[c], UserEdit(c, s)
      PROVE  FInv'
  <2>1. s \in AllSpecs
    BY DEF AllSpecs
  <2>2. CoreTypeOK'
    BY <1>1, <1>3, <2>1, ClusterAssumption DEF UserEdit, CoreTypeOK, Resource
  <2>3. \A d \in CRs : Behind(d)'
    BY <1>1, <1>3 DEF UserEdit, CoreTypeOK, Resource, Behind
  <2>4. JobBehind' /\ FinalizerHeld'
    BY <1>1, <1>3 DEF UserEdit, CoreTypeOK, Resource, JobBehind, FinalizerHeld
  <2> QED
    BY <2>2, <2>3, <2>4
<1>4. ASSUME NEW c \in CRs, UserDelete(c)
      PROVE  FInv'
  <2>1. CoreTypeOK'
    BY <1>1, <1>4 DEF UserDelete, CoreTypeOK, Resource
  <2>2. \A d \in CRs : Behind(d)'
    BY <1>1, <1>4 DEF UserDelete, CoreTypeOK, Resource, Behind
  <2>3. JobBehind' /\ FinalizerHeld'
    BY <1>1, <1>4 DEF UserDelete, CoreTypeOK, Resource, JobBehind, FinalizerHeld
  <2> QED
    BY <2>1, <2>2, <2>3
<1> QED
  BY <1>2, <1>3, <1>4 DEF Users

\* The informer learns of the CRs, from the API server, at any time.
LEMMA FInvObserve ==
    ASSUME FInv, seenUtsa' = utsa, utsa' = utsa,
           UNCHANGED <<job, pc, at>> \/ Forget
    PROVE  FInv'
<1> USE Phases DEF FInv
<1>1. CoreTypeOK'
  BY NothingYet DEF CoreTypeOK, Forget, PCs
<1>2. \A c \in CRs : Behind(c)'
  BY DEF CoreTypeOK, Resource, Behind
<1>3. JobBehind' /\ FinalizerHeld'
  <2>1. CASE Forget
    BY <2>1 DEF Forget, JobBehind, FinalizerHeld
  <2>2. CASE UNCHANGED <<job, pc, at>>
    <3>1. JobBehind'
      BY <2>2 DEF CoreTypeOK, Resource, JobBehind, Behind
    <3>2. FinalizerHeld'
      BY <2>2 DEF FinalizerHeld
    <3> QED
      BY <3>1, <3>2
  <2> QED
    BY <2>1, <2>2
<1> QED
  BY <1>1, <1>2, <1>3

\* Every step keeps the invariant.
LEMMA FInvNext == FInv /\ [Next]_vars => FInv'
<1> SUFFICES ASSUME FInv, [Next]_vars PROVE FInv'  OBVIOUS
<1>1. ASSUME NEW c \in CRs, Start(c)
      PROVE  FInv'
  BY <1>1, FInvStart
<1>2. CASE Step
  BY <1>2, FInvAdd, FInvRemove, StepIsPassive, PassiveKeeps
<1>3. CASE Users
  BY <1>3, FInvUsers
<1>4. CASE Caches
  <2>1. CASE Observe
    BY <1>4, <2>1, FInvObserve DEF Caches, Observe, workerVars
  <2>2. ASSUME NEW k \in Kinds, CatchUp(k)
        PROVE  Passive
    BY <1>4, <2>2 DEF Caches, CatchUp, workerVars, Passive, FInv, CoreTypeOK
  <2> QED
    BY <1>4, <2>1, <2>2, PassiveKeeps DEF Caches
<1>5. CASE Background
  <2>1. UNCHANGED <<utsa, seenUtsa, job, pc, at>>
    BY <1>5 DEF Background, Resync, GarbageCollect, workerVars
  <2> QED
    BY <2>1, PassiveKeeps DEF Passive, FInv, CoreTypeOK
<1>6. CASE Trouble
  <2>1. CASE CallFails
    BY <2>1, ReturnIsPassive, PassiveKeeps DEF CallFails, ReturnError
  <2>2. CASE Restart
    BY <2>2, FInvObserve DEF Restart
  <2> QED
    BY <1>6, <2>1, <2>2 DEF Trouble
<1>7. CASE UNCHANGED vars
  BY <1>7, PassiveKeeps DEF vars, clusterVars, workerVars, Passive, FInv, CoreTypeOK
<1> QED
  BY <1>1, <1>2, <1>3, <1>4, <1>5, <1>6, <1>7 DEF Next

\* Reconcile (controller.go:101-203) never grants anything for a CR whose stored
\* incarnation is gone, was replaced, or does not hold the finalizer.
THEOREM FinalizerIsHeld == Spec => []FinalizerHeld
<1>1. FInv => FinalizerHeld
  BY DEF FInv
<1> QED
  BY <1>1, FInvInit, FInvNext, PTL DEF Spec
=============================================================================
