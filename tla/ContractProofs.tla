--------------------------- MODULE ContractProofs ---------------------------
(***************************************************************************)
(* The operator implements TeamAccess when the cache of policies does not  *)
(* lag: every step of it, seen through AccessContract, is one of TeamAccess *)
(* or none.                                                                 *)
(***************************************************************************)
EXTENDS CleanupProofs, AccessContract

\* What Start found in the copy of the CR that the worker adds the finalizer to, or
\* runs the finalizer for.
JobStage ==
    /\ pc = "addFinalizer" => ~job.obj.del
    /\ pc = "finalize" => job.obj.fin

KInv == CInv /\ JobStage

\* A passive step keeps what Start found.
LEMMA JobStagePassive ==
    ASSUME JobStage, Passive
    PROVE  JobStage'
BY Phases DEF JobStage, Passive

\* Every step keeps the invariant.
LEMMA KInvNext ==
    ASSUME "AP" \notin Lagging, KInv, [Next]_vars
    PROVE  KInv'
<1>1. SUFFICES JobStage'
  BY CInvNext DEF KInv
<1>2. ASSUME UNCHANGED <<pc, job>>
      PROVE  JobStage'
  BY <1>2 DEF KInv, JobStage
<1>3. ASSUME pc' \in {"idle", "persist"}
      PROVE  JobStage'
  BY <1>3 DEF JobStage
<1>4. ASSUME NEW c \in CRs, Start(c)
      PROVE  JobStage'
  <2>1. CASE UNCHANGED workerVars
    BY <1>2, <2>1 DEF workerVars
  <2>2. CASE ~UNCHANGED workerVars
    BY <1>4, <2>2 DEF Start, EnterPhase, JobStage
  <2> QED
    BY <2>1, <2>2
<1>5. CASE AddFinalizer \/ RemoveFinalizer \/ Trouble
  BY <1>3, <1>5 DEF AddFinalizer, RemoveFinalizer, Trouble, CallFails, Restart,
     EnterPhase, ReturnNil, ReturnError, Forget
<1>6. CASE Step /\ ~AddFinalizer /\ ~RemoveFinalizer
  BY <1>6, StepIsPassive, JobStagePassive DEF KInv, CInv, TInv, GInv
<1>7. CASE Users \/ Caches \/ Background \/ UNCHANGED vars
  BY <1>2, <1>7 DEF Users, Caches, Background, vars, workerVars
<1> QED
  BY <1>4, <1>5, <1>6, <1>7 DEF Next

-----------------------------------------------------------------------------
(* What TeamAccess sees of a step.                                          *)

\* It sees the CRs, the objects and the history, and nothing else.
LEMMA Unseen ==
    ASSUME UNCHANGED <<utsa, api, history>>
    PROVE  UNCHANGED Promise!vars
BY DEF Promise!vars, Promise!access, StageNow, WishNow, IdentitiesNow, ReachNow, RoutesNow

\* Objects are all it sees of the access that is given.
LEMMA AccessUnseen ==
    ASSUME UNCHANGED api
    PROVE  UNCHANGED Promise!access
BY DEF Promise!access, IdentitiesNow, ReachNow, RoutesNow

\* A step that stores one CR anew moves one team.
LEMMA OneTeamMoves ==
    ASSUME CoreTypeOK, NEW c \in CRs, NEW r, utsa' = [utsa EXCEPT ![c] = r]
    PROVE  /\ StageNow' = [StageNow EXCEPT ![c] = StageOf(r)]
           /\ WishNow' = [WishNow EXCEPT ![c] = r.spec]
<1>1. utsa'[c] = r /\ \A d \in CRs : d # c => utsa'[d] = utsa[d]
  BY DEF CoreTypeOK
<1>2. StageNow' = [StageNow EXCEPT ![c] = StageOf(r)]
  BY <1>1 DEF StageNow, StageOf
<1>3. WishNow' = [WishNow EXCEPT ![c] = r.spec]
  <2>1. \A d \in CRs : utsa'[d].spec = IF d = c THEN r.spec ELSE utsa[d].spec
    BY <1>1
  <2>2. WishNow' = [d \in CRs |-> IF d = c THEN r.spec ELSE utsa[d].spec]
    BY <2>1 DEF WishNow
  <2> QED
    BY <2>2 DEF WishNow
<1> QED
  BY <1>2, <1>3

\* A step that keeps what the CR wishes moves its stage only.
LEMMA OneStageMoves ==
    ASSUME CoreTypeOK, NEW c \in CRs, NEW r, utsa' = [utsa EXCEPT ![c] = r],
           r.spec = utsa[c].spec
    PROVE  /\ StageNow' = [StageNow EXCEPT ![c] = StageOf(r)]
           /\ WishNow' = WishNow
<1>1. [WishNow EXCEPT ![c] = r.spec] = WishNow
  BY DEF WishNow
<1> QED
  BY <1>1, OneTeamMoves

\* A step that only takes objects away is a move, whoever is held.
LEMMA ShrinkMoves ==
    ASSUME UNCHANGED <<utsa, history>>, \A k \in Kinds : api'[k] \subseteq api[k]
    PROVE  Promise!Move
<1>1. IdentitiesNow' \subseteq IdentitiesNow
  BY DEF IdentitiesNow, Kinds
<1>2. ReachNow' \subseteq ReachNow
  BY DEF ReachNow, Kinds
<1>3. RoutesNow' \subseteq RoutesNow
  BY DEF RoutesNow, Kinds
<1>4. UNCHANGED <<StageNow, WishNow, history>>
  BY DEF StageNow, WishNow
<1> QED
  BY <1>1, <1>2, <1>3, <1>4 DEF Promise!Move

\* Access that is recorded may be given while some CR is held.
LEMMA RecordedMoves ==
    ASSUME AllRecorded', UNCHANGED <<utsa, history>>, NEW c \in CRs,
           utsa[c].live /\ utsa[c].fin
    PROVE  Promise!Move
<1>1. ASSUME NEW i \in IdentitiesNow'
      PROVE  Promise!MayBe(i)
  <2>1. PICK k \in {"SA", "GSA", "PM"} : \E o \in api'[k] : i = <<o.env, o.sa>>
    BY DEF IdentitiesNow
  <2>2. PICK o \in api'[k] : i = <<o.env, o.sa>>
    BY <2>1
  <2>3. Recorded(k, o)'
    BY DEF AllRecorded, Kinds
  <2>4. PICK row \in history : row.env = o.env /\ row.sa = o.sa
    BY <2>3 DEF Recorded, RowsOf
  <2> QED
    BY <2>2, <2>4 DEF Promise!MayBe
<1>2. ASSUME NEW r \in ReachNow'
      PROVE  Promise!MayReach(r)
  <2>1. PICK ap \in api'["AP"] : r = <<ap.env, ap.sa, ap.parent>>
    BY DEF ReachNow
  <2>2. Recorded("AP", ap)'
    BY DEF AllRecorded, Kinds
  <2>3. PICK row \in history :
           /\ row.env = ap.env /\ row.sa = ap.sa
           /\ ap.parent \in row.entry.ext \cup row.entry.sql \cup row.entry.int
    BY <2>2 DEF Recorded, RowsOf
  <2> QED
    BY <2>1, <2>3 DEF Promise!MayReach
<1>3. ASSUME NEW h \in RoutesNow'
      PROVE  Promise!MayRoute(h)
  <2>1. PICK k \in {"VS", "DR", "SE"} : \E o \in api'[k] : h = o.host
    BY DEF RoutesNow
  <2>2. PICK o \in api'[k] : h = o.host
    BY <2>1
  <2>3. Recorded(k, o)'
    BY DEF AllRecorded, Kinds
  <2> QED
    BY <2>2, <2>3 DEF Recorded, Promise!MayRoute
<1>4. Promise!Working(c)
  BY DEF Promise!Working, StageNow, StageOf
<1>5. UNCHANGED <<StageNow, WishNow, history>>
  BY DEF StageNow, WishNow
<1> QED
  BY <1>1, <1>2, <1>3, <1>4, <1>5 DEF Promise!Move

-----------------------------------------------------------------------------
(* The steps.                                                               *)

\* Initially no CR is stored and nothing is given.
LEMMA ContractInit == Init => Promise!Init
<1> SUFFICES ASSUME Init PROVE Promise!Init  OBVIOUS
<1>1. \A c \in CRs : ~utsa[c].live /\ utsa[c].spec \in Specs[c]
  BY ClusterAssumption DEF Init, ClusterInit
<1>2. StageNow = [c \in CRs |-> "absent"]
  BY <1>1 DEF StageNow, StageOf
<1>3. WishNow \in [CRs -> UNION {Specs[c] : c \in CRs}]
  BY <1>1 DEF WishNow
<1>4. api = [k \in Kinds |-> IF k = "GW" THEN InitialGateways ELSE {}] /\ history = {}
  BY DEF Init, ClusterInit, HistoryInit
<1>5. \A k \in Kinds \ {"GW"} : api[k] = {}
  BY <1>4
<1>6. IdentitiesNow = {} /\ ReachNow = {} /\ RoutesNow = {}
  BY <1>5 DEF IdentitiesNow, ReachNow, RoutesNow, Kinds
<1> QED
  BY <1>2, <1>3, <1>4, <1>6 DEF Promise!Init

\* The users are the teams.
LEMMA ContractUsers ==
    ASSUME KInv, Users
    PROVE  Promise!Next
<1> USE DEF KInv, CInv, TInv, GInv, FInv
<1>1. history' = history /\ UNCHANGED Promise!access
  BY AccessUnseen DEF Users, UserCreate, UserEdit, UserDelete
<1>2. \A c \in CRs : utsa[c] \in Resource
  BY DEF CoreTypeOK
<1>3. ASSUME NEW c \in CRs, NEW s \in Specs[c], UserCreate(c, s)
      PROVE  Promise!Submit(c, s)
  <2> DEFINE r == [live |-> TRUE, uid |-> utsa[c].uid + 1, gen |-> 0, spec |-> s,
                   del |-> FALSE, fin |-> FALSE]
  <2>1. utsa' = [utsa EXCEPT ![c] = r] /\ ~utsa[c].live
    BY <1>3 DEF UserCreate, CoreTypeOK
  <2>2. StageOf(r) = "submitted" /\ r.spec = s /\ StageNow[c] = "absent"
    BY <2>1 DEF StageOf, StageNow
  <2> HIDE DEF r
  <2> QED
    BY <1>1, <2>1, <2>2, OneTeamMoves DEF Promise!Submit
<1>4. ASSUME NEW c \in CRs, NEW s \in Specs[c], UserEdit(c, s)
      PROVE  Promise!Change(c, s)
  <2> DEFINE r == [utsa[c] EXCEPT !.spec = s, !.gen = @ + 1]
  <2>1. utsa' = [utsa EXCEPT ![c] = r] /\ utsa[c].live
    BY <1>4 DEF UserEdit
  <2>2. r.spec = s /\ r.live = utsa[c].live /\ r.fin = utsa[c].fin /\ r.del = utsa[c].del
    BY <1>2 DEF Resource
  <2> HIDE DEF r
  <2>3. StageOf(r) = StageNow[c] /\ StageNow[c] # "absent"
    BY <2>1, <2>2 DEF StageOf, StageNow
  <2>4. [StageNow EXCEPT ![c] = StageOf(r)] = StageNow
    BY <2>3 DEF StageNow
  <2> QED
    BY <1>1, <2>1, <2>2, <2>3, <2>4, OneTeamMoves DEF Promise!Change
<1>5. ASSUME NEW c \in CRs, UserDelete(c)
      PROVE  Promise!Withdraw(c)
  <2>1. utsa[c].live /\ ~utsa[c].del
    BY <1>5 DEF UserDelete
  <2>2. CASE utsa[c].fin
    <3> DEFINE r == [utsa[c] EXCEPT !.del = TRUE]
    <3>1. utsa' = [utsa EXCEPT ![c] = r]
      BY <1>5, <2>2 DEF UserDelete
    <3>2. r.live /\ r.fin /\ r.del /\ r.spec = utsa[c].spec
      BY <1>2, <2>1, <2>2 DEF Resource
    <3> HIDE DEF r
    <3>3. StageOf(r) = "leaving" /\ StageNow[c] = "held"
      BY <2>1, <2>2, <3>2 DEF StageOf, StageNow
    <3> QED
      BY <1>1, <3>1, <3>2, <3>3, OneStageMoves DEF Promise!Withdraw
  <2>3. CASE ~utsa[c].fin
    <3> DEFINE r == [utsa[c] EXCEPT !.live = FALSE]
    <3>1. utsa' = [utsa EXCEPT ![c] = r]
      BY <1>5, <2>3 DEF UserDelete
    <3>2. ~r.live /\ r.spec = utsa[c].spec
      BY <1>2 DEF Resource
    <3> HIDE DEF r
    <3>3. StageOf(r) = "absent" /\ StageNow[c] = "submitted"
      BY <2>1, <2>3, <3>2 DEF StageOf, StageNow
    <3> QED
      BY <1>1, <3>1, <3>2, <3>3, OneStageMoves DEF Promise!Withdraw
  <2> QED
    BY <2>2, <2>3
<1>6. ASSUME NEW c \in CRs,
             (\E s \in Specs[c] : UserCreate(c, s) \/ UserEdit(c, s)) \/ UserDelete(c)
      PROVE  (\E s \in Specs[c] : Promise!Submit(c, s) \/ Promise!Change(c, s))
             \/ Promise!Withdraw(c)
  BY <1>3, <1>4, <1>5, <1>6
<1> QED
  BY <1>6 DEF Users, Promise!Next

\* The finalizer marks that a CR is held.
LEMMA ContractAdd ==
    ASSUME KInv, AddFinalizer
    PROVE  UNCHANGED Promise!vars \/ Promise!Next
<1> USE DEF KInv, CInv, TInv, GInv, FInv
<1> DEFINE c == job.cr
           r == [utsa[c] EXCEPT !.fin = TRUE]
<1>1. history' = history /\ api' = api
  BY DEF AddFinalizer, ReadOnly
<1>2. CASE utsa' = utsa
  BY <1>1, <1>2, Unseen
<1>3. CASE utsa' # utsa
  <2>1. /\ utsa' = [utsa EXCEPT ![c] = r] /\ utsa[c] = job.obj
        /\ pc = "addFinalizer"
    BY <1>3 DEF AddFinalizer, CopyIsCurrent
  <2>2. c \in CRs /\ utsa[c] \in Resource
    BY DEF CoreTypeOK
  <2>3. utsa[c].live /\ ~utsa[c].del
    BY <2>1 DEF JobBehind, JobStage
  <2>4. r.live /\ r.fin /\ ~r.del /\ r.spec = utsa[c].spec
    BY <2>2, <2>3 DEF Resource
  <2> HIDE DEF r
  <2>5. StageOf(r) = "held" /\ StageNow[c] \in {"submitted", "held"}
    BY <2>2, <2>3, <2>4 DEF StageOf, StageNow
  <2>6. StageNow' = [StageNow EXCEPT ![c] = "held"] /\ WishNow' = WishNow
    <3>1. CoreTypeOK
      OBVIOUS
    <3> HIDE DEF c, KInv
    <3>2. StageNow' = [StageNow EXCEPT ![c] = StageOf(r)] /\ WishNow' = WishNow
      BY <2>1, <2>2, <2>4, <3>1, OneStageMoves
    <3> QED
      BY <2>5, <3>2
  <2>7. UNCHANGED Promise!access
    BY <1>1, AccessUnseen
  <2>8. CASE StageNow[c] = "submitted"
    BY <1>1, <2>2, <2>6, <2>7, <2>8 DEF Promise!Hold, Promise!Next
  <2>9. CASE StageNow[c] = "held"
    <3>1. StageNow' = StageNow
      BY <2>6, <2>9 DEF StageNow
    <3> QED
      BY <1>1, <2>6, <2>7, <3>1 DEF Promise!vars
  <2> QED
    BY <2>5, <2>8, <2>9
<1> QED
  BY <1>2, <1>3

\* A CR that loses its finalizer is let go, and its policies are gone by then.
LEMMA ContractRemove ==
    ASSUME KInv, RemoveFinalizer, CleanWhenReleased
    PROVE  UNCHANGED Promise!vars \/ Promise!Next
<1> USE DEF KInv, CInv, TInv, GInv, FInv
<1> DEFINE c == job.cr
           r == [utsa[c] EXCEPT !.fin = FALSE, !.live = FALSE]
<1>1. history' = history /\ api' = api
  BY DEF RemoveFinalizer, ReadOnly
<1>2. CASE utsa' = utsa
  BY <1>1, <1>2, Unseen
<1>3. CASE utsa' # utsa
  <2>1. utsa' = [utsa EXCEPT ![c] = r] /\ utsa[c] = job.obj /\ pc = "finalize"
    BY <1>3 DEF RemoveFinalizer, CopyIsCurrent, CoreTypeOK
  <2>2. c \in CRs /\ utsa[c] \in Resource
    BY DEF CoreTypeOK
  <2>3. utsa[c].live /\ utsa[c].del /\ utsa[c].fin
    BY <2>1 DEF JobBehind, JobStage
  <2>4. ~r.live /\ ~r.fin /\ r.spec = utsa[c].spec
    BY <2>2 DEF Resource
  <2> HIDE DEF r
  <2>5. StageOf(r) = "absent" /\ StageNow[c] = "leaving"
    BY <2>2, <2>3, <2>4 DEF StageOf, StageNow
  <2>6. StageNow' = [StageNow EXCEPT ![c] = "absent"] /\ WishNow' = WishNow
    <3>1. CoreTypeOK
      OBVIOUS
    <3> HIDE DEF c, KInv
    <3>2. StageNow' = [StageNow EXCEPT ![c] = StageOf(r)] /\ WishNow' = WishNow
      BY <2>1, <2>2, <2>4, <3>1, OneStageMoves
    <3> QED
      BY <2>5, <3>2
  <2>7. UNCHANGED Promise!access
    BY <1>1, AccessUnseen
  <2>8. \A x \in ReachNow : x[1] = WishNow[c].env => x[2] \notin DOMAIN WishNow[c].sas
    <3>1. utsa'[c] = r
      BY <2>1, <2>2 DEF CoreTypeOK
    <3>2. \A ap \in api["AP"] : ap.env = utsa[c].spec.env
                                   => ap.sa \notin DOMAIN utsa[c].spec.sas
      BY <2>2, <2>3, <2>4, <3>1 DEF CleanWhenReleased
    <3>3. WishNow[c] = utsa[c].spec
      BY <2>2 DEF WishNow
    <3> QED
      BY <3>2, <3>3 DEF ReachNow
  <2> QED
    BY <1>1, <2>2, <2>5, <2>6, <2>7, <2>8 DEF Promise!Release, Promise!Next
<1> QED
  BY <1>2, <1>3

\* While a phase after the finalizer's runs, its CR is held.
LEMMA ContractPersist ==
    ASSUME KInv, NEW s \in todo, PersistAllowlist(s)
    PROVE  Promise!Next
<1> USE DEF KInv, CInv, TInv, GInv, FInv
<1>1. /\ pc = "persist" /\ history' = history \cup {Row(s)}
      /\ UNCHANGED <<utsa, api>>
  BY DEF PersistAllowlist, ReadOnly
<1>2. job.cr \in CRs /\ utsa[job.cr].live /\ utsa[job.cr].fin
  BY <1>1, Phases DEF FinalizerHeld, CoreTypeOK
<1>3. Promise!Working(job.cr)
  BY <1>2 DEF Promise!Working, StageNow, StageOf
<1>4. spec \in AllSpecs /\ s \in DOMAIN spec.sas
  BY <1>1, JobTypes DEF RowsFirst, Listed
<1>5. Row(s) \in Promise!Entries(spec)
  BY <1>4 DEF Row, Promise!Entries
<1>6. UNCHANGED <<StageNow, WishNow>> /\ UNCHANGED Promise!access
  BY <1>1, AccessUnseen DEF StageNow, WishNow
<1> QED
  BY <1>1, <1>2, <1>3, <1>4, <1>5, <1>6 DEF AllSpecs, Promise!Record, Promise!Next

\* The other steps of Reconcile give and take access.
LEMMA ContractStep ==
    ASSUME KInv, AllRecorded', Step, ~AddFinalizer, ~RemoveFinalizer,
           ~\E s \in todo : PersistAllowlist(s)
    PROVE  Promise!Next
<1> USE DEF KInv, CInv, TInv, GInv, FInv
<1>1. utsa' = utsa
  BY StepIsPassive DEF Passive
<1>2. history' = history
  <2>1. CASE Advance \/ CleanupGateway
    BY <2>1 DEF Advance, CleanupGateway
  <2>2. ASSUME NEW x \in todo, IdentityStep(x) \/ HostStep(x) \/ PolicyStep(x)
        PROVE  history' = history
    BY <2>2, LoopFrame DEF CoreTypeOK, LoopKeeps
  <2> QED
    BY <2>1, <2>2 DEF Step
<1>3. CASE pc \in DOMAIN NextPhase
  <2>1. job.cr \in CRs /\ utsa[job.cr].live /\ utsa[job.cr].fin
    BY <1>3 DEF FinalizerHeld, CoreTypeOK
  <2> QED
    BY <1>1, <1>2, <2>1, RecordedMoves DEF Promise!Next
<1>4. CASE pc \notin DOMAIN NextPhase
  <2>1. PICK x : DeletePolicy(x)
    BY <1>4, OnlyDeletes
  <2>2. \A k \in Kinds : api'[k] \subseteq api[k]
    BY <2>1 DEF DeletePolicy, Write, Commit, ReadOnly
  <2> QED
    BY <1>1, <1>2, <2>2, ShrinkMoves DEF Promise!Next
<1> QED
  BY <1>3, <1>4

\* Every step is one of TeamAccess, or none.
LEMMA ContractNext ==
    ASSUME "AP" \notin Lagging, KInv, [Next]_vars
    PROVE  [Promise!Next]_Promise!vars
<1> USE DEF KInv, CInv
<1>1. AllRecorded'
  BY GInvNext DEF TInv, GInv
<1>2. CleanWhenReleased
  BY ReleaseStep
<1>3. CASE Step
  BY <1>1, <1>2, <1>3, ContractAdd, ContractRemove, ContractPersist, ContractStep
<1>4. CASE Users
  BY <1>4, ContractUsers
<1>5. ASSUME NEW k \in Kinds, GarbageCollect(k), history' = history
      PROVE  Promise!Next
  <2>1. utsa' = utsa /\ \A j \in Kinds : api'[j] \subseteq api[j]
    BY <1>5 DEF GarbageCollect, Write, Commit
  <2> QED
    BY <1>5, <2>1, ShrinkMoves DEF Promise!Next
<1>6. ASSUME NEW c \in CRs, Start(c)
      PROVE  UNCHANGED <<utsa, api, history>>
  BY <1>6 DEF Start, ReadOnly
<1>7. CASE Caches \/ Trouble \/ UNCHANGED vars
  <2>1. UNCHANGED <<utsa, api, history>>
    BY <1>7 DEF Caches, Observe, CatchUp, Trouble, CallFails, Restart, ReadOnly, vars,
       clusterVars
  <2> QED
    BY <2>1, Unseen
<1>8. CASE Background
  <2>1. ASSUME NEW c \in CRs, Resync(c)
        PROVE  UNCHANGED <<utsa, api>>
    BY <2>1 DEF Resync
  <2> QED
    BY <1>5, <1>8, <2>1, Unseen DEF Background
<1> QED
  BY <1>3, <1>4, <1>6, <1>7, <1>8, Unseen DEF Next

\* Reconcile and all that surrounds it (controller.go:64-172) implement TeamAccess, when
\* the cache of policies does not lag: for every set of CRs, specs and bounds, access
\* is only given as far as the history allows and while some CR is held, and a CR
\* is only let go when no policy of its accounts is left.
THEOREM OperatorKeepsPromise ==
    ASSUME "AP" \notin Lagging
    PROVE  Spec => Contract
<1>1. Init => KInv
  BY CInvInit DEF KInv, JobStage, Init, WorkerInit
<1>2. KInv /\ [Next]_vars => KInv'
  BY KInvNext
<1>3. Init => Promise!Init
  BY ContractInit
<1>4. KInv /\ [Next]_vars => [Promise!Next]_Promise!vars
  BY ContractNext
<1> QED
  BY <1>1, <1>2, <1>3, <1>4, PTL DEF Spec, Contract, Promise!Spec
=============================================================================
