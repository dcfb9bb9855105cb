--------------------------- MODULE SettledProofs ---------------------------
(***************************************************************************)
(* What a reconcile of a CR has cleaned up stays so until the CR is edited *)
(* or reconciled again, whatever the reconciles of the other CRs do.       *)
(***************************************************************************)
EXTENDS TypeProofs

\* Every CR has a name of its own, in whatever namespace it lives.  (The admission
\* rule compares names alone.)
UniqueNames == \A c, d \in CRs : CRName[c] = CRName[d] => c = d

\* Every CR lives in the namespace of its objects.
AllAtHome == \A c \in CRs : \A s \in Specs[c] : s.env = Home[c]

\* Every project and domain is that of one CR, by whatever arrangement of the teams.
OwnEnvs == \A c, d \in CRs : \A x \in Specs[c] : \A y \in Specs[d] : x.env = y.env => c = d

\* Any of these keeps two CRs from being for one project and domain.
OnePerPair == UniqueNames \/ AllAtHome \/ OwnEnvs

-----------------------------------------------------------------------------
(* What the worker may rely on, whatever it works on.                       *)

\* No two of these CRs are for one project and domain.
OneEach(crs) ==
    OnePerPair =>
        \A c, d \in CRs :
            crs[c].live /\ crs[d].live /\ crs[c].spec.env = crs[d].spec.env => c = d

OwnSpecs ==
    /\ \A c \in CRs : utsa[c].spec \in Specs[c] /\ seenUtsa[c].spec \in Specs[c]
    /\ spec \in Specs[job.cr]

\* The cache does not show an edit before it is made.
NotAhead == \A c \in CRs : seenUtsa[c].uid = utsa[c].uid => seenUtsa[c].gen <= utsa[c].gen

\* The cache still shows the spec the worker works on, or the CR is queued.
JobSeen ==
    pc # "idle" /\ job.cr \notin queue => seenUtsa[job.cr].live /\ seenUtsa[job.cr].spec = spec

\* Another CR for the worker's project and domain, that the cache has come to show
\* since, is waiting for its own reconcile.
Alone ==
    OnePerPair /\ pc # "idle" =>
        \A c \in CRs \ {job.cr} : seenUtsa[c].live /\ seenUtsa[c].spec.env = spec.env => c \in queue

Orderly ==
    OneEach(utsa) /\ OneEach(seenUtsa) /\ OwnSpecs /\ NotAhead /\ JobSeen /\ Alone

SInv == TInv /\ Orderly

\* No two CRs can be admitted for one project and domain.
LEMMA AdmittedAlone ==
    ASSUME OnePerPair, OwnSpecs,
           NEW c \in CRs, NEW s \in Specs[c], Admitted(c, s)
    PROVE  \A d \in CRs : utsa[d].live /\ utsa[d].spec.env = s.env => d = c
<1> SUFFICES ASSUME NEW d \in CRs, utsa[d].live, utsa[d].spec.env = s.env
             PROVE  d = c
  OBVIOUS
<1>1. CRName[d] = CRName[c]
  BY DEF Admitted
<1>2. CASE UniqueNames
  BY <1>1, <1>2 DEF UniqueNames
<1>3. CASE AllAtHome
  <2>1. Home[d] = Home[c]
    BY <1>3 DEF AllAtHome, OwnSpecs
  <2> QED
    BY <1>1, <2>1, ClusterAssumption
<1>4. CASE OwnEnvs
  BY <1>4 DEF OwnEnvs, OwnSpecs
<1> QED
  BY <1>2, <1>3, <1>4 DEF OnePerPair

-----------------------------------------------------------------------------
(* The steps that leave the CRs alone.                                      *)

\* The CRs and what the cache shows of them stay, and whoever is queued stays queued.
Quiet == Passive /\ queue \subseteq queue'

\* An idle worker has a spec of its CR, too.
LEMMA NothingListed == NoJob.cr \in CRs /\ NoJob.obj.spec \in Specs[NoJob.cr]
<1>1. NoJob.cr \in CRs /\ NoJob.obj.spec = CHOOSE s \in Specs[NoJob.cr] : TRUE
  BY WorkerAssumption DEF NoJob
<1> QED
  BY <1>1, ClusterAssumption

LEMMA QuietKeeps == Orderly /\ Quiet => Orderly'
<1> SUFFICES ASSUME Orderly, Quiet PROVE Orderly'  OBVIOUS
<1> USE DEF Orderly
<1>1. UNCHANGED <<utsa, seenUtsa>> /\ queue \subseteq queue'
  BY DEF Quiet, Passive
<1>2. \/ job' = job /\ (pc' # "idle" => pc # "idle")
      \/ job' = NoJob /\ pc' = "idle"
  BY Phases DEF Quiet, Passive
<1>3. OneEach(utsa)' /\ OneEach(seenUtsa)' /\ NotAhead'
  BY <1>1 DEF OneEach, NotAhead
<1>4. OwnSpecs'
  <2>1. CASE job' = job
    BY <1>1, <2>1 DEF OwnSpecs, spec
  <2>2. CASE job' = NoJob
    BY <1>1, <2>2, NothingListed DEF OwnSpecs, spec
  <2> QED
    BY <1>2, <2>1, <2>2
<1>5. JobSeen' /\ Alone'
  BY <1>1, <1>2 DEF JobSeen, Alone, spec
<1> QED
  BY <1>3, <1>4, <1>5

\* A call of Reconcile takes nothing off the queue.
LEMMA StepQueues ==
    ASSUME Step, at \in 1 .. 6
    PROVE  queue \subseteq queue'
<1>1. CASE AddFinalizer \/ RemoveFinalizer \/ Advance \/ CleanupGateway
  BY <1>1 DEF AddFinalizer, RemoveFinalizer, Advance, CleanupGateway, ReturnError, ReturnNil
<1>2. ASSUME NEW x, PersistAllowlist(x)
      PROVE  queue \subseteq queue'
  BY <1>2 DEF PersistAllowlist, DoneWith, DoneNoting
<1>3. ASSUME NEW x, IdentityStep(x) \/ HostStep(x) \/ PolicyStep(x)
      PROVE  queue \subseteq queue'
  BY <1>3, LoopFrame DEF ReturnError
<1> QED
  BY <1>1, <1>2, <1>3 DEF Step

\* Nor does what happens around it, apart from the informer of the CRs.
LEMMA AroundIsQuiet ==
    ASSUME FInv,
           \/ Caches /\ ~Observe
           \/ Background
           \/ CallFails
           \/ UNCHANGED vars
    PROVE  Quiet
<1>1. CASE Caches /\ ~Observe
  BY <1>1 DEF Caches, CatchUp, workerVars, Quiet, Passive, FInv, CoreTypeOK
<1>2. CASE Background
  BY <1>2 DEF Background, Resync, GarbageCollect, workerVars, Quiet, Passive, FInv, CoreTypeOK
<1>3. CASE CallFails
  BY <1>3, ReturnIsPassive DEF CallFails, ReturnError, Quiet
<1>4. CASE UNCHANGED vars
  BY <1>4 DEF vars, clusterVars, workerVars, Quiet, Passive, FInv, CoreTypeOK
<1> QED
  BY <1>1, <1>2, <1>3, <1>4

-----------------------------------------------------------------------------
(* The other steps.                                                         *)

LEMMA OrderlyInit == Init => Orderly
<1> SUFFICES ASSUME Init PROVE Orderly  OBVIOUS
<1>1. /\ seenUtsa = utsa /\ pc = "idle" /\ job = NoJob
      /\ \A c \in CRs : ~utsa[c].live /\ utsa[c].gen = 0
                       /\ utsa[c].spec = CHOOSE s \in Specs[c] : TRUE
  BY DEF Init, ClusterInit, WorkerInit
<1>2. OwnSpecs
  BY <1>1, NothingListed, ClusterAssumption DEF OwnSpecs, spec
<1> QED
  BY <1>1, <1>2 DEF Orderly, OneEach, NotAhead, JobSeen, Alone

\* Reconcile starts for a CR the cache shows, the only one for its pair there.
LEMMA OrderlyStart ==
    ASSUME SInv, NEW c \in CRs, Start(c)
    PROVE  Orderly'
<1> USE DEF SInv, Orderly
<1>1. UNCHANGED <<utsa, seenUtsa>> /\ pc = "idle" /\ queue' = queue \ {c}
  BY DEF Start
<1>2. OneEach(utsa)' /\ OneEach(seenUtsa)' /\ NotAhead'
  BY <1>1 DEF OneEach, NotAhead
<1>3. CASE UNCHANGED workerVars
  BY <1>1, <1>2, <1>3 DEF workerVars, OwnSpecs, JobSeen, Alone, spec
<1>4. CASE ~UNCHANGED workerVars
  <2>1. job' = [cr |-> c, obj |-> seenUtsa[c]] /\ seenUtsa[c].live
    BY <1>4 DEF Start
  <2>2. job'.cr = c /\ spec' = seenUtsa[c].spec
    BY <2>1 DEF spec
  <2>3. OwnSpecs' /\ JobSeen'
    BY <1>1, <2>1, <2>2 DEF OwnSpecs, JobSeen
  <2>4. Alone'
    BY <1>1, <2>1, <2>2 DEF Alone, OneEach
  <2> QED
    BY <1>2, <2>3, <2>4
<1> QED
  BY <1>3, <1>4

\* The finalizer changes neither the specs nor the uids.
LEMMA OrderlyFinalizer ==
    ASSUME SInv, AddFinalizer \/ RemoveFinalizer
    PROVE  Orderly'
<1> USE DEF SInv, TInv, GInv, FInv
<1>1. CASE utsa' = utsa /\ ReturnError
  <2>1. seenUtsa' = seenUtsa
    BY DEF AddFinalizer, RemoveFinalizer
  <2> QED
    BY <1>1, <2>1, ReturnIsPassive, QuietKeeps DEF ReturnError, Quiet
<1>2. CASE ~(utsa' = utsa /\ ReturnError)
  <2>1. /\ seenUtsa' = seenUtsa /\ queue' = queue /\ pc # "idle"
        /\ \/ job' = [job EXCEPT !.obj.fin = TRUE]
           \/ job' = NoJob /\ pc' = "idle"
        /\ \/ utsa' = [utsa EXCEPT ![job.cr].fin = TRUE]
           \/ utsa' = [utsa EXCEPT ![job.cr].fin = FALSE, ![job.cr].live = FALSE]
    BY <1>2 DEF AddFinalizer, RemoveFinalizer, ReturnNil, Forget
  <2>2. \A c \in CRs : /\ utsa'[c].spec = utsa[c].spec /\ utsa'[c].uid = utsa[c].uid
                       /\ utsa'[c].gen = utsa[c].gen /\ (utsa'[c].live => utsa[c].live)
    BY <2>1 DEF CoreTypeOK, Resource
  <2>3. OneEach(utsa)' /\ OneEach(seenUtsa)' /\ NotAhead'
    BY <2>1, <2>2 DEF Orderly, OneEach, NotAhead
  <2>4. CASE job' = [job EXCEPT !.obj.fin = TRUE]
    <3>1. job'.cr = job.cr /\ spec' = spec
      BY <2>4 DEF CoreTypeOK, Resource, spec
    <3>2. OwnSpecs' /\ JobSeen' /\ Alone'
      BY <2>1, <2>2, <3>1 DEF Orderly, OwnSpecs, JobSeen, Alone
    <3> QED
      BY <2>3, <3>2 DEF Orderly
  <2>5. CASE job' = NoJob /\ pc' = "idle"
    <3>1. OwnSpecs'
      BY <2>1, <2>2, <2>5, NothingListed DEF Orderly, OwnSpecs, spec
    <3> QED
      BY <2>3, <2>5, <3>1 DEF Orderly, JobSeen, Alone
  <2> QED
    BY <2>1, <2>4, <2>5
<1> QED
  BY <1>1, <1>2

\* Users only make and edit CRs the admission rule lets through.
LEMMA OrderlyUsers ==
    ASSUME SInv, Users
    PROVE  Orderly'
<1> USE DEF SInv, TInv, GInv, FInv
<1>1. UNCHANGED <<seenUtsa, queue, job, pc>>
  BY DEF Users, UserCreate, UserEdit, UserDelete, workerVars
<1>2. JobSeen' /\ Alone' /\ OneEach(seenUtsa)'
  BY <1>1 DEF Orderly, JobSeen, Alone, OneEach, spec
<1>3. ASSUME NEW c \in CRs, NEW s \in Specs[c], UserCreate(c, s) \/ UserEdit(c, s)
      PROVE  Orderly'
  <2>1. OnePerPair => \A d \in CRs : utsa[d].live /\ utsa[d].spec.env = s.env => d = c
    BY <1>3, AdmittedAlone DEF Orderly, UserCreate, UserEdit
  <2>2. /\ \A d \in CRs \ {c} : utsa'[d] = utsa[d]
        /\ utsa'[c].spec = s
        /\ \/ utsa'[c].uid = utsa[c].uid + 1
           \/ utsa'[c].uid = utsa[c].uid /\ utsa'[c].gen = utsa[c].gen + 1
    BY <1>3 DEF UserCreate, UserEdit, CoreTypeOK, Resource
  <2>3. OneEach(utsa)'
    BY <2>1, <2>2 DEF Orderly, OneEach
  <2>4. OwnSpecs'
    BY <1>1, <2>2 DEF Orderly, OwnSpecs, spec
  <2>5. NotAhead'
    BY <1>1, <2>2 DEF Orderly, NotAhead, Behind, CoreTypeOK, Resource
  <2> QED
    BY <1>2, <2>3, <2>4, <2>5 DEF Orderly
<1>4. ASSUME NEW c \in CRs, UserDelete(c)
      PROVE  Orderly'
  <2>1. \A d \in CRs : /\ utsa'[d].spec = utsa[d].spec /\ utsa'[d].uid = utsa[d].uid
                       /\ utsa'[d].gen = utsa[d].gen /\ (utsa'[d].live => utsa[d].live)
    BY <1>4 DEF UserDelete, CoreTypeOK, Resource
  <2> QED
    BY <1>1, <1>2, <2>1 DEF Orderly, OneEach, OwnSpecs, NotAhead, spec
<1> QED
  BY <1>3, <1>4 DEF Users

\* What the informer shows anew is queued.
LEMMA OrderlyObserve ==
    ASSUME SInv, Observe, UNCHANGED <<job, pc>>
    PROVE  Orderly'
<1> USE DEF SInv, TInv, GInv, FInv
<1>1. /\ seenUtsa' = utsa /\ utsa' = utsa
      /\ queue' = queue \cup {c \in CRs : seenUtsa[c] # utsa[c]}
  BY DEF Observe
<1>2. OneEach(utsa)' /\ OneEach(seenUtsa)' /\ OwnSpecs'
  BY <1>1 DEF Orderly, OneEach, OwnSpecs, spec
<1>3. NotAhead'
  BY <1>1 DEF NotAhead, CoreTypeOK, Resource
<1>4. JobSeen' /\ Alone'
  BY <1>1 DEF Orderly, JobSeen, Alone, CoreTypeOK, spec
<1> QED
  BY <1>2, <1>3, <1>4 DEF Orderly

LEMMA OrderlyRestart ==
    ASSUME SInv, Restart
    PROVE  Orderly'
<1> USE DEF SInv, TInv, GInv, FInv
<1>1. seenUtsa' = utsa /\ utsa' = utsa /\ pc' = "idle" /\ job' = NoJob
  BY DEF Restart, Forget
<1>2. OneEach(utsa)' /\ OneEach(seenUtsa)'
  BY <1>1 DEF Orderly, OneEach
<1>3. OwnSpecs'
  BY <1>1, NothingListed DEF Orderly, OwnSpecs, spec
<1>4. NotAhead'
  BY <1>1 DEF NotAhead, CoreTypeOK, Resource
<1> QED
  BY <1>1, <1>2, <1>3, <1>4 DEF Orderly, JobSeen, Alone

\* Every step keeps the order.
LEMMA SInvNext == SInv /\ [Next]_vars => SInv'
<1> SUFFICES ASSUME SInv, [Next]_vars PROVE Orderly'
  BY TInvNext DEF SInv
<1> USE DEF SInv, TInv, GInv, FInv
<1>1. ASSUME NEW c \in CRs, Start(c)
      PROVE  Orderly'
  BY <1>1, OrderlyStart
<1>2. CASE Step
  <2>1. CASE AddFinalizer \/ RemoveFinalizer
    BY <2>1, OrderlyFinalizer
  <2>2. CASE ~AddFinalizer /\ ~RemoveFinalizer
    BY <1>2, <2>2, StepIsPassive, StepQueues, QuietKeeps DEF Quiet, CoreTypeOK
  <2> QED
    BY <2>1, <2>2
<1>3. CASE Users
  BY <1>3, OrderlyUsers
<1>4. CASE Caches /\ Observe
  BY <1>4, OrderlyObserve DEF Caches, workerVars
<1>5. CASE Trouble /\ Restart
  BY <1>5, OrderlyRestart
<1>6. CASE \/ Caches /\ ~Observe
           \/ Background
           \/ CallFails
           \/ UNCHANGED vars
  BY <1>6, AroundIsQuiet, QuietKeeps
<1> QED
  BY <1>1, <1>2, <1>3, <1>4, <1>5, <1>6 DEF Next, Trouble

LEMMA SInvInit == Init => SInv
BY TInvInit, OrderlyInit DEF SInv

-----------------------------------------------------------------------------
(* Settled CRs.                                                             *)

\* The worker never works on the project and domain of a settled CR.
LEMMA SettledElsewhere ==
    ASSUME OnePerPair, SInv, NEW c \in CRs, Settled(c), pc # "idle"
    PROVE  utsa[c].spec.env # spec.env
BY DEF SInv, Orderly, Alone, Settled

\* Reconcile for c is about to return for good; nothing has queued c meanwhile.
Finishing(c) ==
    /\ pc = "cloudSQLGateway" /\ todo = {} /\ gw = None /\ ~failed
    /\ job.cr = c /\ c \notin queue
    /\ utsa[c].spec = spec /\ UNCHANGED api

\* A CR gets settled by the last step of its own reconcile only; before that it has
\* the same spec.
LEMMA SettledBefore ==
    ASSUME SInv, [Next]_vars, NEW c \in CRs, Settled(c)'
    PROVE  utsa'[c] = utsa[c] /\ (Settled(c) \/ Finishing(c))
<1> USE DEF SInv, TInv, GInv, FInv
<1>1. /\ utsa'[c].live /\ ~utsa'[c].del /\ seenUtsa'[c] = utsa'[c]
      /\ c \notin queue' /\ (pc' = "idle" \/ job'.cr # c)
  BY DEF Settled
<1>q. ASSUME UNCHANGED <<utsa, seenUtsa>>, queue \subseteq queue',
             UNCHANGED <<pc, job>> \/ pc = "idle" \/ job.cr # c
      PROVE  utsa'[c] = utsa[c] /\ Settled(c)
  BY <1>1, <1>q DEF Settled
<1>r. ASSUME ReturnError, UNCHANGED <<utsa, seenUtsa>>
      PROVE  utsa'[c] = utsa[c] /\ Settled(c)
  BY <1>1, <1>r, <1>q DEF ReturnError
<1>2. ASSUME NEW d \in CRs, Start(d)
      PROVE  utsa'[c] = utsa[c] /\ Settled(c)
  <2>1. UNCHANGED <<utsa, seenUtsa>> /\ pc = "idle" /\ queue' = queue \ {d}
    BY <1>2 DEF Start
  <2>2. c # d
    <3>1. CASE UNCHANGED workerVars
      BY <1>1, <1>2, <2>1, <3>1 DEF Start, EnterPhase, workerVars
    <3>2. CASE ~UNCHANGED workerVars
      <4>1. job'.cr = d /\ pc' \in {"finalize", "addFinalizer", "persist"}
        BY <1>2, <3>2 DEF Start, EnterPhase
      <4> QED
        BY <1>1, <4>1
    <3> QED
      BY <3>1, <3>2
  <2> QED
    BY <1>1, <2>1, <2>2 DEF Settled
<1>3. CASE Advance
  <2>1. UNCHANGED <<utsa, seenUtsa, api>>
    BY <1>3 DEF Advance, ReadOnly
  <2>2. CASE ReturnError
    BY <2>1, <2>2, <1>r
  <2>3. CASE ~ReturnError /\ pc' # "idle"
    <3>1. job' = job /\ queue' = queue
      BY <1>3, <2>3 DEF Advance, ReturnNil, Forget
    <3> QED
      BY <1>1, <2>1, <2>3, <3>1, <1>q
  <2>4. CASE ~ReturnError /\ pc' = "idle"
    <3>1. NextPhase[pc] = "idle" /\ ~failed /\ queue' = queue
      BY <1>3, <2>4 DEF Advance, EnterPhase, ReturnNil
    <3>2. pc = "cloudSQLGateway"
      BY <1>3, <3>1 DEF Advance, NextPhase
    <3>3. CASE job.cr = c
      BY <1>1, <1>3, <2>1, <3>1, <3>2, <3>3 DEF Finishing, Advance, Orderly, JobSeen
    <3>4. CASE job.cr # c
      BY <2>1, <3>1, <3>4, <1>q
    <3> QED
      BY <2>1, <3>3, <3>4
  <2> QED
    BY <2>2, <2>3, <2>4
<1>4. CASE AddFinalizer
  <2>1. CASE ReturnError
    BY <1>1, <1>4, <2>1 DEF AddFinalizer, ReturnError, Settled, CoreTypeOK
  <2>2. CASE ~ReturnError
    <3>1. /\ utsa' = [utsa EXCEPT ![job.cr].fin = TRUE] /\ UNCHANGED <<seenUtsa, queue>>
          /\ job' = [job EXCEPT !.obj.fin = TRUE] /\ pc' = "persist"
      BY <1>4, <2>2 DEF AddFinalizer, EnterPhase
    <3>2. job.cr # c
      BY <1>1, <3>1 DEF CoreTypeOK
    <3> QED
      BY <1>1, <3>1, <3>2 DEF Settled, CoreTypeOK
  <2> QED
    BY <2>1, <2>2
<1>5. CASE RemoveFinalizer
  <2>1. CASE ReturnError /\ utsa' = utsa
    BY <1>5, <2>1, <1>r DEF RemoveFinalizer
  <2>2. CASE ~(ReturnError /\ utsa' = utsa)
    <3>1. /\ utsa' = [utsa EXCEPT ![job.cr].fin = FALSE, ![job.cr].live = FALSE]
          /\ UNCHANGED <<seenUtsa, queue>>
      BY <1>5, <2>2 DEF RemoveFinalizer, ReturnNil
    <3>2. job.cr # c
      BY <1>1, <3>1 DEF CoreTypeOK, Resource
    <3>3. pc # "idle" /\ utsa'[c] = utsa[c]
      BY <1>5, <3>1, <3>2 DEF RemoveFinalizer, CoreTypeOK
    <3> QED
      BY <1>1, <3>1, <3>2, <3>3 DEF Settled
  <2> QED
    BY <2>1, <2>2
<1>6. CASE CleanupGateway
  <2>1. UNCHANGED <<utsa, seenUtsa>> /\ (ReturnError \/ UNCHANGED <<pc, job, queue>>)
    BY <1>6 DEF CleanupGateway
  <2> QED
    BY <2>1, <1>q, <1>r
<1>7. ASSUME NEW x, PersistAllowlist(x)
      PROVE  utsa'[c] = utsa[c] /\ Settled(c)
  <2>1. UNCHANGED <<utsa, seenUtsa, pc, job, queue>>
    BY <1>7 DEF PersistAllowlist, DoneWith, DoneNoting
  <2> QED
    BY <2>1, <1>q
<1>8. ASSUME NEW x, IdentityStep(x) \/ HostStep(x) \/ PolicyStep(x)
      PROVE  utsa'[c] = utsa[c] /\ Settled(c)
  <2>1. UNCHANGED <<utsa, seenUtsa>> /\ (ReturnError \/ UNCHANGED <<pc, job, queue>>)
    BY <1>8, LoopFrame DEF LoopKeeps, CoreTypeOK
  <2> QED
    BY <2>1, <1>q, <1>r
<1>9. CASE Users
  <2>1. UNCHANGED <<seenUtsa, queue, pc, job>>
    BY <1>9 DEF Users, UserCreate, UserEdit, UserDelete, workerVars
  <2>2. ASSUME NEW d \in CRs, NEW s \in Specs[d], UserCreate(d, s) \/ UserEdit(d, s)
        PROVE  utsa'[c] = utsa[c]
    <3>1. \A e \in CRs \ {d} : utsa'[e] = utsa[e]
      BY <2>2 DEF UserCreate, UserEdit, CoreTypeOK
    <3>2. \/ utsa'[d].uid = utsa[d].uid + 1
          \/ utsa'[d].uid = utsa[d].uid /\ utsa'[d].gen = utsa[d].gen + 1
      BY <2>2 DEF UserCreate, UserEdit, CoreTypeOK, Resource
    <3>3. utsa'[d] # seenUtsa[d]
      BY <3>2 DEF Orderly, NotAhead, Behind, CoreTypeOK, Resource
    <3> QED
      BY <1>1, <2>1, <3>1, <3>3
  <2>3. ASSUME NEW d \in CRs, UserDelete(d)
        PROVE  utsa'[c] = utsa[c]
    <3>1. \A e \in CRs \ {d} : utsa'[e] = utsa[e]
      BY <2>3 DEF UserDelete, CoreTypeOK
    <3>2. utsa'[d].del \/ ~utsa'[d].live
      BY <2>3 DEF UserDelete, CoreTypeOK, Resource
    <3> QED
      BY <1>1, <3>1, <3>2
  <2>4. utsa'[c] = utsa[c]
    BY <1>9, <2>2, <2>3 DEF Users
  <2> QED
    BY <1>1, <2>1, <2>4 DEF Settled
<1>10. CASE Caches /\ Observe
  <2>1. UNCHANGED <<utsa, pc, job>> /\ c \notin queue /\ seenUtsa[c] = utsa[c]
    BY <1>1, <1>10 DEF Caches, Observe, workerVars
  <2> QED
    BY <1>1, <2>1 DEF Settled
<1>11. CASE Restart
  BY <1>1, <1>11 DEF Restart
<1>12. CASE CallFails
  BY <1>12, <1>r DEF CallFails
<1>13. CASE (Caches /\ ~Observe) \/ Background \/ UNCHANGED vars
  <2>1. UNCHANGED <<utsa, seenUtsa, pc, job>> /\ queue \subseteq queue'
    BY <1>13 DEF Caches, CatchUp, Background, Resync, GarbageCollect, workerVars,
                 vars, clusterVars
  <2> QED
    BY <2>1, <1>q
<1> QED
  BY <1>2, <1>3, <1>4, <1>5, <1>6, <1>7, <1>8, <1>9, <1>10, <1>11, <1>12, <1>13
     DEF Next, Step, Trouble

-----------------------------------------------------------------------------
(* What a step writes.                                                      *)

\* A write changes the objects of its kind and no others.
LEMMA WriteEffect ==
    ASSUME StoreOK, NEW k \in Kinds, NEW objects, Write(k, objects)
    PROVE  api'[k] = objects /\ \A j \in Kinds \ {k} : api'[j] = api[j]
BY DEF Write, Commit, StoreOK

IdentityKinds == {"SA", "GSA", "PM"}

\* The calls for an identity write the kinds it is made of.
LEMMA IdentityWrites ==
    ASSUME StoreOK, NEW x, IdentityStep(x)
    PROVE  /\ pc \in {"serviceAccounts", "removeSAs", "removeSAsAgain"}
           /\ \A k \in Kinds \ IdentityKinds : api'[k] = api[k]
<1>1. ReadOnly \/ \E k \in IdentityKinds : \E objects : Write(k, objects)
  BY DEF IdentityStep, ReconcileIAMServiceAccount, ReconcileServiceAccount,
     CreateIAMPolicyMember, CleanupIAMPolicyMember, CleanupIAMServiceAccount,
     DeleteServiceAccount, IdentityKinds
<1>2. ASSUME NEW k \in IdentityKinds, NEW objects, Write(k, objects)
      PROVE  \A j \in Kinds \ IdentityKinds : api'[j] = api[j]
  BY <1>2, WriteEffect DEF IdentityKinds, Kinds
<1>3. pc \in {"serviceAccounts", "removeSAs", "removeSAsAgain"}
  BY DEF IdentityStep, ReconcileIAMServiceAccount, ReconcileServiceAccount,
     CreateIAMPolicyMember, CleanupIAMPolicyMember, CleanupIAMServiceAccount,
     DeleteServiceAccount, Removing
<1> QED
  BY <1>1, <1>2, <1>3 DEF ReadOnly

\* The calls for a host write the kinds of routes, or remove all that is labelled
\* with it.
LEMMA HostWrites ==
    ASSUME StoreOK, NEW x, HostStep(x)
    PROVE  /\ \A k \in IdentityKinds : api'[k] = api[k]
           /\ \/ /\ pc \in {"externalHosts", "cloudSQLHosts"} /\ ~RemoveExternalHost(x)
                 /\ api'["AP"] = api["AP"]
              \/ /\ pc \in {"externalGateway", "cloudSQLGateway"} /\ RemoveExternalHost(x)
                 /\ \A k \in Kinds : api'[k] \subseteq api[k]
<1>1. CASE RemoveExternalHost(x)
  <2>1. PICK failing \in SUBSET HostObjects(x) :
          Commit([k \in Kinds |-> api[k] \ UNION {Namesakes(k, y[2]) :
                     y \in {z \in HostObjects(x) \ failing : z[1] = k}}])
    BY <1>1 DEF RemoveExternalHost
  <2>2. \A k \in Kinds : api'[k] = api[k] \ UNION {Namesakes(k, y[2]) :
                             y \in {z \in HostObjects(x) \ failing : z[1] = k}}
    BY <2>1 DEF Commit
  <2>3. \A z \in HostObjects(x) : z[1] \in {"SE", "VS", "DR", "AP"}
    BY DEF HostObjects
  <2>4. \A k \in IdentityKinds : k \in Kinds /\ {z \in HostObjects(x) \ failing : z[1] = k} = {}
    BY <2>3 DEF IdentityKinds, Kinds
  <2>5. ASSUME NEW k \in IdentityKinds
        PROVE  api'[k] = api[k]
    <3> DEFINE found == {z \in HostObjects(x) \ failing : z[1] = k}
    <3>1. api'[k] = api[k] \ UNION {Namesakes(k, y[2]) : y \in found} /\ found = {}
      BY <2>2, <2>4
    <3> HIDE DEF found
    <3>2. UNION {Namesakes(k, y[2]) : y \in found} = {}
      BY <3>1
    <3> QED
      BY <3>1, <3>2
  <2> QED
    BY <1>1, <2>2, <2>5 DEF RemoveExternalHost
<1>2. CASE ~RemoveExternalHost(x)
  <2>1. pc \in {"externalHosts", "cloudSQLHosts"}
    BY <1>2 DEF HostStep, EnsureGatewayExists, EnsureGatewayContainsHost, EnsureVirtualService,
       EnsureDestinationRule, EnsureServiceEntry, EnsuringHost
  <2>2. ReadOnly \/ \E k \in {"GW", "VS", "DR", "SE"} : \E objects : Write(k, objects)
    BY <1>2 DEF HostStep, EnsureGatewayExists, EnsureGatewayContainsHost, UpdateGateway,
       UpdateConflicts, EnsureVirtualService, EnsureDestinationRule, EnsureServiceEntry,
       CreateUnless
  <2>3. ASSUME NEW k \in {"GW", "VS", "DR", "SE"}, NEW objects, Write(k, objects)
        PROVE  \A j \in IdentityKinds \cup {"AP"} : api'[j] = api[j]
    BY <2>3, WriteEffect DEF IdentityKinds, Kinds
  <2> QED
    BY <1>2, <2>1, <2>2, <2>3 DEF ReadOnly
<1> QED
  BY <1>1, <1>2

\* The calls for a policy write policies.
LEMMA PolicyWrites ==
    ASSUME StoreOK, NEW x, PolicyStep(x)
    PROVE  \A k \in Kinds \ {"AP"} : api'[k] = api[k]
<1>1. ReadOnly \/ \E objects : Write("AP", objects)
  BY DEF PolicyStep, EnsureAuthorizationPolicy, DeletePolicy, DeleteUnlistedPolicy
<1> QED
  BY <1>1, WriteEffect DEF Kinds, ReadOnly

\* The cleanup of a gateway writes gateways.
LEMMA GatewayWrites ==
    ASSUME StoreOK, CleanupGateway
    PROVE  \A k \in Kinds \ {"GW"} : api'[k] = api[k]
<1>1. ReadOnly \/ \E objects : Write("GW", objects)
  BY DEF CleanupGateway, UpdateGateway, UpdateConflicts
<1> QED
  BY <1>1, WriteEffect DEF Kinds, ReadOnly

\* The other steps write nothing, or collect garbage.
LEMMA OtherWrites ==
    ASSUME StoreOK,
           \/ \E c \in CRs : Start(c)
           \/ AddFinalizer \/ RemoveFinalizer \/ Advance \/ \E x : PersistAllowlist(x)
           \/ Users \/ Caches \/ Background \/ Trouble \/ UNCHANGED vars
    PROVE  \/ api' = api
           \/ \E k \in IdentityKinds :
                 /\ api'[k] = {o \in api[k] : ~OwnerGone(o)}
                 /\ \A j \in Kinds \ {k} : api'[j] = api[j]
<1>1. ASSUME NEW k \in Kinds, GarbageCollect(k)
      PROVE  /\ k \in IdentityKinds /\ api'[k] = {o \in api[k] : ~OwnerGone(o)}
             /\ \A j \in Kinds \ {k} : api'[j] = api[j]
  BY <1>1, WriteEffect DEF GarbageCollect, IdentityKinds
<1>2. api' = api \/ \E k \in Kinds : GarbageCollect(k)
  BY DEF Start, AddFinalizer, RemoveFinalizer, Advance, PersistAllowlist, ReadOnly, Users,
     UserCreate, UserEdit, UserDelete, Caches, Observe, CatchUp, Background, Resync, Trouble,
     CallFails, Restart, vars, clusterVars
<1> QED
  BY <1>1, <1>2

-----------------------------------------------------------------------------
(* Policies.                                                                *)

\* The policies of the spec's project and domain that no listed account has, and the
\* on-prem ones that are not for a host the account lists.
Unlisted == {ap \in api["AP"] : ap.env = spec.env /\ ap.sa \notin Listed}
Unhosted ==
    {ap \in api["AP"] : /\ ap.env = spec.env /\ ap.sa \in Listed
                        /\ ap.type = "internal" /\ ap.parent \notin spec.sas[ap.sa].int}

Revoking ==
    /\ pc = "removedAuthz" /\ ~failed => Unlisted \subseteq todo
    /\ pc \in {"internalHosts", "externalGateway", "cloudSQLGateway"} => Unlisted = {}
    /\ pc = "internalHosts" /\ job.cr \notin queue => Unhosted \subseteq todo
    /\ pc \in {"externalGateway", "cloudSQLGateway"} /\ job.cr \notin queue => Unhosted = {}

RInv == SInv /\ Revoking /\ SettledRevoked

\* In the other phases there is nothing to show.
RevokingPhases == {"removedAuthz", "internalHosts", "externalGateway", "cloudSQLGateway"}

LEMMA NotRevoking ==
    ASSUME pc' \notin RevokingPhases
    PROVE  Revoking'
BY DEF Revoking, RevokingPhases

\* Policies may go at any time, and others may be queued.
LEMMA RevokingKept ==
    ASSUME Revoking, UNCHANGED <<pc, job, todo, failed>>,
           api'["AP"] \subseteq api["AP"], queue \subseteq queue'
    PROVE  Revoking'
<1>1. Unlisted' \subseteq Unlisted /\ Unhosted' \subseteq Unhosted
  BY DEF Unlisted, Unhosted, spec, Listed
<1> QED
  BY <1>1 DEF Revoking

\* A phase begins with all that there is to delete, and ends with nothing left of it.
LEMMA RevokingAdvance ==
    ASSUME "AP" \notin Lagging, RInv, Advance
    PROVE  Revoking'
<1> USE DEF RInv, SInv, TInv, GInv, FInv
<1>1. api' = api
  BY DEF Advance, ReadOnly
<1>2. View("AP") = api["AP"]
  BY DEF StoreOK, View
<1>3. CASE pc' \notin RevokingPhases
  BY <1>3, NotRevoking
<1>4. CASE pc' \in RevokingPhases
  <2>1. /\ pc \in DOMAIN NextPhase /\ pc' = NextPhase[pc] /\ todo' = PhaseItems(pc')
        /\ todo = {} /\ ~failed /\ UNCHANGED <<job, queue>>
    BY <1>4 DEF Advance, EnterPhase, ReturnError, ReturnNil, Forget, RevokingPhases
  <2>2. Unlisted' = Unlisted /\ Unhosted' = Unhosted
    BY <1>1, <2>1 DEF Unlisted, Unhosted, spec, Listed
  <2>3. \/ pc = "authzPolicies" /\ pc' = "removedAuthz"
        \/ pc = "removedAuthz" /\ pc' = "internalHosts"
        \/ pc = "internalHosts" /\ pc' = "externalGateway"
        \/ pc = "externalGateway" /\ pc' = "cloudSQLGateway"
    BY <1>4, <2>1 DEF NextPhase, RevokingPhases
  <2>4. CASE pc' = "removedAuthz"
    <3>1. todo' = RemovedPolicies
      BY <2>1, <2>4 DEF PhaseItems
    <3>2. Unlisted \subseteq todo'
      BY <1>2, <3>1 DEF Unlisted, RemovedPolicies
    <3> QED
      BY <2>2, <2>4, <3>2 DEF Revoking
  <2>5. CASE pc' = "internalHosts"
    <3>1. Unlisted = {}
      BY <2>1, <2>3, <2>5 DEF Revoking
    <3>2. ASSUME job.cr \notin queue
          PROVE  Unhosted \subseteq todo'
      <4>1. todo' = UnlistedPolicies(ListedSpecs)
        BY <2>1, <2>5 DEF PhaseItems
      <4>2. spec \in ListedSpecs
        BY <2>3, <2>5, <3>2 DEF Orderly, JobSeen, ListedSpecs, CoreTypeOK
      <4> QED
        BY <1>2, <4>1, <4>2 DEF Unhosted, UnlistedPolicies, Listed
    <3> QED
      BY <2>1, <2>2, <2>5, <3>1, <3>2 DEF Revoking
  <2>6. CASE pc' \in {"externalGateway", "cloudSQLGateway"}
    BY <2>1, <2>2, <2>3, <2>6 DEF Revoking
  <2> QED
    BY <2>3, <2>4, <2>5, <2>6
<1> QED
  BY <1>3, <1>4

\* A policy leaves the loop when it is deleted, or its delete has failed.
LEMMA RevokingDelete ==
    ASSUME RInv, NEW ap, DeletePolicy(ap) \/ DeleteUnlistedPolicy(ap)
    PROVE  Revoking'
<1> USE DEF RInv, SInv, TInv
<1>1. CASE /\ Write("AP", api["AP"] \ Namesakes("AP", ap))
           /\ DoneWith(ap) /\ pc \in {"removedAuthz", "internalHosts"}
  <2>1. /\ api'["AP"] = api["AP"] \ Namesakes("AP", ap)
        /\ ap \in api["AP"] => ap \in Namesakes("AP", ap)
    BY <1>1, WriteEffect DEF Namesakes, Kinds
  <2>2. UNCHANGED <<pc, job, queue>> /\ todo' = todo \ {ap} /\ failed' = (failed \/ FALSE)
    BY <1>1 DEF DoneWith, DoneNoting
  <2>3. Unlisted' \subseteq Unlisted \ {ap} /\ Unhosted' \subseteq Unhosted \ {ap}
    BY <2>1, <2>2 DEF Unlisted, Unhosted, spec, Listed
  <2> QED
    BY <1>1, <2>2, <2>3 DEF Revoking
<1>2. CASE pc = "removedAuthz" /\ DoneNoting(ap, TRUE)
  BY <1>2 DEF DoneNoting, Revoking
<1>3. CASE ReturnError \/ pc = "finalize"
  <2>1. pc' \notin RevokingPhases
    BY <1>3 DEF DeletePolicy, DeleteUnlistedPolicy, DoneWith, DoneNoting, ReturnError, Forget,
       RevokingPhases
  <2> QED
    BY <2>1, NotRevoking
<1> QED
  BY <1>1, <1>2, <1>3 DEF DeletePolicy, DeleteUnlistedPolicy

\* Every step of Reconcile keeps what the phases have done.
LEMMA RevokingStep ==
    ASSUME "AP" \notin Lagging, RInv, Step
    PROVE  Revoking'
<1> USE DEF RInv, SInv, TInv, GInv, FInv
<1>1. CASE AddFinalizer \/ RemoveFinalizer
  <2>1. pc' \notin RevokingPhases
    BY <1>1 DEF AddFinalizer, RemoveFinalizer, EnterPhase, ReturnError, ReturnNil, Forget,
       RevokingPhases
  <2> QED
    BY <2>1, NotRevoking
<1>2. CASE Advance
  BY <1>2, RevokingAdvance
<1>3. CASE CleanupGateway
  <2>1. api'["AP"] = api["AP"]
    BY <1>3, GatewayWrites DEF Kinds
  <2>2. ReturnError \/ UNCHANGED <<pc, job, todo, failed, queue>>
    BY <1>3 DEF CleanupGateway
  <2> QED
    BY <2>1, <2>2, RevokingKept, NotRevoking DEF ReturnError, Forget, RevokingPhases
<1>4. ASSUME NEW x, PersistAllowlist(x) \/ IdentityStep(x)
                    \/ (HostStep(x) /\ ~RemoveExternalHost(x)) \/ EnsureAuthorizationPolicy(x)
      PROVE  Revoking'
  <2>1. pc \notin RevokingPhases
    BY <1>4, IdentityWrites, HostWrites
       DEF PersistAllowlist, EnsureAuthorizationPolicy, RevokingPhases
  <2>2. pc' \in {pc, "idle"}
    BY <1>4, LoopFrame
       DEF PersistAllowlist, DoneWith, DoneNoting, ReturnError, Forget, PolicyStep, CoreTypeOK
  <2> QED
    BY <2>1, <2>2, NotRevoking DEF RevokingPhases
<1>5. ASSUME NEW x, RemoveExternalHost(x)
      PROVE  Revoking'
  <2>1. HostStep(x)
    BY <1>5 DEF HostStep
  <2>2. /\ pc \in {"externalGateway", "cloudSQLGateway"} /\ api'["AP"] \subseteq api["AP"]
    BY <1>5, <2>1, HostWrites DEF Kinds
  <2>3. CASE ReturnError
    BY <2>3, NotRevoking DEF ReturnError, Forget, RevokingPhases
  <2>4. CASE ~ReturnError
    <3>1. UNCHANGED <<pc, job, queue>>
      BY <1>5, <2>4 DEF RemoveExternalHost, DoneWith, DoneNoting
    <3>2. Unlisted' \subseteq Unlisted /\ Unhosted' \subseteq Unhosted
      BY <2>2, <3>1 DEF Unlisted, Unhosted, spec, Listed
    <3> QED
      BY <2>2, <3>1, <3>2 DEF Revoking
  <2> QED
    BY <2>3, <2>4
<1>6. ASSUME NEW x, DeletePolicy(x) \/ DeleteUnlistedPolicy(x)
      PROVE  Revoking'
  BY <1>6, RevokingDelete
<1> QED
  BY <1>1, <1>2, <1>3, <1>4, <1>5, <1>6 DEF Step, HostStep, PolicyStep

\* So does what happens around it.
LEMMA RevokingNext ==
    ASSUME "AP" \notin Lagging, RInv, [Next]_vars
    PROVE  Revoking'
<1> USE DEF RInv, SInv, TInv, GInv, FInv
<1>1. ASSUME NEW c \in CRs, Start(c)
      PROVE  Revoking'
  <2>1. pc' \notin RevokingPhases
    BY <1>1 DEF Start, EnterPhase, workerVars, RevokingPhases
  <2> QED
    BY <2>1, NotRevoking
<1>2. CASE Trouble
  BY <1>2, NotRevoking DEF Trouble, CallFails, Restart, ReturnError, Forget, RevokingPhases
<1>3. CASE Users \/ Caches \/ Background \/ UNCHANGED vars
  <2>1. UNCHANGED <<pc, job, todo, failed>>
    BY <1>3 DEF Users, Caches, Background, vars, workerVars
  <2>2. queue \subseteq queue'
    BY <1>3 DEF Users, UserCreate, UserEdit, UserDelete, Caches, Observe, CatchUp, Background,
       Resync, GarbageCollect, vars, clusterVars
  <2>3. api'["AP"] = api["AP"]
    BY <1>3, OtherWrites DEF IdentityKinds, Kinds
  <2> QED
    BY <2>1, <2>2, <2>3, RevokingKept
<1> QED
  BY <1>1, <1>2, <1>3, RevokingStep DEF Next

\* Policies are only made by the worker, for what its own CR lists.
LEMMA PoliciesGrow ==
    ASSUME TInv, [Next]_vars, NEW ap \in api'["AP"], ap \notin api["AP"]
    PROVE  /\ pc = "authzPolicies" /\ ap.env = spec.env
           /\ \E i \in PolicyItems : ap = i[2]
<1> USE DEF TInv, GInv, FInv
<1>1. "AP" \in Kinds \ IdentityKinds /\ "AP" # "GW"
  BY DEF Kinds, IdentityKinds
<1>2. ASSUME NEW x \in todo, EnsureAuthorizationPolicy(x)
      PROVE  /\ pc = "authzPolicies" /\ ap.env = spec.env
             /\ \E i \in PolicyItems : ap = i[2]
  <2>1. pc = "authzPolicies" /\ ap = x[2]
    BY <1>1, <1>2, WriteEffect DEF EnsureAuthorizationPolicy, ReadOnly
  <2>2. x \in PolicyItems
    BY <2>1 DEF RowsFirst
  <2> QED
    BY <2>1, <2>2 DEF PolicyItems, Policy
<1>3. ASSUME NEW x, DeletePolicy(x) \/ DeleteUnlistedPolicy(x)
      PROVE  FALSE
  <2>1. ReadOnly \/ Write("AP", api["AP"] \ Namesakes("AP", x))
    BY <1>3 DEF DeletePolicy, DeleteUnlistedPolicy
  <2> QED
    BY <1>1, <2>1, WriteEffect DEF ReadOnly
<1>4. ASSUME NEW x, IdentityStep(x) \/ HostStep(x)
      PROVE  FALSE
  BY <1>1, <1>4, IdentityWrites, HostWrites
<1>5. ~CleanupGateway
  BY <1>1, GatewayWrites
<1> QED
  BY <1>1, <1>2, <1>3, <1>4, <1>5, OtherWrites DEF Next, Step, PolicyStep

\* A settled CR has no policy to revoke, and never gets one.
LEMMA RevokedNext ==
    ASSUME OnePerPair, RInv, [Next]_vars
    PROVE  SettledRevoked'
<1> USE DEF RInv
<1> SUFFICES ASSUME NEW c \in CRs, Settled(c)',
                    NEW ap \in api'["AP"], ap.env = utsa'[c].spec.env
             PROVE  /\ ap.sa \in DOMAIN utsa'[c].spec.sas
                    /\ ap.type = "internal" => ap.parent \in utsa'[c].spec.sas[ap.sa].int
  BY DEF SettledRevoked
<1>1. utsa'[c] = utsa[c] /\ (Settled(c) \/ Finishing(c))
  BY SettledBefore
<1>2. CASE Settled(c)
  <2>1. ap \in api["AP"]
    BY <1>1, <1>2, PoliciesGrow, SettledElsewhere DEF SInv
  <2> QED
    BY <1>1, <1>2, <2>1 DEF SettledRevoked
<1>3. CASE Finishing(c)
  <2>1. ap \in api["AP"] /\ Unlisted = {} /\ Unhosted = {}
    BY <1>3 DEF Finishing, Revoking
  <2> QED
    BY <1>1, <1>3, <2>1 DEF Finishing, Unlisted, Unhosted, Listed
<1> QED
  BY <1>1, <1>2, <1>3

LEMMA RInvInit == Init => RInv
<1> SUFFICES ASSUME Init PROVE RInv  OBVIOUS
<1>1. pc = "idle" /\ \A c \in CRs : ~utsa[c].live
  BY DEF Init, ClusterInit, WorkerInit
<1> QED
  BY <1>1, SInvInit DEF RInv, Revoking, SettledRevoked, Settled

\* Reconcile takes away the policies of dropped accounts and hosts
\* (cleanup.go:109-165) of its own CR, whatever CRs it works on next: when the cache
\* of policies does not lag and no two CRs share a project and domain, a settled CR's
\* accounts have the on-prem policies the CR lists and no others, and accounts it
\* does not list have none.
THEOREM SettledStaysRevoked ==
    ASSUME "AP" \notin Lagging, OnePerPair
    PROVE  Spec => []SettledRevoked
<1>1. RInv /\ [Next]_vars => RInv'
  BY SInvNext, RevokingNext, RevokedNext DEF RInv
<1>2. RInv => SettledRevoked
  BY DEF RInv
<1> QED
  BY RInvInit, <1>1, <1>2, PTL DEF Spec

-----------------------------------------------------------------------------
(* Identities.                                                              *)

\* Owners are CRs that live beside the object, or lived there.
OwnersKnown ==
    \A k \in {"SA", "PM"} : \A o \in api[k] :
        o.env = Home[o.owner.cr] /\ o.owner.uid <= utsa[o.owner.cr].uid

MembersOwned ==
    \A o \in api["PM"] : o.role # 3 /\ ~OwnerGone(o) =>
        \E a \in api["SA"] : a.env = o.env /\ a.sa = o.sa /\ a.owner = o.owner

\* The members of an account are made after the ServiceAccount ...
Creating ==
    pc = "serviceAccounts" =>
        /\ cur = None => at = 1
        /\ at > 2 => Account(cur) \in api["SA"]

\* ... and deleted before it.
MembersGone ==
    pc \in {"removeSAs", "removeSAsAgain"} =>
        /\ todo \subseteq SaNames
        /\ cur = None => at = 1
        /\ ~kept => \A n \in 1 .. 3 : n < at => OfRole(api["PM"], cur, CleanedRoles[n]) = {}

\* The ServiceAccounts of dropped names are left to do, and then gone.
DroppedAccounts == {a \in api["SA"] : a.env = spec.env /\ a.sa \notin Listed}
Dropping ==
    /\ pc = "removeSAsAgain" /\ ~failed => \A a \in DroppedAccounts : a.sa \in todo
    /\ pc \in {"externalHosts", "cloudSQLHosts", "authzPolicies", "removedAuthz",
               "internalHosts", "externalGateway", "cloudSQLGateway"} => DroppedAccounts = {}

\* Of a settled CR's project and domain there are only listed ServiceAccounts.
SettledAccounts ==
    \A c \in CRs : Settled(c) =>
        \A a \in api["SA"] : a.env = utsa[c].spec.env => a.sa \in DOMAIN utsa[c].spec.sas

FreshIdentityCaches == {"SA", "PM"} \cap Lagging = {}

DInv == SInv /\ Dropping /\ SettledAccounts
MInv == SInv /\ OwnersKnown /\ MembersOwned /\ Creating /\ MembersGone

\* A CR that was created again has another uid.
LEMMA UidsGrow ==
    ASSUME FInv, [Next]_vars, NEW c \in CRs
    PROVE  \/ utsa'[c].uid = utsa[c].uid /\ (utsa'[c].live => utsa[c].live)
           \/ utsa'[c].uid = utsa[c].uid + 1 /\ ~utsa[c].live
<1> USE DEF FInv, CoreTypeOK
<1> SUFFICES ASSUME utsa' # utsa PROVE
           \/ utsa'[c].uid = utsa[c].uid /\ (utsa'[c].live => utsa[c].live)
           \/ utsa'[c].uid = utsa[c].uid + 1 /\ ~utsa[c].live
  OBVIOUS
<1>1. CASE AddFinalizer
  <2>1. utsa' = [utsa EXCEPT ![job.cr].fin = TRUE]
    BY <1>1 DEF AddFinalizer
  <2> QED
    BY <2>1 DEF Resource
<1>2. CASE RemoveFinalizer
  <2>1. utsa' = [utsa EXCEPT ![job.cr].fin = FALSE, ![job.cr].live = FALSE]
    BY <1>2 DEF RemoveFinalizer
  <2> QED
    BY <2>1 DEF Resource
<1>3. CASE Users
  <2>1. ASSUME NEW d \in CRs, NEW s \in Specs[d], UserCreate(d, s)
        PROVE  \/ utsa'[c].uid = utsa[c].uid /\ (utsa'[c].live => utsa[c].live)
               \/ utsa'[c].uid = utsa[c].uid + 1 /\ ~utsa[c].live
    BY <2>1 DEF UserCreate, Resource
  <2>2. ASSUME NEW d \in CRs, NEW s \in Specs[d], UserEdit(d, s)
        PROVE  utsa'[c].uid = utsa[c].uid /\ (utsa'[c].live => utsa[c].live)
    BY <2>2 DEF UserEdit, Resource
  <2>3. ASSUME NEW d \in CRs, UserDelete(d)
        PROVE  utsa'[c].uid = utsa[c].uid /\ (utsa'[c].live => utsa[c].live)
    BY <2>3 DEF UserDelete, Resource
  <2> QED
    BY <1>3, <2>1, <2>2, <2>3 DEF Users
<1>4. CASE utsa' = utsa
  BY <1>4
<1>5. CASE Step /\ ~AddFinalizer /\ ~RemoveFinalizer
  BY <1>4, <1>5, StepIsPassive DEF Passive
<1>6. CASE (\E d \in CRs : Start(d)) \/ Caches \/ Background \/ Trouble \/ UNCHANGED vars
  BY <1>4, <1>6 DEF Start, Caches, Observe, CatchUp, Background, Resync, GarbageCollect,
     Trouble, CallFails, Restart, vars, clusterVars
<1> QED
  BY <1>1, <1>2, <1>3, <1>5, <1>6 DEF Next

\* The owners and the roles have their types.
LEMMA OwnerTypes ==
    ASSUME StoreOK
    PROVE  /\ \A k \in {"SA", "GSA"} : \A o \in api[k] : o.owner \in Owners
           /\ \A o \in api["PM"] : o.owner \in Owners /\ o.role \in 1 .. 4
<1>1. /\ \A k \in {"SA", "GSA"} : api[k] \subseteq [env : Envs, sa : SaNames, owner : Owners]
      /\ api["PM"] \subseteq [env : Envs, sa : SaNames, role : 1 .. 4, owner : Owners]
  BY ObjectTypes DEF StoreOK, Kinds
<1> QED
  BY <1>1

\* An owner that is gone does not come back.
LEMMA OwnersStayGone ==
    ASSUME FInv, [Next]_vars, NEW o, o.owner \in Owners,
           o.owner.uid <= utsa[o.owner.cr].uid, OwnerGone(o)
    PROVE  OwnerGone(o)'
<1>1. /\ o.owner.cr \in CRs /\ o.owner.uid \in Nat /\ utsa[o.owner.cr].uid \in Nat
  BY DEF Owners, FInv, CoreTypeOK, Resource
<1> QED
  BY <1>1, UidsGrow DEF OwnerGone

\* The owner of what Reconcile creates is stored.
LEMMA OwnerStays ==
    ASSUME AllAtHome, SInv, pc \in DOMAIN NextPhase, NEW o, o.owner = Owner, o.env = spec.env
    PROVE  ~OwnerGone(o)
BY DEF SInv, TInv, GInv, FInv, FinalizerHeld, Orderly, OwnSpecs, CoreTypeOK, AllAtHome,
   OwnerGone, Owner

\* No other CR owns objects of the same environment.
LEMMA OnlyOwner ==
    ASSUME AllAtHome, SInv, pc \in DOMAIN NextPhase, NEW o, o.owner \in Owners,
           o.env = spec.env, ~OwnerGone(o)
    PROVE  o.owner = Owner
<1> USE DEF SInv, TInv, GInv, FInv
<1> DEFINE d == o.owner.cr
<1>1. d \in CRs /\ utsa[d].live /\ utsa[d].uid = o.owner.uid /\ Home[d] = spec.env
  BY DEF OwnerGone, Owners
<1>2. job.cr \in CRs /\ utsa[job.cr].live /\ utsa[job.cr].uid = job.obj.uid
  BY DEF FinalizerHeld, CoreTypeOK
<1>3. utsa[d].spec.env = Home[d] /\ utsa[job.cr].spec.env = Home[job.cr]
      /\ spec.env = Home[job.cr]
  BY <1>1, <1>2 DEF Orderly, OwnSpecs, AllAtHome
<1>4. d = job.cr
  BY <1>1, <1>2, <1>3 DEF Orderly, OneEach, OnePerPair
<1> QED
  BY <1>1, <1>2, <1>4 DEF Owner, Owners

\* ServiceAccounts and members are only made by the worker, for its own CR.
LEMMA IdentitiesGrow ==
    ASSUME TInv, [Next]_vars, NEW k \in IdentityKinds, NEW o \in api'[k], o \notin api[k]
    PROVE  pc = "serviceAccounts" /\ o.env = spec.env /\ o.owner = Owner
<1> USE DEF TInv, GInv, FInv
<1>k. k \in Kinds /\ {"SA", "GSA", "PM"} \subseteq Kinds /\ k \in IdentityKinds
      /\ k \in Kinds \ {"AP"} /\ k \in Kinds \ {"GW"}
  BY DEF Kinds, IdentityKinds
<1>1. ASSUME NEW x, IdentityStep(x)
      PROVE  pc = "serviceAccounts" /\ o.env = spec.env /\ o.owner = Owner
  <2>1. ASSUME NEW j \in {"SA", "GSA", "PM"}, NEW new, NEW old \in SUBSET api[j],
               new.env = spec.env, new.owner = Owner, Write(j, old \cup {new})
        PROVE  o.env = spec.env /\ o.owner = Owner
    BY <1>k, <2>1, WriteEffect
  <2>2. ASSUME NEW j \in {"SA", "GSA", "PM"}, NEW gone, Write(j, api[j] \ gone)
        PROVE  FALSE
    BY <1>k, <2>2, WriteEffect
  <2>3. ~ReadOnly
    BY DEF ReadOnly
  <2>4. /\ Account(x).env = spec.env /\ Account(x).owner = Owner
        /\ \A r : Member(x, r).env = spec.env /\ Member(x, r).owner = Owner
    BY DEF Account, Member
  <2>5. CASE ReconcileIAMServiceAccount(x)
    BY <2>1, <2>3, <2>4, <2>5 DEF ReconcileIAMServiceAccount
  <2>6. CASE ReconcileServiceAccount(x)
    BY <2>1, <2>3, <2>4, <2>6 DEF ReconcileServiceAccount
  <2>7. CASE CreateIAMPolicyMember(x)
    BY <2>1, <2>3, <2>4, <2>7 DEF CreateIAMPolicyMember
  <2>8. CASE CleanupIAMPolicyMember(x) \/ CleanupIAMServiceAccount(x) \/ DeleteServiceAccount(x)
    BY <2>2, <2>3, <2>8
       DEF CleanupIAMPolicyMember, CleanupIAMServiceAccount, DeleteServiceAccount
  <2> QED
    BY <1>1, <2>5, <2>6, <2>7, <2>8 DEF IdentityStep
<1>2. ASSUME NEW x, HostStep(x) \/ PolicyStep(x)
      PROVE  FALSE
  BY <1>2, <1>k, HostWrites, PolicyWrites
<1>3. ~CleanupGateway
  BY <1>k, GatewayWrites
<1> QED
  BY <1>1, <1>2, <1>3, <1>k, OtherWrites DEF Next, Step

\* Whoever owns an object lives beside it.
LEMMA OwnersNext ==
    ASSUME AllAtHome, MInv, [Next]_vars
    PROVE  OwnersKnown'
<1> USE DEF MInv, SInv, TInv, GInv, FInv
<1> SUFFICES ASSUME NEW k \in {"SA", "PM"}, NEW o \in api'[k]
             PROVE  /\ o.env = Home[o.owner.cr] /\ o.owner.uid <= utsa'[o.owner.cr].uid
                    /\ o.owner \in Owners
  BY DEF OwnersKnown
<1>1. /\ o.env = Home[o.owner.cr] /\ o.owner.uid <= utsa[o.owner.cr].uid
      /\ o.owner \in Owners
  <2>1. CASE o \in api[k]
    BY <2>1, OwnerTypes DEF OwnersKnown
  <2>2. CASE o \notin api[k]
    <3>1. pc = "serviceAccounts" /\ o.env = spec.env /\ o.owner = Owner
      BY <2>2, IdentitiesGrow DEF IdentityKinds
    <3>2. utsa[job.cr].uid = job.obj.uid /\ job.obj.uid \in Nat
      BY <3>1 DEF FinalizerHeld, NextPhase, CoreTypeOK, Resource
    <3> QED
      BY <3>1, <3>2, JobTypes DEF Owner, Orderly, OwnSpecs, AllAtHome, CoreTypeOK
  <2> QED
    BY <2>1, <2>2
<1>2. o.owner.cr \in CRs /\ o.owner.uid \in Nat
      /\ utsa[o.owner.cr].uid \in Nat
  BY <1>1 DEF Owners, CoreTypeOK, Resource
<1> QED
  BY <1>1, <1>2, UidsGrow

-----------------------------------------------------------------------------
(* The steps of a phase.                                                    *)

BeginsPhase ==
    /\ Advance /\ pc \in DOMAIN NextPhase /\ pc' = NextPhase[pc] /\ todo = {} /\ ~failed
    /\ EnterPhase(pc', PhaseItems(pc')) /\ UNCHANGED <<job, queue, api>>
Waits == UNCHANGED workerVars /\ (Users \/ Caches \/ Background \/ UNCHANGED vars)
Works ==
    /\ UNCHANGED <<pc, job>>
    /\ CleanupGateway \/ \E x \in todo : IdentityStep(x) \/ HostStep(x) \/ PolicyStep(x)

\* After the first phase, a phase begins when the last one is over, or goes on.
LEMMA PhaseSteps ==
    ASSUME FInv, [Next]_vars, pc' \in DOMAIN NextPhase \ {"persist"}
    PROVE  BeginsPhase \/ Waits \/ Works
<1>1. pc' \notin {"idle", "addFinalizer", "finalize", "persist"}
  BY Phases
<1>2. ASSUME NEW c \in CRs, Start(c)
      PROVE  FALSE
  BY <1>1, <1>2 DEF Start, EnterPhase, workerVars
<1>3. ~Trouble /\ ~AddFinalizer /\ ~RemoveFinalizer
  BY <1>1 DEF Trouble, CallFails, Restart, AddFinalizer, RemoveFinalizer, EnterPhase,
     ReturnError, ReturnNil, Forget
<1>4. CASE Advance
  <2>1. ~ReturnError /\ ~ReturnNil
    BY <1>1 DEF ReturnError, ReturnNil, Forget
  <2> QED
    BY <1>4, <2>1 DEF Advance, EnterPhase, ReadOnly, BeginsPhase
<1>5. CASE CleanupGateway
  BY <1>1, <1>5 DEF CleanupGateway, ReturnError, Forget, Works
<1>6. ASSUME NEW x \in todo, IdentityStep(x) \/ HostStep(x) \/ PolicyStep(x)
      PROVE  Works
  <2>1. UNCHANGED <<pc, job>> \/ ReturnError
    BY <1>6, LoopFrame DEF FInv, CoreTypeOK
  <2> QED
    BY <1>1, <1>6, <2>1 DEF ReturnError, Forget, Works
<1>7. ASSUME NEW x, PersistAllowlist(x)
      PROVE  FALSE
  BY <1>1, <1>7 DEF PersistAllowlist, DoneWith, DoneNoting
<1>8. CASE Users \/ Caches \/ Background \/ UNCHANGED vars
  BY <1>8 DEF Users, Caches, Background, vars, workerVars, Waits
<1> QED
  BY <1>2, <1>3, <1>4, <1>5, <1>6, <1>7, <1>8 DEF Next, Step

\* While the worker waits, ServiceAccounts and members are collected, if at all.
LEMMA WaitingWrites ==
    ASSUME StoreOK, Waits
    PROVE  /\ UNCHANGED workerVars
           /\ \A k \in {"SA", "PM"} :
                 api'[k] = api[k] \/ api'[k] = {o \in api[k] : ~OwnerGone(o)}
BY OtherWrites DEF Waits, Kinds, IdentityKinds

\* Which call it is, by the phase.
LEMMA WorkingIdentity ==
    ASSUME StoreOK, Works, pc \in {"serviceAccounts", "removeSAs", "removeSAsAgain"}
    PROVE  \E x \in todo :
              IF pc = "serviceAccounts"
              THEN \/ ReconcileIAMServiceAccount(x) \/ ReconcileServiceAccount(x)
                   \/ CreateIAMPolicyMember(x)
              ELSE \/ CleanupIAMPolicyMember(x) \/ CleanupIAMServiceAccount(x)
                   \/ DeleteServiceAccount(x)
<1>1. PICK x \in todo : IdentityStep(x)
  <2>1. ASSUME NEW x, HostStep(x) \/ PolicyStep(x)
        PROVE  FALSE
    BY <2>1, HostWrites DEF PolicyStep, EnsureAuthorizationPolicy, DeletePolicy,
       DeleteUnlistedPolicy
  <2>2. ~CleanupGateway
    BY DEF CleanupGateway
  <2> QED
    BY <2>1, <2>2 DEF Works
<1> QED
  BY <1>1 DEF IdentityStep, ReconcileIAMServiceAccount, ReconcileServiceAccount,
     CreateIAMPolicyMember, CleanupIAMPolicyMember, CleanupIAMServiceAccount,
     DeleteServiceAccount, Removing

-----------------------------------------------------------------------------
(* Members and their ServiceAccounts.                                       *)

\* The ServiceAccount of the element under way is there when its members are made.
LEMMA CreatingNext ==
    ASSUME AllAtHome, FreshIdentityCaches, MInv, [Next]_vars
    PROVE  Creating'
<1> USE DEF MInv, SInv, TInv, GInv, FInv
<1> SUFFICES ASSUME pc' = "serviceAccounts"
             PROVE  /\ cur' = None => at' = 1
                    /\ at' > 2 => Account(cur)' \in api'["SA"]
  BY DEF Creating
<1>1. BeginsPhase \/ Waits \/ Works
  BY PhaseSteps DEF NextPhase
<1>2. CASE BeginsPhase
  BY <1>2 DEF BeginsPhase, EnterPhase
<1>3. CASE Waits
  <2>1. UNCHANGED <<pc, job, cur, at>> /\ Account(cur)' = Account(cur)
    BY <1>3 DEF Waits, workerVars, Account, spec, Owner
  <2>2. Account(cur) \in api["SA"] => Account(cur) \in api'["SA"]
    <3>1. ~OwnerGone(Account(cur))
      BY <2>1, OwnerStays DEF Account, NextPhase
    <3> QED
      BY <1>3, <3>1, WaitingWrites
  <2> QED
    BY <2>1, <2>2 DEF Creating
<1>4. CASE Works
  <2>1. UNCHANGED <<pc, job>> /\ pc = "serviceAccounts"
    BY <1>4 DEF Works
  <2>2. PICK x \in todo : \/ ReconcileIAMServiceAccount(x) \/ ReconcileServiceAccount(x)
                         \/ CreateIAMPolicyMember(x)
    BY <1>4, <2>1, WorkingIdentity
  <2>3. x # None /\ at \in 1 .. 6 /\ cur \in {None, x} /\ ~ReturnError
    <3>1. x \in SaNames
      BY <2>1, JobTypes, SpecTypes DEF RowsFirst, Listed
    <3>2. ~ReturnError
      BY <2>1 DEF ReturnError, Forget
    <3> QED
      BY <2>2, <3>1, <3>2, WorkerAssumption DEF ReconcileIAMServiceAccount,
         ReconcileServiceAccount, CreateIAMPolicyMember, Taking, CoreTypeOK
  <2>4. Account(x)' = Account(x)
    BY <2>1 DEF Account, spec, Owner
  <2>5. CASE ReconcileIAMServiceAccount(x)
    BY <2>3, <2>5 DEF ReconcileIAMServiceAccount, NextCall, NextCallNoting
  <2>6. CASE ReconcileServiceAccount(x)
    <3>1. cur' = x /\ at' = 3
      BY <2>3, <2>6 DEF ReconcileServiceAccount, NextCall, NextCallNoting
    <3>2. View("SA") = api["SA"]
      BY DEF StoreOK, View, FreshIdentityCaches
    <3>3. CASE Write("SA", (api["SA"] \ Of(api["SA"], x)) \cup {Account(x)})
      BY <2>3, <2>4, <3>1, <3>3, WriteEffect DEF Kinds
    <3>4. CASE Account(x) \in Of(View("SA"), x) /\ ReadOnly
      BY <2>3, <2>4, <3>1, <3>2, <3>4 DEF Of, ReadOnly
    <3> QED
      BY <2>3, <2>6, <3>3, <3>4 DEF ReconcileServiceAccount
  <2>7. CASE CreateIAMPolicyMember(x)
    <3>1. ReadOnly \/ Write("PM", api["PM"] \cup {Member(x, at - 2)})
      BY <2>7 DEF CreateIAMPolicyMember
    <3>2. api'["SA"] = api["SA"]
      BY <3>1, WriteEffect DEF Kinds, ReadOnly
    <3>3. at \in 3 .. 6 /\ cur = x
      BY <2>1, <2>3, <2>7 DEF CreateIAMPolicyMember, Creating
    <3>4. \/ cur' = None /\ at' = 1
          \/ cur' = x /\ at' = at + 1
      BY <2>7 DEF CreateIAMPolicyMember, DoneWith, DoneNoting, NextCall, NextCallNoting
    <3> QED
      BY <2>1, <2>3, <2>4, <3>2, <3>3, <3>4 DEF Creating
  <2> QED
    BY <2>2, <2>5, <2>6, <2>7
<1> QED
  BY <1>1, <1>2, <1>3, <1>4

\* The members of the element under way are gone before its ServiceAccount is deleted.
LEMMA MembersGoneNext ==
    ASSUME FreshIdentityCaches, MInv, [Next]_vars
    PROVE  MembersGone'
<1> USE DEF MInv, SInv, TInv, GInv, FInv
<1> SUFFICES ASSUME pc' \in {"removeSAs", "removeSAsAgain"}
             PROVE  /\ todo' \subseteq SaNames
                    /\ cur' = None => at' = 1
                    /\ ~kept' => \A n \in 1 .. 3 : n < at' =>
                                    OfRole(api["PM"], cur, CleanedRoles[n])' = {}
  BY DEF MembersGone
<1>1. BeginsPhase \/ Waits \/ Works
  BY PhaseSteps DEF NextPhase
<1>2. CASE BeginsPhase
  <2>1. todo' = RemovedItems /\ cur' = None /\ at' = 1
    BY <1>2 DEF BeginsPhase, EnterPhase, PhaseItems
  <2>2. View("SA") \subseteq [env : Envs, sa : SaNames, owner : Owners]
    BY ObjectTypes DEF StoreOK, View, Kinds
  <2>3. RemovedItems \subseteq SaNames
    BY <2>2 DEF RemovedItems
  <2> QED
    BY <2>1, <2>3
<1>3. CASE Waits
  <2>1. UNCHANGED <<pc, job, todo, cur, at, kept>> /\ api'["PM"] \subseteq api["PM"]
    BY <1>3, WaitingWrites DEF workerVars
  <2> QED
    BY <2>1 DEF MembersGone, OfRole, Of, spec
<1>4. CASE Works
  <2>1. UNCHANGED <<pc, job>> /\ pc \in {"removeSAs", "removeSAsAgain"}
    BY <1>4 DEF Works
  <2>2. PICK x \in todo : \/ CleanupIAMPolicyMember(x) \/ CleanupIAMServiceAccount(x)
                         \/ DeleteServiceAccount(x)
    BY <1>4, <2>1, WorkingIdentity
  <2>3. x # None /\ cur \in {None, x} /\ at \in 1 .. 6 /\ todo' \subseteq SaNames
    <3>1. todo' \subseteq todo /\ x \in SaNames
      BY <2>1, <2>2 DEF MembersGone, CleanupIAMPolicyMember, CleanupIAMServiceAccount,
         DeleteServiceAccount, NextCall, NextCallNoting, DoneWith, DoneNoting
    <3>2. cur \in {None, x}
      BY <2>2 DEF CleanupIAMPolicyMember, CleanupIAMServiceAccount, DeleteServiceAccount,
         Removing, Taking
    <3> QED
      BY <2>1, <3>1, <3>2, WorkerAssumption DEF MembersGone, CoreTypeOK
  <2>4. \A r : OfRole(api'["PM"], x, r) \subseteq OfRole(api["PM"], x, r)
    <3>1. api'["PM"] \subseteq api["PM"]
      <4>1. \/ ReadOnly
            \/ \E k \in {"GSA", "SA"} : \E objects : Write(k, objects)
            \/ \E gone : Write("PM", api["PM"] \ gone)
        BY <2>2 DEF CleanupIAMPolicyMember, CleanupIAMServiceAccount, DeleteServiceAccount
      <4>2. ASSUME NEW k \in {"GSA", "SA"}, NEW objects, Write(k, objects)
            PROVE  api'["PM"] = api["PM"]
        BY <4>2, WriteEffect DEF Kinds
      <4>3. ASSUME NEW gone, Write("PM", api["PM"] \ gone)
            PROVE  api'["PM"] \subseteq api["PM"]
        BY <4>3, WriteEffect DEF Kinds
      <4> QED
        BY <4>1, <4>2, <4>3 DEF ReadOnly
    <3> QED
      BY <3>1 DEF OfRole, Of
  <2>5. CASE DeleteServiceAccount(x)
    BY <2>3, <2>5 DEF DeleteServiceAccount, DoneWith, DoneNoting
  <2>6. CASE CleanupIAMServiceAccount(x)
    <3>k. ~kept' => ~kept
      BY <2>6, Zenon DEF CleanupIAMServiceAccount, NextCall, NextCallNoting
    <3>1. cur = x /\ at = 4 /\ cur' = x /\ at' = 5
      <4>1. NextCallNoting(x, FALSE) \/ NextCallNoting(x, TRUE)
        BY <2>6 DEF CleanupIAMServiceAccount, NextCall
      <4>2. cur' = x /\ at' = at + 1 /\ at = 4
        BY <2>6, <4>1 DEF CleanupIAMServiceAccount, Removing, NextCallNoting
      <4> QED
        BY <2>1, <2>3, <4>2 DEF MembersGone
    <3>2. ~kept' => \A n \in 1 .. 3 : OfRole(api["PM"], x, CleanedRoles[n]) = {}
      BY <2>1, <3>k, <3>1 DEF MembersGone
    <3> QED
      BY <2>1, <2>3, <2>4, <3>1, <3>2 DEF OfRole, Of, spec
  <2>7. CASE CleanupIAMPolicyMember(x)
    <3>k. ~kept' => ~kept
      BY <2>7, Zenon DEF CleanupIAMPolicyMember, NextCall, NextCallNoting
    <3>1. at \in 1 .. 3 /\ cur' = x /\ at' = at + 1 /\ (at > 1 => cur = x)
      <4>1. NextCallNoting(x, FALSE) \/ NextCallNoting(x, TRUE)
        BY <2>7 DEF CleanupIAMPolicyMember, NextCall
      <4>2. cur' = x /\ at' = at + 1 /\ at \in 1 .. 3
        BY <2>7, <4>1 DEF CleanupIAMPolicyMember, Removing, NextCallNoting
      <4> QED
        BY <2>1, <2>3, <4>2 DEF MembersGone
    <3>2. ~kept' => \A n \in 1 .. 3 : n < at => OfRole(api["PM"], x, CleanedRoles[n]) = {}
      BY <2>1, <3>k, <3>1 DEF MembersGone
    <3>3. ~kept' => OfRole(api'["PM"], x, CleanedRoles[at]) = {}
      <4>1. View("PM") = api["PM"]
        BY DEF StoreOK, View, FreshIdentityCaches
      <4>2. CASE Write("PM", api["PM"] \ OfRole(api["PM"], x, CleanedRoles[at]))
        <5>1. api'["PM"] = api["PM"] \ OfRole(api["PM"], x, CleanedRoles[at])
          BY <4>2, WriteEffect DEF Kinds
        <5> QED
          BY <5>1 DEF OfRole, Of
      <4>3. CASE OfRole(View("PM"), x, CleanedRoles[at]) = {} /\ ReadOnly
        BY <4>1, <4>3 DEF ReadOnly
      <4>4. CASE NextCallNoting(x, TRUE)
        BY <4>4 DEF NextCallNoting
      <4> QED
        BY <2>7, <4>2, <4>3, <4>4 DEF CleanupIAMPolicyMember
    <3>4. ASSUME ~kept', NEW n \in 1 .. 3, n < at'
          PROVE  OfRole(api'["PM"], x, CleanedRoles[n]) = {}
      BY <2>4, <3>1, <3>2, <3>3, <3>4
    <3> QED
      BY <2>1, <2>3, <3>1, <3>4 DEF OfRole, Of, spec
  <2> QED
    BY <2>2, <2>5, <2>6, <2>7
<1> QED
  BY <1>1, <1>2, <1>3, <1>4

\* A member is made beside its ServiceAccount.
LEMMA MembersGrow ==
    ASSUME FreshIdentityCaches, MInv, [Next]_vars, NEW o \in api'["PM"], o \notin api["PM"]
    PROVE  \E a \in api'["SA"] : a.env = o.env /\ a.sa = o.sa /\ a.owner = o.owner
<1> USE DEF MInv, SInv, TInv, GInv, FInv
<1>1. pc = "serviceAccounts"
  BY IdentitiesGrow DEF IdentityKinds
<1>k. {"SA", "GSA", "PM"} \subseteq Kinds
  BY DEF Kinds
<1>2. PICK x \in todo : \/ ReconcileIAMServiceAccount(x) \/ ReconcileServiceAccount(x)
                       \/ CreateIAMPolicyMember(x)
  <2>1. ~CleanupGateway
    BY <1>1 DEF CleanupGateway
  <2>2. ASSUME NEW x, HostStep(x) \/ PolicyStep(x)
        PROVE  FALSE
    BY <1>1, <2>2, HostWrites DEF PolicyStep, EnsureAuthorizationPolicy, DeletePolicy,
       DeleteUnlistedPolicy
  <2>3. PICK x \in todo : IdentityStep(x)
    BY <2>1, <2>2, OtherWrites DEF Next, Step, Kinds, IdentityKinds
  <2> QED
    BY <1>1, <2>3 DEF IdentityStep, CleanupIAMPolicyMember, CleanupIAMServiceAccount,
       DeleteServiceAccount, Removing
<1>3. CreateIAMPolicyMember(x) /\ Write("PM", api["PM"] \cup {Member(x, at - 2)})
  <2>1. ~ReadOnly /\ \A k \in {"SA", "GSA"} : \A objects : ~Write(k, objects)
    BY <1>k, WriteEffect DEF ReadOnly
  <2> QED
    BY <1>2, <2>1 DEF ReconcileIAMServiceAccount, ReconcileServiceAccount, CreateIAMPolicyMember
<1>4. o = Member(x, at - 2) /\ api'["SA"] = api["SA"]
  BY <1>3, <1>k, WriteEffect
<1>5. cur = x /\ Account(x) \in api["SA"]
  BY <1>1, <1>3 DEF CreateIAMPolicyMember, Taking, Creating, CoreTypeOK
<1> QED
  BY <1>4, <1>5 DEF Member, Account

\* A ServiceAccount goes with its owner, for a patched one, or after its members.
LEMMA AccountsLeave ==
    ASSUME AllAtHome, MInv, [Next]_vars, NEW a \in api["SA"], a \notin api'["SA"],
           NEW o \in api'["PM"], o \in api["PM"], o.role # 3,
           a.env = o.env, a.sa = o.sa, a.owner = o.owner
    PROVE  OwnerGone(o) \/ \E b \in api'["SA"] : b.env = o.env /\ b.sa = o.sa /\ b.owner = o.owner
<1> USE DEF MInv, SInv, TInv, GInv, FInv
<1>k. {"SA", "GSA", "PM"} \subseteq Kinds
  BY DEF Kinds
<1> SUFFICES ASSUME ~OwnerGone(o)
             PROVE  \E b \in api'["SA"] : b.env = o.env /\ b.sa = o.sa /\ b.owner = o.owner
  OBVIOUS
<1>1. ~OwnerGone(a)
  BY DEF OwnerGone
<1>2. PICK x \in todo : IdentityStep(x)
  <2>1. ASSUME NEW x, HostStep(x) \/ PolicyStep(x)
        PROVE  FALSE
    BY <2>1, HostWrites, PolicyWrites DEF Kinds, IdentityKinds
  <2>2. ~CleanupGateway
    BY GatewayWrites DEF Kinds
  <2> QED
    BY <1>1, <2>1, <2>2, OtherWrites DEF Next, Step, Kinds, IdentityKinds
<1>3. PICK objects : Write("SA", objects) /\ api'["SA"] = objects /\ a \notin objects
                     /\ \/ ReconcileServiceAccount(x)
                           /\ objects = (api["SA"] \ Of(api["SA"], x)) \cup {Account(x)}
                        \/ DeleteServiceAccount(x) /\ ~kept
                           /\ objects = api["SA"] \ Of(api["SA"], x)
  <2>1. ~ReadOnly /\ \A k \in {"PM", "GSA"} : \A objects : ~Write(k, objects)
    BY <1>k, WriteEffect DEF ReadOnly
  <2>2. PICK objects : Write("SA", objects)
                       /\ \/ ReconcileServiceAccount(x)
                             /\ objects = (api["SA"] \ Of(api["SA"], x)) \cup {Account(x)}
                          \/ DeleteServiceAccount(x) /\ ~kept
                             /\ objects = api["SA"] \ Of(api["SA"], x)
    BY <1>2, <2>1 DEF IdentityStep, ReconcileIAMServiceAccount, ReconcileServiceAccount,
       CreateIAMPolicyMember, CleanupIAMPolicyMember, CleanupIAMServiceAccount,
       DeleteServiceAccount
  <2> QED
    BY <1>k, <2>2, WriteEffect
<1>4. a.env = spec.env /\ a.sa = x
  BY <1>3 DEF Of
<1>5. CASE ReconcileServiceAccount(x)
           /\ objects = (api["SA"] \ Of(api["SA"], x)) \cup {Account(x)}
  <2>1. o.owner = Owner
    BY <1>4, <1>5, OnlyOwner, OwnerTypes DEF ReconcileServiceAccount, NextPhase
  <2>2. Account(x) \in api'["SA"]
    BY <1>3, <1>5
  <2>3. Account(x).env = o.env /\ Account(x).sa = o.sa /\ Account(x).owner = o.owner
    BY <1>4, <2>1 DEF Account
  <2> QED
    BY <2>2, <2>3
<1>6. CASE DeleteServiceAccount(x) /\ ~kept
  <2>1. pc \in {"removeSAs", "removeSAsAgain"} /\ at = 5 /\ cur = x
    BY <1>6 DEF DeleteServiceAccount, Removing, Taking, MembersGone
  <2>2. \A n \in 1 .. 3 : OfRole(api["PM"], x, CleanedRoles[n]) = {}
    BY <1>6, <2>1 DEF MembersGone
  <2>3. \A r \in {1, 2, 4} : OfRole(api["PM"], x, r) = {}
    BY <2>2 DEF CleanedRoles
  <2>4. o.role \in {1, 2, 4}
    BY OwnerTypes
  <2> QED
    BY <1>4, <2>3, <2>4 DEF OfRole, Of
<1> QED
  BY <1>3, <1>5, <1>6

LEMMA MembersOwnedNext ==
    ASSUME AllAtHome, FreshIdentityCaches, MInv, [Next]_vars
    PROVE  MembersOwned'
<1> USE DEF MInv, SInv, TInv, GInv, FInv
<1> SUFFICES ASSUME NEW o \in api'["PM"], o.role # 3, ~OwnerGone(o)'
             PROVE  \E a \in api'["SA"] : a.env = o.env /\ a.sa = o.sa /\ a.owner = o.owner
  BY DEF MembersOwned
<1>1. CASE o \notin api["PM"]
  BY <1>1, MembersGrow
<1>2. CASE o \in api["PM"]
  <2>1. ~OwnerGone(o)
    BY <1>2, OwnersStayGone, OwnerTypes DEF OwnersKnown
  <2>2. PICK a \in api["SA"] : a.env = o.env /\ a.sa = o.sa /\ a.owner = o.owner
    BY <1>2, <2>1 DEF MembersOwned
  <2>3. CASE a \notin api'["SA"]
    BY <1>2, <2>1, <2>2, <2>3, AccountsLeave
  <2> QED
    BY <2>2, <2>3
<1> QED
  BY <1>1, <1>2

LEMMA MInvInit == Init => MInv
<1> SUFFICES ASSUME Init PROVE MInv  OBVIOUS
<1>1. pc = "idle" /\ api["SA"] = {} /\ api["PM"] = {}
  BY DEF Init, ClusterInit, WorkerInit, Kinds
<1> QED
  BY <1>1, SInvInit DEF MInv, OwnersKnown, MembersOwned, Creating, MembersGone

LEMMA MInvNext ==
    ASSUME AllAtHome, FreshIdentityCaches, MInv, [Next]_vars
    PROVE  MInv'
BY SInvNext, OwnersNext, MembersOwnedNext, CreatingNext, MembersGoneNext DEF MInv

LEMMA MInvSuffices == MInv => MembersAnchored
BY DEF MInv, MembersOwned, MembersAnchored

\* The members of an account are made after its ServiceAccount and deleted before it
\* (reconciler.go:20-60, cleanup.go:66-98): when the caches of both do not lag and
\* every CR lives in the namespace of its objects, the cleanup finds every member whose
\* owner is stored by its ServiceAccount, wherever a reconcile failed or ended and
\* whichever incarnation of the CR went before.
THEOREM MembersAreAnchored ==
    ASSUME AllAtHome, FreshIdentityCaches
    PROVE  Spec => []MembersAnchored
<1>1. MInv /\ [Next]_vars => MInv'
  BY MInvNext
<1> QED
  BY MInvInit, <1>1, MInvSuffices, PTL DEF Spec

-----------------------------------------------------------------------------
(* The accounts of a settled CR.                                            *)

\* ServiceAccounts leave the loop when they are deleted, or stay with an error noted.
LEMMA DroppingWork ==
    ASSUME DInv, Works, pc = "removeSAsAgain", ~failed', NEW a \in DroppedAccounts',
           a \in api["SA"]
    PROVE  a.sa \in todo'
<1> USE DEF DInv, SInv, TInv, GInv, FInv
<1>1. UNCHANGED <<pc, job>>
  BY DEF Works
<1>2. PICK x \in todo : \/ CleanupIAMPolicyMember(x) \/ CleanupIAMServiceAccount(x)
                       \/ DeleteServiceAccount(x)
  BY WorkingIdentity
<1>3. ~failed
  <2>1. \E bad : NextCallNoting(x, bad) \/ DoneNoting(x, bad)
    BY <1>2 DEF CleanupIAMPolicyMember, CleanupIAMServiceAccount, DeleteServiceAccount,
       NextCall, DoneWith
  <2> QED
    BY <2>1, Zenon DEF NextCallNoting, DoneNoting
<1>4. a \in DroppedAccounts /\ a.sa \in todo
  BY <1>1, <1>3 DEF DroppedAccounts, spec, Listed, Dropping
<1>5. CASE CleanupIAMPolicyMember(x) \/ CleanupIAMServiceAccount(x)
  BY <1>4, <1>5 DEF CleanupIAMPolicyMember, CleanupIAMServiceAccount, NextCall, NextCallNoting
<1>6. CASE DeleteServiceAccount(x)
  <2>1. ~DoneNoting(x, TRUE)
    BY DEF DoneNoting
  <2>2. todo' = todo \ {x} /\ Write("SA", api["SA"] \ Of(api["SA"], x))
    BY <1>6, <2>1 DEF DeleteServiceAccount, DoneWith, DoneNoting
  <2>3. a.sa # x
    BY <1>1, <2>2, WriteEffect DEF DroppedAccounts, Of, spec, Kinds
  <2> QED
    BY <1>4, <2>2, <2>3
<1> QED
  BY <1>2, <1>5, <1>6

\* The second removal begins with every account that is dropped, and ends with none.
LEMMA DroppingNext ==
    ASSUME "SA" \notin Lagging, DInv, [Next]_vars
    PROVE  Dropping'
<1> USE DEF DInv, SInv, TInv, GInv, FInv
<1> DEFINE After == {"externalHosts", "cloudSQLHosts", "authzPolicies", "removedAuthz",
                     "internalHosts", "externalGateway", "cloudSQLGateway"}
<1>1. CASE pc' \notin {"removeSAsAgain"} \cup After
  BY <1>1 DEF Dropping
<1>2. CASE pc' \in {"removeSAsAgain"} \cup After
  <2>1. BeginsPhase \/ Waits \/ Works
    BY <1>2, PhaseSteps DEF NextPhase
  <2>2. job' = job /\ spec' = spec /\ Listed' = Listed
    BY <2>1 DEF BeginsPhase, Waits, Works, workerVars, spec, Listed
  <2>3. api'["SA"] \subseteq api["SA"]
    <3>1. pc # "serviceAccounts"
      BY <1>2, <2>1 DEF BeginsPhase, Waits, Works, workerVars, NextPhase
    <3> QED
      BY <3>1, IdentitiesGrow DEF IdentityKinds
  <2>4. DroppedAccounts' \subseteq DroppedAccounts
    BY <2>2, <2>3 DEF DroppedAccounts
  <2>5. CASE pc' \in After
    <3>1. pc \in After \/ (pc = "removeSAsAgain" /\ todo = {} /\ ~failed)
      BY <2>1, <2>5 DEF BeginsPhase, Waits, Works, workerVars, NextPhase
    <3>2. DroppedAccounts = {}
      BY <3>1 DEF Dropping
    <3> QED
      BY <2>4, <2>5, <3>2 DEF Dropping
  <2>6. CASE pc' = "removeSAsAgain"
    <3> SUFFICES ASSUME ~failed', NEW a \in DroppedAccounts'
                 PROVE  a.sa \in todo'
      BY <2>6 DEF Dropping
    <3>1. CASE BeginsPhase
      <4>1. todo' = RemovedItems
        BY <2>6, <3>1 DEF BeginsPhase, EnterPhase, PhaseItems
      <4>2. View("SA") = api["SA"]
        BY DEF StoreOK, View
      <4> QED
        BY <2>4, <4>1, <4>2 DEF DroppedAccounts, RemovedItems
    <3>2. CASE Waits
      <4>1. UNCHANGED <<pc, todo, failed>>
        BY <3>2 DEF Waits, workerVars
      <4> QED
        BY <2>4, <2>6, <4>1 DEF Dropping
    <3>3. CASE Works
      BY <2>3, <2>6, <3>3, DroppingWork DEF DroppedAccounts, Works
    <3> QED
      BY <2>1, <3>1, <3>2, <3>3
  <2> QED
    BY <1>2, <2>5, <2>6
<1> QED
  BY <1>1, <1>2

LEMMA SettledAccountsNext ==
    ASSUME OnePerPair, DInv, [Next]_vars
    PROVE  SettledAccounts'
<1> USE DEF DInv
<1> SUFFICES ASSUME NEW c \in CRs, Settled(c)', NEW a \in api'["SA"],
                    a.env = utsa'[c].spec.env
             PROVE  a.sa \in DOMAIN utsa'[c].spec.sas
  BY DEF SettledAccounts
<1>1. utsa'[c] = utsa[c] /\ (Settled(c) \/ Finishing(c))
  BY SettledBefore
<1>2. CASE Settled(c)
  <2>1. a \in api["SA"]
    BY <1>1, <1>2, IdentitiesGrow, SettledElsewhere DEF SInv, IdentityKinds
  <2> QED
    BY <1>1, <1>2, <2>1 DEF SettledAccounts
<1>3. CASE Finishing(c)
  <2>1. a \in api["SA"] /\ DroppedAccounts = {}
    BY <1>3 DEF Finishing, Dropping
  <2> QED
    BY <1>1, <1>3, <2>1 DEF Finishing, DroppedAccounts, Listed
<1> QED
  BY <1>1, <1>2, <1>3

LEMMA DInvInit == Init => DInv
<1> SUFFICES ASSUME Init PROVE DInv  OBVIOUS
<1>1. pc = "idle" /\ \A c \in CRs : ~utsa[c].live
  BY DEF Init, ClusterInit, WorkerInit
<1> QED
  BY <1>1, SInvInit DEF DInv, Dropping, SettledAccounts, Settled

\* A member that is not the garbage collector's has a ServiceAccount, and that is listed.
LEMMA IdentitiesSettled == MInv /\ DInv => SettledIdentities
<1> SUFFICES ASSUME MInv, DInv, NEW c \in CRs, Settled(c), NEW k \in {"SA", "PM"},
                    NEW o \in api[k], o.env = utsa[c].spec.env,
                    k = "PM" => o.role # 3 /\ ~OwnerGone(o)
             PROVE  o.sa \in DOMAIN utsa[c].spec.sas
  BY DEF SettledIdentities
<1>1. CASE k = "SA"
  BY <1>1 DEF DInv, SettledAccounts
<1>2. CASE k = "PM"
  <2>1. PICK a \in api["SA"] : a.env = o.env /\ a.sa = o.sa
    BY <1>2 DEF MInv, MembersOwned
  <2> QED
    BY <2>1 DEF DInv, SettledAccounts
<1> QED
  BY <1>1, <1>2

\* Reconcile takes away the identities of dropped accounts (cleanup.go:38-98): when
\* the caches of ServiceAccounts and members do not lag and every CR lives in the
\* namespace of its objects, an account that a settled CR does not list has no
\* ServiceAccount, and no member apart from the role the cleanup leaves out and
\* what is left to the garbage collector.
THEOREM IdentitiesStaySettled ==
    ASSUME AllAtHome, FreshIdentityCaches
    PROVE  Spec => []SettledIdentities
<1>1. MInv /\ [Next]_vars => MInv'
  BY MInvNext
<1>2. DInv /\ [Next]_vars => DInv'
  BY SInvNext, DroppingNext, SettledAccountsNext
     DEF DInv, FreshIdentityCaches, OnePerPair
<1> QED
  BY MInvInit, DInvInit, <1>1, <1>2, IdentitiesSettled, PTL DEF Spec
=============================================================================
