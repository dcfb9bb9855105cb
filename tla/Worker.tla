------------------------------- MODULE Worker -------------------------------
(***************************************************************************)
(* The one worker of the controller (MaxConcurrentReconciles is left at 1) *)
(* and the registers of the Reconcile call it is in.  A phase of Reconcile *)
(* is a loop over todo; a step of it is one call to the API server, with   *)
(* the cached reads that decide it.  The order of a loop is the order in   *)
(* which the user listed the entries, so any element of todo may come next.*)
(***************************************************************************)
EXTENDS Cluster

CONSTANT None    \* no element, no gateway

ASSUME WorkerAssumption ==
    CRs # {} /\ None \notin SaNames /\ None \notin SaNames \X Hosts /\ None \notin Objects("GW")

\* The phases of Reconcile that run one after the other, each with the next one.
NextPhase == [persist          |-> "serviceAccounts",
              serviceAccounts  |-> "removeSAs",
              removeSAs        |-> "removeSAsAgain",
              removeSAsAgain   |-> "externalHosts",
              externalHosts    |-> "cloudSQLHosts",
              cloudSQLHosts    |-> "authzPolicies",
              authzPolicies    |-> "removedAuthz",
              removedAuthz     |-> "internalHosts",
              internalHosts    |-> "externalGateway",
              externalGateway  |-> "cloudSQLGateway",
              cloudSQLGateway  |-> "idle"]

PCs == DOMAIN NextPhase \cup {"idle", "addFinalizer", "finalize"}

VARIABLES
    pc,      \* the phase the worker is in
    job,     \* the CR being reconciled and the cached copy Reconcile works on
    todo,    \* what the loop of the phase has left
    cur,     \* the element of todo whose calls are under way, or None
    at,      \* the number of the next call for cur
    kept,    \* cleanupServiceAccount has failed for cur: keep its ServiceAccount
    failed,  \* an error the loop has collected
    listed,  \* the specs CleanupUnusedHosts has listed
    gw       \* the gateway a cleanup of hosts has read, or None

workerVars == <<pc, job, todo, cur, at, kept, failed, listed, gw>>

NoJob == LET c == CHOOSE c \in CRs : TRUE IN
         [cr |-> c, obj |-> [live |-> FALSE, uid |-> 0, gen |-> 0,
                             spec |-> CHOOSE s \in Specs[c] : TRUE,
                             del |-> FALSE, fin |-> FALSE]]

WorkerTypeOK ==
    /\ pc \in PCs
    /\ job \in [cr : CRs, obj : Resource]
    /\ at \in 1 .. 6
    /\ kept \in BOOLEAN /\ failed \in BOOLEAN
    /\ listed \subseteq AllSpecs
    /\ gw = None \/ gw \in Objects("GW")

WorkerInit ==
    /\ pc = "idle" /\ job = NoJob /\ todo = {} /\ cur = None /\ at = 1
    /\ kept = FALSE /\ failed = FALSE /\ listed = {} /\ gw = None

\* The spec Reconcile works on, and the names of its service accounts.
spec == job.obj.spec
Listed == DOMAIN spec.sas
Owner == [cr |-> job.cr, uid |-> job.obj.uid]

-----------------------------------------------------------------------------
(* How a step leaves the registers.                                         *)

EnterPhase(p, items) ==
    /\ pc' = p /\ todo' = items /\ cur' = None /\ at' = 1
    /\ kept' = FALSE /\ failed' = FALSE

\* x is taken up, or the calls for x go on.
Taking(x) == x \in todo /\ cur \in {None, x}

\* The call is made; bad says whether it failed and the code only notes that.
NextCallNoting(x, bad) ==
    /\ cur' = x /\ at' = at + 1 /\ kept' = (kept \/ bad)
    /\ UNCHANGED <<pc, job, todo, failed, listed, gw, queue>>

\* The last call for x is made; bad says whether x ends with a collected error.
DoneNoting(x, bad) ==
    /\ todo' = todo \ {x} /\ cur' = None /\ at' = 1 /\ kept' = FALSE
    /\ failed' = (failed \/ bad)
    /\ UNCHANGED <<pc, job, listed, gw, queue>>

NextCall(x) == NextCallNoting(x, FALSE)
DoneWith(x) == DoneNoting(x, FALSE)

Forget ==
    /\ pc' = "idle" /\ job' = NoJob /\ todo' = {} /\ cur' = None /\ at' = 1
    /\ kept' = FALSE /\ failed' = FALSE /\ listed' = {} /\ gw' = None

ReturnNil == Forget /\ UNCHANGED queue

\* controller-runtime puts the request back on the queue, after a back-off.
ReturnError == Forget /\ queue' = queue \cup {job.cr}

-----------------------------------------------------------------------------
(* A call of the current phase fails and the phase returns the error.       *)
CallFails ==
    /\ pc # "idle"
    /\ Disturb
    /\ ReturnError
    /\ ReadOnly
    /\ UNCHANGED <<utsa, seenUtsa>>

(* The process ends and the next leader takes over: the registers are lost, *)
(* the caches are listed anew, and every CR is queued.                      *)
Restart ==
    /\ Disturb
    /\ Forget
    /\ seenUtsa' = utsa
    /\ stale' = {} /\ seen' = [k \in Kinds |-> {}]
    /\ queue' = {c \in CRs : utsa[c].live}
    /\ UNCHANGED <<utsa, api>>
=============================================================================
