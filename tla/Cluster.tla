------------------------------ MODULE Cluster ------------------------------
(***************************************************************************)
(* What surrounds the operator: the Kubernetes API server with the         *)
(* UnionTeamServiceAccounts resources (CRs) and the objects the operator    *)
(* writes, the informer caches its reads are served from, the users who    *)
(* submit and delete CRs, the garbage collector, and the work queue that   *)
(* watch events feed.  None of this is code of the repository: it is       *)
(* modelled from how internal/controller and cmd/main.go use it.           *)
(*                                                                         *)
(* An object is the record of the labels and fields the operator reads     *)
(* back; a name that is unique by construction is left out of it.          *)
(***************************************************************************)
EXTENDS Naturals, FiniteSets

CONSTANTS
    CRs,              \* the UnionTeamServiceAccounts resources users may create
    CRName,           \* CRName[c]: the metadata.name of CR c, unique in its namespace
    Home,             \* Home[c]: the environment in whose namespace CR c lives
    Envs,             \* (project, domain) pairs
    SaNames,          \* service account names
    Hosts,            \* hosts: allowlist entries, on-prem VIPs, CloudSQL hosts
    Specs,            \* Specs[c]: the specs users submit for CR c
    Lagging,          \* the kinds whose informer cache may lag behind
    CloudSQLGateway,  \* TRUE when someone has created the CloudSQL gateway
    MaxUid,           \* bound: how often a CR may be (re)created
    MaxGen,           \* bound: how often a user edits one incarnation of a CR
    MaxDisturbances   \* bound: failing calls, restarts and resyncs, together

Kinds == {"GW", "VS", "DR", "SE", "AP", "SA", "GSA", "PM"}

\* One serviceAccounts[] entry of a spec, and a spec: sas maps each listed
\* service account name to its entry.  Nothing keeps a name from being listed
\* twice in the source; such a spec is left out.
Entry == [ext : SUBSET Hosts, int : SUBSET Hosts, sql : SUBSET Hosts]
IsSpec(s) ==
    /\ DOMAIN s = {"env", "sas"} /\ s.env \in Envs
    /\ DOMAIN s.sas \subseteq SaNames /\ \A n \in DOMAIN s.sas : s.sas[n] \in Entry

ASSUME ClusterAssumption ==
    /\ \A c \in CRs : Specs[c] # {} /\ \A s \in Specs[c] : IsSpec(s)
    /\ \A c, d \in CRs : CRName[c] = CRName[d] /\ Home[c] = Home[d] => c = d
    /\ Lagging \subseteq Kinds
    /\ CloudSQLGateway \in BOOLEAN
    /\ MaxUid \in Nat /\ MaxGen \in Nat /\ MaxDisturbances \in Nat

\* The CR as the API server and the informer hold it.  uid tells incarnations
\* apart; two equal records have the same resourceVersion, because gen counts
\* the edits and del and fin each change at most once per direction.
AllSpecs == UNION {Specs[c] : c \in CRs}
Resource == [live : BOOLEAN, uid : 0 .. MaxUid, gen : 0 .. MaxGen,
             spec : AllSpecs, del : BOOLEAN, fin : BOOLEAN]

\* The gateway for CloudSQL is deployed beside the operator with host "*".
InitialGateways == IF CloudSQLGateway
                   THEN {[name |-> "cloudsql", hosts |-> {"*"}]} ELSE {}

\* The four IAMPolicyMembers of one service account, in creation order.
MemberRoles == <<"workload-identity-user", "data-bucket-object-admin",
                 "data-bucket-viewer", "fast-registration-bucket-viewer">>

Owners == [cr : CRs, uid : 0 .. MaxUid]

Objects(k) ==
    CASE k = "GW" -> [name : {"external", "cloudsql"}, hosts : SUBSET (Hosts \cup {"*"})]
      [] k \in {"VS", "SE"} -> [host : Hosts]
      [] k = "DR" -> [host : Hosts, to : BOOLEAN]
      [] k = "AP" -> [env : Envs, sa : SaNames, host : Hosts, parent : Hosts,
                      type : {"external", "internal"}]
      [] k \in {"SA", "GSA"} -> [env : Envs, sa : SaNames, owner : Owners]
      [] k = "PM" -> [env : Envs, sa : SaNames, role : 1 .. 4, owner : Owners]

VARIABLES
    utsa,         \* the CRs, as the API server stores them
    seenUtsa,     \* the CRs, as the informer cache shows them
    api,          \* api[k]: the objects of kind k the API server stores
    stale,        \* the kinds whose cache is behind the API server
    seen,         \* seen[k]: what the cache of a stale kind shows, else {}
    queue,        \* the work queue: CRs waiting to be reconciled
    disturbances  \* how much of MaxDisturbances is used up

clusterVars == <<utsa, seenUtsa, api, stale, seen, queue, disturbances>>

ClusterTypeOK ==
    /\ utsa \in [CRs -> Resource] /\ seenUtsa \in [CRs -> Resource]
    /\ DOMAIN api = Kinds /\ DOMAIN seen = Kinds
    /\ \A k \in Kinds : api[k] \subseteq Objects(k) /\ seen[k] \subseteq Objects(k)
    /\ stale \subseteq Lagging
    /\ queue \subseteq CRs
    /\ disturbances \in 0 .. MaxDisturbances

ClusterInit ==
    /\ utsa = [c \in CRs |-> [live |-> FALSE, uid |-> 0, gen |-> 0,
                              spec |-> CHOOSE s \in Specs[c] : TRUE,
                              del |-> FALSE, fin |-> FALSE]]
    /\ seenUtsa = utsa
    /\ api = [k \in Kinds |-> IF k = "GW" THEN InitialGateways ELSE {}]
    /\ stale = {}
    /\ seen = [k \in Kinds |-> {}]
    /\ queue = {}
    /\ disturbances = 0

-----------------------------------------------------------------------------
(* Reads and writes.  Every Get and List is served by the cache; every      *)
(* Create, Update, Patch and Delete goes to the API server.                 *)

View(k) == IF k \in stale THEN seen[k] ELSE api[k]

\* The API server takes the objects new[k] of every kind k.  The caches of the
\* lagging kinds that changed go on showing what they showed.
Commit(new) ==
    LET behind == stale \cup {k \in Lagging : new[k] # api[k]} IN
    /\ api' = new
    /\ stale' = behind
    /\ seen' = [k \in Kinds |-> IF k \in behind THEN View(k) ELSE {}]

Write(k, objects) == Commit([api EXCEPT ![k] = objects])

ReadOnly == UNCHANGED <<api, stale, seen>>

Disturb == disturbances < MaxDisturbances /\ disturbances' = disturbances + 1

-----------------------------------------------------------------------------
(* Users.                                                                   *)

\* The Kyverno rule looks for another live CR of the same project and domain with
\* another metadata.name, whatever its namespace.
AdmittedMutant(c, s) == TRUE  \* the rule only audits

Admitted(c, s) ==
    ~\E d \in CRs : utsa[d].live /\ utsa[d].spec.env = s.env /\ CRName[d] # CRName[c]

UserCreate(c, s) ==
    /\ Admitted(c, s)
    /\ ~utsa[c].live /\ utsa[c].uid < MaxUid
    /\ utsa' = [utsa EXCEPT ![c] = [live |-> TRUE, uid |-> @.uid + 1, gen |-> 0,
                                    spec |-> s, del |-> FALSE, fin |-> FALSE]]
    /\ UNCHANGED <<seenUtsa, api, stale, seen, queue, disturbances>>

\* Kubernetes lets a user edit the spec of a CR that is being deleted, too.
UserEdit(c, s) ==
    /\ Admitted(c, s)
    /\ utsa[c].live /\ utsa[c].gen < MaxGen /\ s # utsa[c].spec
    /\ utsa' = [utsa EXCEPT ![c].spec = s, ![c].gen = @ + 1]
    /\ UNCHANGED <<seenUtsa, api, stale, seen, queue, disturbances>>

\* A CR that holds a finalizer is only marked for deletion.
UserDelete(c) ==
    /\ utsa[c].live /\ ~utsa[c].del
    /\ utsa' = IF utsa[c].fin THEN [utsa EXCEPT ![c].del = TRUE]
                              ELSE [utsa EXCEPT ![c].live = FALSE]
    /\ UNCHANGED <<seenUtsa, api, stale, seen, queue, disturbances>>

(* Informers.  A cache catches up in one step; each changed CR is queued.    *)

Observe ==
    /\ seenUtsa # utsa
    /\ seenUtsa' = utsa
    /\ queue' = queue \cup {c \in CRs : seenUtsa[c] # utsa[c]}
    /\ UNCHANGED <<utsa, api, stale, seen, disturbances>>

CatchUp(k) ==
    /\ k \in stale
    /\ stale' = stale \ {k}
    /\ seen' = [seen EXCEPT ![k] = {}]
    /\ UNCHANGED <<utsa, seenUtsa, api, queue, disturbances>>

\* The periodic resync of the informer queues a CR that did not change.
Resync(c) ==
    /\ seenUtsa[c].live /\ c \notin queue
    /\ queue' = queue \cup {c}
    /\ Disturb
    /\ UNCHANGED <<utsa, seenUtsa, api, stale, seen>>

(* The garbage collector looks for the owner in the namespace of the object *)
(* and deletes the objects of one kind whose owner is not there.            *)

OwnerGone(o) ==
    LET c == o.owner.cr IN
    ~utsa[c].live \/ utsa[c].uid # o.owner.uid \/ Home[c] # o.env

GarbageCollect(k) ==
    /\ k \in {"SA", "GSA", "PM"}
    /\ \E o \in api[k] : OwnerGone(o)
    /\ Write(k, {o \in api[k] : ~OwnerGone(o)})
    /\ UNCHANGED <<utsa, seenUtsa, queue, disturbances>>
=============================================================================
