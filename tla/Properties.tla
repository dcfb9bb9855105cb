----------------------------- MODULE Properties -----------------------------
(***************************************************************************)
(* What the operator must guarantee.  Each property names the code it is   *)
(* about; which caches may lag, and what else a run assumes, is said by    *)
(* the constants of the run's .cfg.                                        *)
(***************************************************************************)
EXTENDS UnionOperator

\* The variables have their types.
TypeOK == ClusterTypeOK /\ WorkerTypeOK /\ HistoryTypeOK

-----------------------------------------------------------------------------
(* The history comes first (controller.go:144-151).                         *)

\* The rows of the history about the service account of object o.
RowsOf(o) == {row \in history : row.env = o.env /\ row.sa = o.sa}

\* Whatever a service account is given was allowed by a row written before: its
\* identity by a row of that account, a policy by one that lists its (parent)
\* host.  The routes of a host were allowed to some account.
IdentitiesRecorded == \A k \in {"SA", "GSA", "PM"} : \A o \in api[k] : RowsOf(o) # {}
PoliciesRecorded ==
    \A ap \in api["AP"] : \E row \in RowsOf(ap) :
        ap.parent \in IF ap.type = "internal" THEN row.entry.int
                                              ELSE row.entry.ext \cup row.entry.sql
RoutesRecorded ==
    \A k \in {"VS", "DR", "SE"} : \A o \in api[k] :
        \E row \in history : o.host \in row.entry.ext \cup row.entry.sql
GrantsRecorded == IdentitiesRecorded /\ PoliciesRecorded /\ RoutesRecorded

-----------------------------------------------------------------------------
(* The finalizer (controller.go:115-142).                                   *)

\* While Reconcile grants anything for a CR, that very incarnation of the CR is
\* stored and holds the finalizer, whatever the cache said when it started: no
\* grant can be made after the finalizer has cleaned up.
FinalizerHeld ==
    pc \in DOMAIN NextPhase =>
        /\ utsa[job.cr].live /\ utsa[job.cr].fin
        /\ utsa[job.cr].uid = job.obj.uid

\* When the finalizer of a CR is removed, no AuthorizationPolicy is left for the
\* accounts the CR lists at that moment, though its spec may have been edited and
\* deletes may have failed while the cleanup ran.
FinalizerCleansPolicies ==
    [][\A c \in CRs : utsa[c].fin /\ ~utsa'[c].fin =>
          \A ap \in api["AP"] : ap.env = utsa[c].spec.env => ap.sa \notin DOMAIN utsa[c].spec.sas]_vars

\* A deletion is completed, whatever happens to the other CRs meanwhile.
DeletionCompletes == \A c \in CRs : utsa[c].del ~> ~utsa[c].live

-----------------------------------------------------------------------------
(* What a settled CR may rely on.                                           *)

\* c is stored, the cache shows it, and the worker has finished with it.
Settled(c) ==
    /\ utsa[c].live /\ ~utsa[c].del /\ seenUtsa[c] = utsa[c]
    /\ c \notin queue /\ (pc = "idle" \/ job.cr # c)

RouteExists(h, gateway) ==
    /\ \E g \in Gateways(api["GW"], gateway) : h \in g.hosts
    /\ [host |-> h] \in api["VS"] /\ [host |-> h] \in api["SE"]
    /\ \A to \in BOOLEAN : [host |-> h, to |-> to] \in api["DR"]

PolicyExists(c, s, h, parent) ==
    \E ap \in api["AP"] : /\ ap.env = utsa[c].spec.env /\ ap.sa = s
                          /\ ap.host = h /\ ap.parent = parent

IdentityExists(c, s) ==
    LET mine(k) == {o \in api[k] : o.env = utsa[c].spec.env /\ o.sa = s} IN
    /\ mine("SA") # {} /\ mine("GSA") # {}
    /\ \A r \in 1 .. 4 : \E o \in mine("PM") : o.role = r

\* c lives in the namespace of its objects, so that they may name it as their owner.
AtHome(c) == Home[c] = utsa[c].spec.env

\* Account s of CR c reaches what it lists: there are the routes and policies of its
\* external and CloudSQL hosts, and the policies of its on-prem hosts and their VIPs.
Reaches(c, s) ==
    LET e == utsa[c].spec.sas[s] IN
    /\ \A h \in e.ext : RouteExists(h, "external") /\ PolicyExists(c, s, h, h)
    /\ \A h \in e.sql : RouteExists(h, "cloudsql") /\ PolicyExists(c, s, h, h)
    /\ \A h \in e.int \cap DOMAIN Onprem :
          /\ PolicyExists(c, s, h, h)
          /\ \A v \in Onprem[h] : PolicyExists(c, s, v, h)

\* The accounts of a settled CR reach the hosts they list.  In particular no other CR's
\* reconcile takes any route or policy away (cleanup.go:34-53 works on the CRs of all
\* teams).
SettledReach ==
    \A c \in CRs : Settled(c) => \A s \in DOMAIN utsa[c].spec.sas : Reaches(c, s)

\* A settled CR has all it lists: each account reaches its hosts and, if the CR is at
\* home, has its identity.
SettledServed ==
    \A c \in CRs : Settled(c) => \A s \in DOMAIN utsa[c].spec.sas :
        Reaches(c, s) /\ (AtHome(c) => IdentityExists(c, s))

\* Of a settled CR's project and domain no policy is left for an account it does
\* not list, and no on-prem policy for a host its account does not list.
SettledRevoked ==
    \A c \in CRs : Settled(c) => \A ap \in api["AP"] : ap.env = utsa[c].spec.env =>
        /\ ap.sa \in DOMAIN utsa[c].spec.sas
        /\ ap.type = "internal" => ap.parent \in utsa[c].spec.sas[ap.sa].int

\* Of a settled CR's project and domain no ServiceAccount is left for an account
\* it does not list, and no member but the one role the cleanup leaves out and
\* those whose owner is gone, which are the garbage collector's.
SettledIdentities ==
    \A c \in CRs : Settled(c) => \A k \in {"SA", "PM"} : \A o \in api[k] :
        /\ o.env = utsa[c].spec.env
        /\ k = "PM" => o.role # 3 /\ ~OwnerGone(o)
        => o.sa \in DOMAIN utsa[c].spec.sas

\* Once every CR ever created is settled, only hosts that some CR lists are left:
\* in the gateway for external hosts, as routes, and as policies of external hosts.
\* (A policy of a host the account has dropped stays while others use the host.)
ListedHosts ==
    UNION {UNION {x.sas[s].ext \cup x.sas[s].sql : s \in DOMAIN x.sas} :
           x \in {utsa[c].spec : c \in {d \in CRs : utsa[d].live}}}
UnusedHostsRemoved ==
    (\A c \in CRs : Settled(c) \/ utsa[c].uid = 0) =>
        /\ \A k \in {"VS", "DR", "SE"} : \A o \in api[k] : o.host \in ListedHosts
        /\ \A g \in Gateways(api["GW"], "external") : g.hosts \subseteq ListedHosts
        /\ \A ap \in api["AP"] : ap.type = "external" => ap.host \in ListedHosts

-----------------------------------------------------------------------------
(* What makes a cleanup that was cut short resumable.                       *)

\* Every object of a host is found again by the cleanup, because the gateway,
\* which the cleanup reads the hosts from, drops a host last (cleanup.go:201-221)
\* and gets it first (reconciler.go:21-27).
RoutesAnchored ==
    \A k \in {"VS", "DR", "SE"} : \A o \in api[k] : \E g \in api["GW"] : o.host \in g.hosts

\* Every member the cleanup would delete has its ServiceAccount, by which the
\* cleanup finds it (cleanup.go:66-72), as long as its owner exists.
MembersAnchored ==
    \A o \in api["PM"] : o.role # 3 /\ ~OwnerGone(o) =>
        \E a \in api["SA"] : a.env = o.env /\ a.sa = o.sa

-----------------------------------------------------------------------------
(* Convergence.                                                             *)

Quiescent == pc = "idle" /\ queue = {} /\ seenUtsa = utsa /\ stale = {}

\* Once the users and the disturbances stop, the operator comes to rest.
EventuallyQuiescent == <>[]Quiescent
=============================================================================
