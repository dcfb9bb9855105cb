---------------------------- MODULE AuthzPolicies ----------------------------
(***************************************************************************)
(* internal/istio, AuthorizationPolicies (AP): one per service account and *)
(* host it may reach, and for an on-prem host one per virtual IP (VIP) with *)
(* the host as its parent.  They are removed when the service account or    *)
(* the internal host is dropped from the spec, when the external host is    *)
(* no longer in use by anyone, and by the finalizer.                        *)
(***************************************************************************)
EXTENDS EgressHosts

CONSTANTS
    Onprem,       \* Onprem[h]: the VIPs of on-prem host h (its domain: the known ones)
    Unsupported   \* on-prem hosts whose protocol is neither HTTPS nor TCP

ASSUME OnpremAssumption == \A h \in DOMAIN Onprem : Onprem[h] \subseteq Hosts

\* The policies EnsureAuthorizationPolicies makes for spec, in the order of its
\* loops: rank 1 the external hosts, 2 CloudSQL, 3 each on-prem host with its VIPs.
PolicyMutant(s, h, parent, type) ==  \* swaps the last two arguments
    [env |-> spec.env, sa |-> s, host |-> h, parent |-> type, type |-> parent]

Policy(s, h, parent, type) ==
    [env |-> spec.env, sa |-> s, host |-> h, parent |-> parent, type |-> type]

PolicyItems ==
    UNION {LET e == spec.sas[s]
               known == e.int \cap DOMAIN Onprem IN
           {<<1, Policy(s, h, h, "external")>> : h \in e.ext}
             \cup {<<2, Policy(s, h, h, "external")>> : h \in e.sql}
             \cup {<<3, Policy(s, h, h, "internal")>> : h \in known}
             \cup UNION {{<<3, Policy(s, v, h, "internal")>> : v \in Onprem[h]} : h \in known}
           : s \in Listed}

Precedes(i, j) ==
    /\ i[2].sa = j[2].sa
    /\ \/ i[1] < j[1]
       \/ i[1] = 3 /\ j[1] = 3 /\ i[2].parent = j[2].parent
          /\ i[2].host = i[2].parent /\ j[2].host # j[2].parent

\* The cache is searched by every label but the type; "already exists" on
\* Create is taken for a cache that is behind, and counts as success.
EnsureAuthorizationPolicy(i) ==
    /\ pc = "authzPolicies" /\ Taking(i) /\ \A j \in todo : ~Precedes(j, i)
    /\ LET ap == i[2]
           found == \E t \in {"external", "internal"} : [ap EXCEPT !.type = t] \in View("AP")
           unsupported == ap.type = "internal" /\ ap.parent \in Unsupported
       IN  \/ found /\ ReadOnly /\ DoneWith(i)
           \/ ~found /\ unsupported /\ ReadOnly /\ ReturnError
           \/ /\ ~found /\ ~unsupported /\ Namesakes("AP", ap) # {}
              /\ ReadOnly /\ DoneWith(i)
           \/ /\ ~found /\ ~unsupported /\ Namesakes("AP", ap) = {}
              /\ Write("AP", api["AP"] \cup {ap}) /\ DoneWith(i)
    /\ UNCHANGED <<utsa, seenUtsa, disturbances, history>>

-----------------------------------------------------------------------------
(* CleanupRemovedServiceAccountAuthzPolicies takes the policies of service  *)
(* accounts the spec does not list; the finalizer's                         *)
(* CleanupUTSAServiceAccountAuthzPolicies those of the ones it lists.       *)

RemovedPoliciesMutant ==  \* leaves the internal policies
    {ap \in View("AP") : ap.env = spec.env /\ ap.sa \notin Listed /\ ap.type = "external"}

RemovedPolicies == {ap \in View("AP") : ap.env = spec.env /\ ap.sa \notin Listed}
FinalPoliciesMutant(sp) ==  \* leaves the internal policies
    {ap \in View("AP") : ap.env = sp.env /\ ap.sa \in DOMAIN sp.sas /\ ap.type = "external"}

FinalPolicies(sp) == {ap \in View("AP") : ap.env = sp.env /\ ap.sa \in DOMAIN sp.sas}

\* A policy that is already gone is fine; other errors are collected.
DeletePolicy(ap) ==
    /\ pc \in {"removedAuthz", "finalize"} /\ Taking(ap)
    /\ \/ /\ Write("AP", api["AP"] \ Namesakes("AP", ap))
          /\ DoneWith(ap) /\ UNCHANGED disturbances
       \/ Disturb /\ ReadOnly /\ DoneNoting(ap, TRUE)
    /\ UNCHANGED <<utsa, seenUtsa, history>>

\* cleanupInternalHosts: for every listed CR, the internal policies whose parent
\* host its service account no longer lists.
UnlistedPoliciesMutant(specs) ==  \* reads the host label, not the parent's
    {ap \in View("AP") :
        /\ ap.type = "internal"
        /\ \E x \in specs : /\ ap.env = x.env /\ ap.sa \in DOMAIN x.sas
                            /\ ap.host \notin x.sas[ap.sa].int}

UnlistedPolicies(specs) ==
    {ap \in View("AP") :
        /\ ap.type = "internal"
        /\ \E x \in specs : /\ ap.env = x.env /\ ap.sa \in DOMAIN x.sas
                            /\ ap.parent \notin x.sas[ap.sa].int}

\* Here a policy that is already gone is an error, and the first error returns.
DeleteUnlistedPolicy(ap) ==
    /\ pc = "internalHosts" /\ Taking(ap)
    /\ \/ /\ Namesakes("AP", ap) # {} /\ Write("AP", api["AP"] \ Namesakes("AP", ap))
          /\ DoneWith(ap)
       \/ Namesakes("AP", ap) = {} /\ ReadOnly /\ ReturnError
    /\ UNCHANGED <<utsa, seenUtsa, disturbances, history>>
=============================================================================
