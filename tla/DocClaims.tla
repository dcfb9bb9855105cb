------------------------------ MODULE DocClaims ------------------------------
(***************************************************************************)
(* Sentences of the repository that its code does not keep.  Each property *)
(* states one of them and is violated by the run of its name.              *)
(***************************************************************************)
EXTENDS Properties

Dropped(c, o) == o.env = utsa[c].spec.env /\ o.sa \notin DOMAIN utsa[c].spec.sas

\* internal/serviceaccount/cleanup.go:95-96: cleanupServiceAccount "deletes the
\* IAMServiceAccount and all associated IAMPolicyMembers for a given service
\* account".  Of a settled CR, no member of a dropped account should be left.
AllMembersDeleted == \A c \in CRs : Settled(c) => \A o \in api["PM"] : ~Dropped(c, o)

\* internal/serviceaccount/cleanup.go:177-178: cleanupRemovedServiceAccounts
\* "deletes ServiceAccounts, IAMServiceAccounts and IAMPolicyMembers for service
\* accounts that are no longer present in the spec".
RemovedGoogleAccountsDeleted == \A c \in CRs : Settled(c) => \A o \in api["GSA"] : ~Dropped(c, o)

\* internal/serviceaccount/reconciler.go:18-19: the Reconciler "reconciles
\* ServiceAccounts, IAMServiceAccounts and IAMPolicyMembers for a Union project and
\* domain".  So a settled CR should have all of them, a re-created one too.
SettledHasIdentities ==
    \A c \in CRs : Settled(c) => \A s \in DOMAIN utsa[c].spec.sas : IdentityExists(c, s)

\* internal/controller/unionteamserviceaccounts_controller.go:114: "Handle deletion:
\* clean up all cross-namespace resources before allowing CR removal."  The
\* AuthorizationPolicies of the CR's project and domain live in istio-egress.
DeletionCleansPolicies ==
    \A c \in CRs : utsa[c].uid > 0 /\ ~utsa[c].live =>
        \A ap \in api["AP"] : ap.env # utsa[c].spec.env

\* internal/istio/authorizationpolicy.go:61-62, where Create finds that the name is
\* taken: "Stale cache: the AuthorizationPolicy exists but the label-index in the
\* informer cache has not caught up yet."
TakenNameMeansStaleCache ==
    pc = "authzPolicies" => \A i \in todo :
        LET ap == i[2]
            found == \E t \in {"external", "internal"} : [ap EXCEPT !.type = t] \in View("AP")
        IN  ~found /\ Namesakes("AP", ap) # {} => "AP" \in stale

\* internal/controller/unionteamserviceaccounts_controller.go:61: "Reconcile moves the
\* current state of the cluster closer to the desired state".  So a reconcile of a CR
\* that is stored as Reconcile has read it should delete no policy the CR calls for.
CloserToDesired ==
    [][CopyIsCurrent /\ pc \in DOMAIN NextPhase =>
          \A i \in PolicyItems : i[2] \in api["AP"] => i[2] \in api'["AP"]]_vars

\* config/base/default/kyvernopolicy.yaml:7: the rule "Blocks the creation or
\* modification of UnionTeamServiceAccounts resources if there already exists another
\* UnionTeamServiceAccounts resource for the same Union project and domain."
OneResourcePerEnv ==
    \A c, d \in CRs : utsa[c].live /\ utsa[d].live /\ utsa[c].spec.env = utsa[d].spec.env => c = d
=============================================================================
