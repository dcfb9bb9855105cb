--------------------------- MODULE ServiceAccounts ---------------------------
(***************************************************************************)
(* internal/serviceaccount: the ServiceAccount (SA), the IAMServiceAccount *)
(* (GSA) and the four IAMPolicyMembers (PM) of every listed name, and their *)
(* removal once the name is no longer listed.  The k8s ServiceAccount is   *)
(* what the removal is found by: it is created after the GSA and deleted   *)
(* last.  Names are functions of (env, name), so objects are told apart by *)
(* these two and, for a member, its role.                                  *)
(***************************************************************************)
EXTENDS AllowlistHistory, Sequences

Of(objects, s) == {o \in objects : o.env = spec.env /\ o.sa = s}
OfRole(objects, s, r) == {o \in Of(objects, s) : o.role = r}

\* setUnionMetadata: labels and owner reference of the CR being reconciled.
Account(s) == [env |-> spec.env, sa |-> s, owner |-> Owner]
Member(s, r) == [env |-> spec.env, sa |-> s, role |-> r, owner |-> Owner]

-----------------------------------------------------------------------------
(* CreateOrUpdateServiceAccounts: six calls for each service account.       *)

EnsureItems == Listed

ReconcileIAMServiceAccountMutant(s) ==  \* takes one that exists for its own
    /\ pc = "serviceAccounts" /\ Taking(s) /\ at = 1
    /\ IF Of(View("GSA"), s) = {} /\ Of(api["GSA"], s) = {}
       THEN Write("GSA", api["GSA"] \cup {Account(s)}) ELSE ReadOnly
    /\ NextCall(s)
    /\ UNCHANGED <<utsa, seenUtsa, disturbances, history>>

\* A cached GSA is patched with what differs from the cached copy; a missing
\* one is created, and "already exists" counts as success.
ReconcileIAMServiceAccount(s) ==
    /\ pc = "serviceAccounts" /\ Taking(s) /\ at = 1
    /\ LET cached == Of(View("GSA"), s)
           stored == Of(api["GSA"], s)
       IN  \/ /\ cached = {} /\ stored = {}
              /\ Write("GSA", api["GSA"] \cup {Account(s)}) /\ NextCall(s)
           \/ /\ (cached = {} /\ stored # {}) \/ (Account(s) \in cached /\ stored # {})
              /\ ReadOnly /\ NextCall(s)
           \/ /\ cached # {} /\ Account(s) \notin cached /\ stored # {}
              /\ Write("GSA", (api["GSA"] \ stored) \cup {Account(s)}) /\ NextCall(s)
           \/ /\ cached # {} /\ stored = {}
              /\ ReadOnly /\ ReturnError
    /\ UNCHANGED <<utsa, seenUtsa, disturbances, history>>

ReconcileServiceAccountMutant(s) ==  \* creates, but does not update
    /\ pc = "serviceAccounts" /\ Taking(s) /\ at = 2
    /\ IF Of(View("SA"), s) = {} /\ Of(api["SA"], s) = {}
       THEN Write("SA", api["SA"] \cup {Account(s)}) ELSE ReadOnly
    /\ NextCall(s)
    /\ UNCHANGED <<utsa, seenUtsa, disturbances, history>>

\* controllerutil.CreateOrUpdate: "already exists" and a conflict are errors.
\* A copy from a cache that is behind may be outdated though it looks the same.
ReconcileServiceAccount(s) ==
    /\ pc = "serviceAccounts" /\ Taking(s) /\ at = 2
    /\ LET cached == Of(View("SA"), s)
           stored == Of(api["SA"], s)
           write  == Write("SA", (api["SA"] \ stored) \cup {Account(s)})
       IN  \/ cached = {} /\ stored = {} /\ write /\ NextCall(s)
           \/ cached = {} /\ stored # {} /\ ReadOnly /\ ReturnError
           \/ Account(s) \in cached /\ ReadOnly /\ NextCall(s)
           \/ /\ cached # {} /\ Account(s) \notin cached
              /\ \/ cached = stored /\ write /\ NextCall(s)
                 \/ "SA" \in stale /\ ReadOnly /\ ReturnError
    /\ UNCHANGED <<utsa, seenUtsa, disturbances, history>>

\* An existing member is left as it is, its owner reference included.
CreateIAMPolicyMember(s) ==
    /\ pc = "serviceAccounts" /\ Taking(s) /\ at \in 3 .. 6
    /\ LET r == at - 2 IN
       IF OfRole(View("PM"), s, r) = {} /\ OfRole(api["PM"], s, r) = {}
       THEN Write("PM", api["PM"] \cup {Member(s, r)})
       ELSE ReadOnly
    /\ IF at = 6 THEN DoneWith(s) ELSE NextCall(s)
    /\ UNCHANGED <<utsa, seenUtsa, disturbances, history>>

-----------------------------------------------------------------------------
(* cleanupRemovedServiceAccounts and CleanupRemovedServiceAccounts, which   *)
(* Reconcile calls one after the other, have the same body.                 *)

RemovedItems == {o.sa : o \in {a \in View("SA") : a.env = spec.env}} \ Listed

Removing(s, n) == pc \in {"removeSAs", "removeSAsAgain"} /\ Taking(s) /\ at = n

\* Three of the four members are deleted; their errors are collected.
CleanedRolesMutant == <<1, 2, 3>>  \* forgets the last role
CleanedRoles == <<1, 2, 4>>

CleanupIAMPolicyMember(s) ==
    /\ \E n \in 1 .. 3 : Removing(s, n)
    /\ LET r == CleanedRoles[at]
           found == OfRole(View("PM"), s, r) # {}
       IN  \/ /\ found /\ Write("PM", api["PM"] \ OfRole(api["PM"], s, r))
              /\ NextCall(s) /\ UNCHANGED disturbances
           \/ ~found /\ ReadOnly /\ NextCall(s) /\ UNCHANGED disturbances
           \/ found /\ Disturb /\ ReadOnly /\ NextCallNoting(s, TRUE)
    /\ UNCHANGED <<utsa, seenUtsa, history>>

\* A GSA missing from the cache is skipped; one that the cache still shows but
\* that is gone is an error of this service account.
CleanupIAMServiceAccount(s) ==
    /\ Removing(s, 4)
    /\ LET found == Of(View("GSA"), s) # {}
           stored == Of(api["GSA"], s)
       IN  \/ /\ found /\ stored # {} /\ Write("GSA", api["GSA"] \ stored)
              /\ NextCall(s) /\ UNCHANGED disturbances
           \/ ~found /\ ReadOnly /\ NextCall(s) /\ UNCHANGED disturbances
           \/ /\ found /\ stored = {} /\ ReadOnly
              /\ NextCallNoting(s, TRUE) /\ UNCHANGED disturbances
           \/ found /\ Disturb /\ ReadOnly /\ NextCallNoting(s, TRUE)
    /\ UNCHANGED <<utsa, seenUtsa, history>>

DeleteServiceAccountMutant(s) ==  \* deletes it though its cleanup failed
    /\ Removing(s, 5)
    /\ Write("SA", api["SA"] \ Of(api["SA"], s)) /\ DoneNoting(s, kept)
    /\ UNCHANGED <<utsa, seenUtsa, history, disturbances>>

\* Only when nothing failed is the ServiceAccount itself deleted.
DeleteServiceAccount(s) ==
    /\ Removing(s, 5)
    /\ \/ kept /\ ReadOnly /\ DoneNoting(s, TRUE) /\ UNCHANGED disturbances
       \/ /\ ~kept /\ Write("SA", api["SA"] \ Of(api["SA"], s))
          /\ DoneWith(s) /\ UNCHANGED disturbances
       \/ ~kept /\ Disturb /\ ReadOnly /\ DoneNoting(s, TRUE)
    /\ UNCHANGED <<utsa, seenUtsa, history>>
=============================================================================
