---------------------------- MODULE Inheritance ----------------------------
(***************************************************************************)
(* What a CR has of the identities of its accounts when it takes over from *)
(* an earlier incarnation, or from another CR, before the garbage collector *)
(* has been there.  inherited is an auxiliary variable: it records which   *)
(* objects a reconcile found with another owner and left as they were.     *)
(***************************************************************************)
EXTENDS Properties

VARIABLE inherited   \* <<environment, account, number of the call that left its object>>

\* What call n of CreateOrUpdateServiceAccounts for account s of env makes sure of.
IdentityObjects(objects, env, s, n) ==
    {o \in objects[IF n = 1 THEN "GSA" ELSE IF n = 2 THEN "SA" ELSE "PM"] :
        o.env = env /\ o.sa = s /\ (n > 2 => o.role = n - 2)}

\* The accounts (one at most) for which this step makes such a call, without an error.
EnsuredNow ==
    {s \in todo : /\ pc' = "serviceAccounts"
                  /\ \/ ReconcileIAMServiceAccount(s) \/ ReconcileServiceAccount(s)
                     \/ CreateIAMPolicyMember(s)}

LeftNow == {s \in EnsuredNow : \E o \in IdentityObjects(api', spec.env, s, at) : o.owner # Owner}

inheritVars == <<vars, inherited>>

InheritInit == Init /\ inherited = {}

InheritNext ==
    /\ Next
    /\ inherited' = (inherited \ {<<spec.env, s, at>> : s \in EnsuredNow})
                        \cup {<<spec.env, s, at>> : s \in LeftNow}

InheritSpec == InheritInit /\ [][InheritNext]_inheritVars
InheritFairSpec == InheritSpec /\ Fairness

\* Only members are left as they are (serviceaccount/iam.go:90-135), and a Google
\* account whose cache does not show it.
Inheritable == (3 .. 6) \cup (IF "GSA" \in Lagging THEN {1} ELSE {})

\* owner has what call n is to make for account s of env, or has inherited it.
Equipped(env, s, n, owner) ==
    \/ \E o \in IdentityObjects(api, env, s, n) : o.owner = owner
    \/ n \in Inheritable /\ <<env, s, n>> \in inherited

\* A settled CR at home owns the ServiceAccount, the Google account and the members of
\* each account it lists, whoever had the environment before and whenever the garbage
\* collector comes (serviceaccount/reconciler.go:20-60, iam.go:63-160); all it may lack
\* is a member that its last reconcile found with another owner and left to it.
SettledEquipped ==
    \A c \in CRs : Settled(c) /\ AtHome(c) =>
        \A s \in DOMAIN utsa[c].spec.sas : \A n \in 1 .. 6 :
            Equipped(utsa[c].spec.env, s, n, [cr |-> c, uid |-> utsa[c].uid])
=============================================================================
