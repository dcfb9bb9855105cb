--------------------------- MODULE AccessContract ---------------------------
(***************************************************************************)
(* The operator keeps the promise of TeamAccess.  A CR is held while it has *)
(* the finalizer; the history is the log; an account has an identity while *)
(* any object of it is left, and reaches the (parent) hosts of its policies.*)
(***************************************************************************)
EXTENDS Properties

StageOf(r) ==
    IF ~r.live THEN "absent"
    ELSE IF ~r.fin THEN "submitted"
    ELSE IF ~r.del THEN "held" ELSE "leaving"

StageNow == [c \in CRs |-> StageOf(utsa[c])]
WishNow == [c \in CRs |-> utsa[c].spec]
IdentitiesNow == UNION {{<<o.env, o.sa>> : o \in api[k]} : k \in {"SA", "GSA", "PM"}}
ReachNow == {<<ap.env, ap.sa, ap.parent>> : ap \in api["AP"]}
RoutesNow == UNION {{o.host : o \in api[k]} : k \in {"VS", "DR", "SE"}}

Promise == INSTANCE TeamAccess WITH
    stage <- StageNow, wish <- WishNow, log <- history,
    identities <- IdentitiesNow, reach <- ReachNow, routes <- RoutesNow

\* Reconcile (controller.go:64-172), whatever the users, the caches and failures do
\* meanwhile, gives and takes access only as TeamAccess allows.
Contract == Promise!Spec
=============================================================================
