----------------------------- MODULE TeamAccess -----------------------------
(***************************************************************************)
(* What the operator promises, without caches, phases or Kubernetes        *)
(* objects: teams submit, change and withdraw what they wish; access is    *)
(* given on behalf of a team that is held, and only as far as the log      *)
(* already allows; a team that withdraws is let go when no way out is left *)
(* to its accounts.                                                        *)
(***************************************************************************)
CONSTANTS
    CRs,     \* the teams
    Specs    \* Specs[c]: what team c may wish

VARIABLES
    stage,       \* stage[c]: how far team c is
    wish,        \* wish[c]: what it last wished
    log,         \* what was ever wished and worked on, account by account
    identities,  \* the <<environment, account>> pairs that have an identity
    reach,       \* the <<environment, account, host>> triples let through
    routes       \* the hosts there is a route to

access == <<identities, reach, routes>>
vars == <<stage, wish, log, access>>

Stages == {"absent", "submitted", "held", "leaving"}

Init ==
    /\ stage = [c \in CRs |-> "absent"]
    /\ wish \in [CRs -> UNION {Specs[c] : c \in CRs}]
    /\ log = {} /\ identities = {} /\ reach = {} /\ routes = {}

-----------------------------------------------------------------------------
(* The teams.                                                               *)

Submit(c, s) ==
    /\ stage[c] = "absent"
    /\ stage' = [stage EXCEPT ![c] = "submitted"]
    /\ wish' = [wish EXCEPT ![c] = s]
    /\ UNCHANGED <<log, access>>

Change(c, s) ==
    /\ stage[c] # "absent"
    /\ wish' = [wish EXCEPT ![c] = s]
    /\ UNCHANGED <<stage, log, access>>

\* Whoever was never held has been given nothing and may go at once.
Withdraw(c) ==
    /\ \/ stage[c] = "submitted" /\ stage' = [stage EXCEPT ![c] = "absent"]
       \/ stage[c] = "held" /\ stage' = [stage EXCEPT ![c] = "leaving"]
    /\ UNCHANGED <<wish, log, access>>

-----------------------------------------------------------------------------
(* The operator.                                                            *)

Hold(c) ==
    /\ stage[c] = "submitted"
    /\ stage' = [stage EXCEPT ![c] = "held"]
    /\ UNCHANGED <<wish, log, access>>

Working(c) == stage[c] \in {"held", "leaving"}

\* The log grows by what some team wishes or wished for its accounts.
Entries(s) == {[env |-> s.env, sa |-> a, entry |-> s.sas[a]] : a \in DOMAIN s.sas}
Record ==
    /\ \E c \in CRs : Working(c)
    /\ \E row \in UNION {Entries(s) : s \in UNION {Specs[c] : c \in CRs}} :
          log' = log \cup {row}
    /\ UNCHANGED <<stage, wish, access>>

\* What the log allows.
MayBe(i) == \E row \in log : row.env = i[1] /\ row.sa = i[2]
MayReach(r) ==
    \E row \in log : /\ row.env = r[1] /\ row.sa = r[2]
                     /\ r[3] \in row.entry.ext \cup row.entry.sql \cup row.entry.int
MayRoute(h) == \E row \in log : h \in row.entry.ext \cup row.entry.sql

\* Access is taken away at any time; some is given only while a team is held.
Move ==
    /\ \A i \in identities' \ identities : MayBe(i)
    /\ \A r \in reach' \ reach : MayReach(r)
    /\ \A h \in routes' \ routes : MayRoute(h)
    /\ \/ \E c \in CRs : Working(c)
       \/ identities' \subseteq identities /\ reach' \subseteq reach /\ routes' \subseteq routes
    /\ UNCHANGED <<stage, wish, log>>

\* A team is let go when its accounts reach nothing any more.
Release(c) ==
    /\ stage[c] = "leaving"
    /\ \A r \in reach : r[1] = wish[c].env => r[2] \notin DOMAIN wish[c].sas
    /\ stage' = [stage EXCEPT ![c] = "absent"]
    /\ UNCHANGED <<wish, log, access>>

Next ==
    \/ \E c \in CRs : \/ \E s \in Specs[c] : Submit(c, s) \/ Change(c, s)
                      \/ Withdraw(c) \/ Hold(c) \/ Release(c)
    \/ Record \/ Move

Spec == Init /\ [][Next]_vars
=============================================================================
