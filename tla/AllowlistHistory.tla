-------------------------- MODULE AllowlistHistory --------------------------
(***************************************************************************)
(* internal/persist: the BigQuery table that records what a CR allowed     *)
(* before anything is granted.  A row is appended per service account and  *)
(* reconcile; the set keeps one of equal rows, since no reader of the      *)
(* model counts them.  The table is there from the start: that every       *)
(* reconcile asks for it to be created is a call that can only fail, which *)
(* CallFails stands for.                                                   *)
(***************************************************************************)
EXTENDS Worker

VARIABLE history   \* the rows of the table

Row(s) == [env |-> spec.env, sa |-> s, entry |-> spec.sas[s]]

HistoryTypeOK == history \subseteq [env : Envs, sa : SaNames, entry : Entry]

HistoryInit == history = {}

\* The loop of PersistAllowlist: one insert per service account of the spec.
PersistItemsMutant(sp) ==  \* skips the accounts without on-prem hosts
    {s \in DOMAIN sp.sas : sp.sas[s].int # {}}
PersistItems(sp) == DOMAIN sp.sas

PersistAllowlist(s) ==
    /\ pc = "persist" /\ Taking(s)
    /\ history' = history \cup {Row(s)}
    /\ DoneWith(s)
    /\ ReadOnly
    /\ UNCHANGED <<utsa, seenUtsa, disturbances>>
=============================================================================
