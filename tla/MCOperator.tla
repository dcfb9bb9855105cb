----------------------------- MODULE MCOperator -----------------------------
(***************************************************************************)
(* Instances of the operator for TLC: which specs the users submit.  E is  *)
(* the entry of a service account (external, on-prem and CloudSQL hosts);  *)
(* h1 and h2 are external hosts, o1 is on-prem with the VIP v1, o2 is on-  *)
(* prem without, o9 is on-prem with a protocol that is not supported, and  *)
(* q1 is a CloudSQL host.                                                  *)
(***************************************************************************)
EXTENDS AccessContract, TLC

E(ext, int, sql) == [ext |-> ext, int |-> int, sql |-> sql]
S(env, sas) == [env |-> env, sas |-> sas]

AllHosts == {"h1", "h2", "o1", "v1", "o2", "o9", "q1"}
PlainNames == [h \in AllHosts |-> h]
OwnNames == "t1" :> "n1" @@ "t2" :> "n2"
Homes == "t1" :> "e1" @@ "t2" :> "e2"
OneHome == "t1" :> "e1" @@ "t2" :> "e1"

\* a.b and a-b, say: h1 and h2 give their objects one name.
ClashingNames == [PlainNames EXCEPT !["h1"] = "h", !["h2"] = "h"]
OnpremHosts == "o1" :> {"v1"} @@ "o2" :> {} @@ "o9" :> {}

\* One team that has one account and then two.  The on-prem host it comes to list has
\* a protocol that is not supported.
Recording == "t1" :>
    {S("e1", "sa1" :> E({"h1"}, {"o1"}, {})),
     S("e1", "sa1" :> E({}, {"o9"}, {}) @@ "sa2" :> E({"h1"}, {}, {}))}

\* One team that moves between service accounts and all kinds of hosts.
OneTeam == "t1" :>
    {S("e1", "sa1" :> E({"h1"}, {"o1"}, {})),
     S("e1", "sa2" :> E({"h1", "h2"}, {}, {"q1"})),
     S("e1", "sa1" :> E({}, {"o1"}, {"q1"}))}

\* Two teams that share an external host, come to drop it, and may list two hosts
\* whose names clash.
TwoTeams ==
    "t1" :> {S("e1", "sa1" :> E({"h1"}, {}, {})), S("e1", "sa1" :> E({}, {"o1"}, {}))}
 @@ "t2" :> {S("e2", "sa1" :> E({"h1"}, {}, {})), S("e2", "sa1" :> E({"h2"}, {}, {}))}

\* Two teams one of which cannot be reconciled while it lists a CloudSQL host and
\* there is no CloudSQL gateway.  It may also take over the other team's environment,
\* with an account of the same name.
Deleting ==
    "t1" :> {S("e1", "sa1" :> E({}, {"o2"}, {}))}
 @@ "t2" :> {S("e1", "sa1" :> E({}, {"o2"}, {})), S("e2", "sa2" :> E({}, {}, {"q1"}))}

\* One team that drops and adds its only account with its external host.
Converging == "t1" :> {S("e1", "sa1" :> E({"h1"}, {}, {})), S("e1", <<>>)}
=============================================================================
