----------------------------- MODULE MCDocClaims -----------------------------
(* Instances on which the sentences of DocClaims fail.                      *)
EXTENDS DocClaims, TLC

E(ext, int) == [ext |-> ext, int |-> int, sql |-> {}]
S(env, sas) == [env |-> env, sas |-> sas]

PlainNames == [h \in {"h1", "o1", "o2", "v1"} |-> h]
OwnNames == "t1" :> "n1" @@ "t2" :> "n2"
Homes == "t1" :> "e1" @@ "t2" :> "e2"
OnpremHosts == "o1" :> {"v1"} @@ "o2" :> {"v1"}

\* The team replaces its service account.
Replace == "t1" :> {S("e1", "sa1" :> E({"h1"}, {})), S("e1", "sa2" :> E({"h1"}, {}))}

\* The team uses one external host.
OneHost == "t1" :> {S("e1", "sa1" :> E({"h1"}, {}))}

\* Two teams ask for one environment, in CRs of one name in two
\* namespaces.
OneEnv == "t1" :> {S("e1", "sa1" :> E({"h1"}, {}))} @@ "t2" :> {S("e1", "sa2" :> E({"h1"}, {}))}
SameName == "t1" :> "n1" @@ "t2" :> "n1"

\* The team lists o1 as an on-prem host for one account, and as an external host for
\* another, which then drops it.
Mixed == "t1" :>
    {S("e1", "sa1" :> E({}, {"o1"}) @@ "sa2" :> E({"o1"}, {})),
     S("e1", "sa1" :> E({}, {"o1"}))}

\* The team lists two on-prem hosts behind one virtual IP.
SharedVip == "t1" :> {S("e1", "sa1" :> E({}, {"o1", "o2"}))}
=============================================================================
