# Verification of the union-operator

The union-operator is a Kubernetes operator.  A team describes, in one
`UnionTeamServiceAccounts` resource (here: a *CR*), the service accounts of one
Union (project, domain) pair and the external, CloudSQL and on-prem hosts each of
them may reach.  The operator records that in BigQuery and then makes it so:
Kubernetes and Google service accounts with their IAM bindings, and the Istio
configuration that lets the accounts through the egress gateway.  What a CR stops
listing it takes back, and what is left when a CR is deleted it cleans up.

This directory holds a TLA+ model of the operator, an abstract specification of what
it promises its teams, the TLC runs that check both on small instances, and proofs,
for instances of any size, of the promise and of every safety property the passing
runs check.

## 1. Inventory

| component | state it keeps | operations |
|---|---|---|
| controller (`internal/controller`) | nothing between calls; within one `Reconcile` the cached copy of the CR | `Reconcile`: read the CR, finalize / add the finalizer, then eight phases in a fixed order, each of which may end the call with an error |
| allowlist history (`internal/persist`) | the rows of a BigQuery table | create the table, append one row per service account |
| service accounts (`internal/serviceaccount`) | `ServiceAccount`, `IAMServiceAccount`, four `IAMPolicyMember`s per account, all owned by the CR | create or patch; two cleanup passes for accounts no longer listed |
| egress hosts (`internal/istio`) | one `Gateway` for external hosts and one for CloudSQL; `VirtualService`, two `DestinationRule`s and `ServiceEntry` per host, shared by all teams | get or create per host; remove the hosts no CR lists |
| authorization policies (`internal/istio`) | `AuthorizationPolicy` per account and host (and per VIP of an on-prem host) | create; remove those of dropped accounts, of dropped on-prem hosts, of unused external hosts; finalize |
| API types and naming (`api/v1alpha1`, `internal/types`) | the CR | names of namespaces, accounts, hosts and objects |
| manager (`cmd/main.go`) | caches, work queue, leader lease | start the controller with one worker |
| admission (`config/base/default/kyvernopolicy.yaml`) | none | refuse to create or change a CR for a (project, domain) pair that a CR of another name has |
| outside the repository | API server, informers, garbage collector, users, BigQuery | |

All components share the API server.  They call each other only from `Reconcile`,
in one goroutine, and return errors upwards; controller-runtime puts the CR of a
failed call back on its work queue.  Every `Get` and `List` is answered by an
informer cache, every `Create`, `Update`, `Patch` and `Delete` by the API server.

### What is hard about it

* **Stale reads.**  Decisions are taken on caches that may be behind the API
  server, the CR itself included.  Some calls notice (`AlreadyExists`, a conflict
  on the `resourceVersion`), some take the answer for success, some do not notice.
* **Partial failure and restart.**  A reconcile is dozens of calls.  It can end
  after any of them, by an error, a crash or a change of leader, and the next one
  must find what was left.  There is no journal: the leftovers of a host are found
  through the gateway, those of an account through its Kubernetes `ServiceAccount`.
* **Shared objects.**  The routes of a host belong to all teams.  `CleanupUnusedHosts`
  works, in the reconcile of one CR, on the lists of all CRs.
* **Deletion.**  Users edit, delete and re-create CRs while they are being
  reconciled; objects in other namespaces are not garbage collected and depend on
  the finalizer.
* **Order.**  The history must be written before anything is granted.
* **Names.**  Objects are found by labels but stored under names that are joined from
  parts; two hosts, or two on-prem hosts behind one virtual IP, can share one.

### What makes each component correct

* controller: grants only under the finalizer of the incarnation it works on; the
  finalizer is removed only after a complete cleanup for the spec as it is then;
  every deletion completes; the system comes to rest.
* history: nothing is granted that no earlier row allows.
* service accounts: a settled CR has its identities and none of dropped accounts;
  a cleanup that was cut short is resumed.
* egress hosts: a settled CR's hosts are routed, whatever other teams do; every
  route is reachable through its gateway, so that its cleanup is resumed.
* policies: a settled CR has the policies its lists call for, and none of dropped
  accounts or dropped on-prem hosts; when all CRs are settled, none of an external
  host nobody lists.  (An account that drops an external host keeps its policy as
  long as anyone else lists the host: the code removes policies with the host.)
* admission: one CR per (project, domain) pair.
* all together: access is given only as far as the history allows and only while some
  team is held by the finalizer, and a team is let go only when its accounts reach
  nothing any more.

`PROJECT.json` lists the hazards behind these, each at its line, with the properties
that would catch it.

## 2. Modules

```
Cluster            API server, caches, queue, users, garbage collector (external)
  Worker           the worker of the controller and the registers of a Reconcile call
    AllowlistHistory   internal/persist
      ServiceAccounts    internal/serviceaccount
        EgressHosts        internal/istio: gateways, routes, cleanup of hosts
          AuthzPolicies      internal/istio: AuthorizationPolicies
            UnionOperator      internal/controller: phases, finalizer, Next, Spec
              Properties         what must hold
                AccessContract     Contract: the promise of TeamAccess, by INSTANCE
                  MCOperator         instances for TLC
                    MCRepair           (with Repair)
                    MCInheritance      (with Inheritance)
                Repair             what holds when the caches of routes lag
                Inheritance        what a CR has when it follows another incarnation or CR
                DocClaims          sentences of the repository that do not hold
                  MCDocClaims        instances for them
                OperatorProofs     FinalizerHeld
                  GrantProofs        GrantsRecorded
                    TypeProofs         TypeOK
                      CleanupProofs      FinalizerCleansPolicies
                        ContractProofs     Contract (with AccessContract)
                      SettledProofs      SettledRevoked, MembersAnchored, SettledIdentities
                        AnchorProofs       RoutesAnchored, UnusedHostsRemoved
                          ServedProofs       SettledReach, SettledEquipped, SettledServed,
                                             FreshReconcileRepairs (with Repair, Inheritance)

TeamAccess         what the operator promises its teams (abstract)
```

Each module extends the one it is indented under.

**State.**  `api[k]` is the set of objects of kind `k` that the API server stores; an
object is the record of the labels and fields the code reads back.  `stale` and
`seen` are the caches that lag: `View(k)` is what a read returns.  `utsa` and
`seenUtsa` are the CRs in the API server and in the cache; `uid` tells incarnations
of a CR apart, and two equal records have the same `resourceVersion`.  `CRName[c]` is
the name of a CR and `Home[c]` the (project, domain) pair in whose namespace it lives:
the admission rule compares the name alone, and the garbage collector looks for an
owner in the namespace of the object.  `queue` is the
work queue, `history` the BigQuery table.  The worker's registers are the locals of
`Reconcile` and of the functions below it: the phase `pc`, the copy of the CR in
`job`, what the loop has left in `todo`, the element `cur` and the number `at` of the
next call for it, whether an error was noted for the element (`kept`) or collected by
the loop (`failed`), the CRs and the gateway that the cleanup of hosts has read
(`listed`, `gw`).

**Actions.**  One action is one call to the API server (or BigQuery) with the cached
reads that decide it, and everything up to the next call.  So other actors can act
between any two calls of a reconcile, and a reconcile can end between any two.

| action | code |
|---|---|
| `Start`, `AddFinalizer`, `RemoveFinalizer`, `Advance` | `Reconcile`, controller.go:64-172 |
| `PersistAllowlist` | persist.go:73-115 |
| `ReconcileIAMServiceAccount`, `ReconcileServiceAccount`, `CreateIAMPolicyMember` | serviceaccount/reconciler.go, iam.go |
| `CleanupIAMPolicyMember`, `CleanupIAMServiceAccount`, `DeleteServiceAccount` | serviceaccount/cleanup.go, both passes |
| `EnsureGatewayExists`, `EnsureGatewayContainsHost`, `EnsureVirtualService`, `EnsureDestinationRule`, `EnsureServiceEntry` | istio/reconciler.go:18-127 and the files of each kind |
| `RemoveExternalHost`, `CleanupGateway` | istio/cleanup.go:179-310 |
| `EnsureAuthorizationPolicy` | istio/authorizationpolicy.go:33-127 |
| `DeletePolicy`, `DeleteUnlistedPolicy` | istio/cleanup.go:55-177 |
| `UserCreate`, `UserEdit` with `Admitted` | the Kyverno rule, kyvernopolicy.yaml:8-35 (external: users and API server) |
| `CallFails` | any of these calls returns an error that ends the phase |
| `Restart` | the process ends; the next leader lists everything anew |

### The promise

`TeamAccess` knows nothing of caches, phases, queues or Kubernetes objects.  A team is
*absent*, *submitted*, *held* or *leaving*; it has a wish; there is a log, and there
are the identities, the (account, host) pairs let through, and the routes.  Teams
submit, change and withdraw wishes.  The system records entries in the log, gives
and takes access in any amount (`Move`), and holds and releases teams.  What it says is
what may *not* happen: no access without an entry of the log for that account and
host, no access given while no team is held, no team released while its accounts
reach a host, no wish or stage changed by the system on its own account.

`AccessContract` says what these are in the operator: a CR is held while it has the
finalizer, the wish is the stored spec, the log is the history, an account has an
identity while any `ServiceAccount`, `IAMServiceAccount` or `IAMPolicyMember` of it is
left, reaches the (parent) hosts of its policies, and a host has a route while any
route object of it is left.  `Contract` is `TeamAccess` under that mapping: TLC checks it
in `deletion`, TLAPS proves it (section 4).

### Simplifications, and why they are harmless

* A cache that lags catches up in one step (`CatchUp`, `Observe`), so a cache shows
  some earlier state of its kind but never a mixture of two; each kind lags on its own.
* `RemoveExternalHost` is one step although it makes several deletes.  No read of the
  operator falls between them, no user or controller writes those kinds, and which of
  them fail is chosen freely, which covers a call that ends half way.  When it fails
  the reconcile ends, as in the code.
* The entries of a spec are a set: the order of a loop is the user's order of the
  list, so any order is possible.  The one order the code itself imposes, between the
  policies of one account, is kept (`Precedes`).
* The history is a set of rows: a retry appends equal rows, and nothing reads them.  The
  table exists from the start: every reconcile asks BigQuery to create it and takes "already
  exists" for success (persist.go:42-71), so all this call can do to a reconcile is fail,
  which `CallFails` covers.
* A spec maps each account name to one entry.  The type does not forbid to list a name
  twice (unionteamserviceaccounts_types.go:41), and the cleanup of on-prem hosts then goes
  by each entry on its own (cleanup.go:145-163): it removes the policies of the one as not
  listed by the other.  Such CRs are outside the model, and no property or theorem here is
  about them.
* The admission check and the storing of the CR are one step, though two requests at
  once can pass the check together; `doc_unique` shows a shorter way to two CRs of one
  pair.  The operator's own updates of a CR never change the spec, so the rule that
  admitted the CR lets them pass.
* `*` as a host of the CloudSQL gateway is kept, because `CleanupGateway` keeps it.
* Ports, TLS modes, paths and selectors are left out of the Istio objects: no property
  here is about them.

### Bounds

`MaxUid` bounds how often a CR is created, `MaxGen` how often one incarnation is
edited, `MaxDisturbances` how many calls fail, restarts and resyncs happen together.
They bound the environment, never the operator: retries, reconciles and cache lag are
unbounded.  One edit is what drops an account or a host, two are what drops it and
lists it again; a second incarnation is what a stale cache or an old owner reference
can be mistaken about; one disturbance cuts a creation or a cleanup short, and the
retry meets what it left.  The specs (`MCOperator`) make the loops over accounts,
external hosts and policies hold more than one element, so that one can be left half
way, and have every kind of host listed, dropped and listed again.  In `finalizing` one
of the specs of the second team is for the first one's environment and an account of the
same name, so that it is refused while the first is there and meets its leftovers
afterwards; the other one cannot be reconciled.  In `two_teams` two hosts give their objects
one name, so that the second team, too, may be unable to go on.

## 3. Runs

| run | question | instance |
|---|---|---|
| `one_team` | is a settled CR served and are dropped things revoked; can a cleanup be resumed? | one team, three specs over all kinds of hosts, two external hosts in one of them, two edits, the Google account cache lags, one disturbance |
| `two_teams` | does one team's reconcile harm another team; is anything left of a host nobody lists? | two teams that share an external host and drop it, and may list two hosts whose names clash; no disturbance |
| `deletion` | does the finalizer hold and clean up while the CR is edited and re-created; is every step one of `TeamAccess`; what identities has the CR that was created again? | one CR, two incarnations, an edit, which may bring a host of an unsupported protocol, one disturbance |
| `finalizing` | does every deletion complete although another CR always fails; what has the CR that takes over an environment? | two CRs, one with a CloudSQL host and no gateway for it, or taking over from the other with an account of the same name, one disturbance |
| `lagging` | does the history come first, does the operator come to rest, and is what stale caches broke repaired? | one team that drops and adds its account and the account's external host; gateway, virtual service, policy and Google account caches lag, one disturbance |
| `doc_*` | sentences of the repository that the code does not keep, see below | the smallest instance that shows it |

Deadlock is not checked in any of them: with the bounds of users and disturbances
used up, an operator at rest has no step left.

Every property of a passing run has a mutant beside the definition it changes
(`...Mutant`), a bug one could make in that code, that the run finds.

### What the caches may do, run by run

The lagging kinds of a run are the ones for which its properties hold; the others are
fresh.  That is not a technicality.  The settled and anchoring properties do **not**
hold when the caches of these kinds lag:

* `VirtualService`, `DestinationRule`, `ServiceEntry`: a host that is removed and listed
  again while the old object is still cached is taken to exist and not created
  (reconciler.go:29-65), and an object created moments ago is not found by the cleanup
  (cleanup.go:291), after which nothing leads to it.
* `Gateway`: the cleanup removes the hosts that its cached copy of the gateway shows and
  no CR lists; when none is in use it deletes the gateway unconditionally
  (cleanup.go:215), with whatever host was added to it meanwhile, whose routes stay.
* `AuthorizationPolicy`: the finalizer and the cleanups list from the cache, so a policy
  created moments ago outlives its account or CR.
* `ServiceAccount`, `IAMPolicyMember`: a cleanup that does not see a member deletes the
  `ServiceAccount` all the same.

What does hold then is `FreshReconcileRepairs` (`Repair`), checked by `lagging`: a reconcile
that succeeds, and made its calls for hosts on fresh caches, leaves every external and
CloudSQL host of its CR routed, whatever earlier ones left out or took away.  So a
missing route is repaired by the next reconcile of the CR, at the latest by the
periodic resync; nothing queues one sooner, which is the gap.  The auxiliary variable
`current` records whether the present reconcile has read fresh caches so far; without
that condition TLC finds the property violated on the same instance.  Leftovers that no
gateway leads to are not repaired by anything.

`GrantsRecorded` and `FinalizerHeld` need no restriction of the caches at all: they are
proved for any set of lagging kinds.

### What a successor inherits

A CR that is created again, or takes over the (project, domain) pair of another one, finds
objects that name its predecessor as their owner, and which the garbage collector will
take at some time.  A reconcile makes the `ServiceAccount` and the `IAMServiceAccount` its own;
it leaves a member as it is.  `doc_recreated` shows what comes of that.  `SettledEquipped`
(`Inheritance`) says what holds nevertheless: a settled CR at home *owns* all identities of
its accounts, save the members its last reconcile found with another owner.  The auxiliary
variable `inherited` records these, at the call that leaves the object alone, and forgets
them when a later call finds or makes an own one; it is read by nothing else.  Without it the
property could only be stated by leaving successors out.  `deletion` checks it for two
incarnations of a CR, `finalizing` for the takeover, where `SettledReach` is the part of
`SettledServed` about hosts, to which owners do not matter.  `ServiceAccount`s and members
are fresh in both; a lagging cache of Google accounts would add the `IAMServiceAccount` to what
can be inherited (`Inheritable`).

### Fairness

`FairSpec` assumes weak fairness of the worker's steps (its goroutine runs, and every
call returns or fails), weak fairness of the informers (a watch delivers), and strong
fairness of `Start(c)` for each CR: `MaxConcurrentReconciles` is 1, and the work queue
is first in, first out, so a CR that is in the queue again and again is taken though
others return to it all the time.  Strong, because `Start(c)` is disabled while
another CR is being reconciled.  Nothing is assumed of users, of resyncs, of the
garbage collector or of failures; failures are bounded instead, since a call that
fails for ever makes no deletion complete.

### Sentences that do not hold

| run | what the code does |
|---|---|
| `doc_members` | `cleanupIAMPolicyMembers` deletes three of the four members; the data bucket viewer binding of a dropped account stays |
| `doc_google_account` | a reconcile that ends between `reconcileIAMServiceAccount` and `reconcileServiceAccount` leaves a Google account that the cleanup cannot find once the name is dropped |
| `doc_finalizer_policies` | an account dropped just before the CR is deleted keeps its policies: the finalizer only knows the accounts listed now |
| `doc_stale_name` | the name of a VIP's policy does not contain the on-prem host: of two hosts behind one VIP the second gets no policy, which the code takes for a stale cache |
| `doc_closer` | when an account drops an external host, the cleanup deletes every policy with that host label, also the on-prem policy of another account that still lists a host of that name; a reconcile takes away what its own CR calls for |
| `doc_unique` | the admission rule compares `metadata.name` and CRs live in namespaces: two CRs of one name in two namespaces get one (project, domain) pair, and each reconcile removes the other's accounts |
| `doc_recreated` | a CR deleted and created again keeps members with the old owner, which the garbage collector deletes after the new CR was reconciled |

Further gaps met while modelling, without a run of their own:

* Routes of hosts nobody lists any more stay when the last CR is deleted: the finalizer
  removes policies only, though cleanup.go:26 says that all Istio resources are
  cleaned up.
* `serviceaccount.CleanupAllResources` has no caller, and identities are left to owner
  references, which the garbage collector honours only within one namespace.  A CR
  outside the namespace of its objects, like the one in `config/samples`, loses its
  identities to the garbage collector; `SettledServed` and `SettledEquipped` ask for
  identities only of a CR that is at home, so no property here covers the others.
* An account listed twice in one CR: see the simplifications.
* A `VirtualService` is looked up by its name alone (virtualservice.go:16).  When the
  creation of a host is cut short right behind its `VirtualService`, and the CR is then
  edited to list a host whose name clashes, the reconcile takes that `VirtualService` for
  its own, creates the rest and settles without its own route.  `two_teams`, whose names
  clash, has no disturbance; with one, TLC finds `SettledServed` violated in this way.
* Paths, and the type, of a policy are not looked at once one with its labels exists:
  paths edited later are not propagated.
* A host that one account lists as external and another as CloudSQL loses its routes and
  policies when the first one drops it (cleanup.go:205).
* A user may edit the project or the domain of a CR; nothing finds the objects of the
  old pair any more.
* `Namespace` joins project and domain with a dash, so that `(a-b, c)` and `(a, b-c)`
  share a namespace.
* Two requests at once may both pass the admission rule.

## 4. Proofs

TLAPS checks fourteen theorems, for every set of CRs, environments, accounts, hosts and
specs and every value of the bounds.  Between them they state every invariant and
every action property of the passing runs; only liveness is left to TLC.

| theorem | caches that must not lag | other hypotheses |
|---|---|---|
| `FinalizerIsHeld`, `GrantsAreRecorded`, `TypeCorrect` | none | none |
| `FinalizerCleansUp`, `OperatorKeepsPromise` | policies | none |
| `RoutesAreAnchored` | gateways, routes | none |
| `UnusedHostsAreRemoved` | gateways, routes, policies | `"*" \notin Hosts` |
| `SettledStaysRevoked` | policies | `OnePerPair` |
| `MembersAreAnchored`, `IdentitiesStaySettled` | `ServiceAccount`s, members | `AllAtHome` |
| `FreshReconcilesRepair` | none | `DistinctNames`, `HostsApart` |
| `SettledStaysReaching` | gateways, routes, policies | `DistinctNames`, `HostsApart`, `OnePerPair` |
| `SettledStaysEquipped` | `ServiceAccount`s, members | `OnePerPair` |
| `SettledStaysServed` | gateways, routes, policies, `ServiceAccount`s, members | `DistinctNames`, `HostsApart`, `OnePerPair` |

The hypotheses hold in the instances of the runs that check the properties, but for
`DistinctNames` in `two_teams`, which can do without it only because nothing there cuts a
reconcile short (section 3, further gaps).  They are not technicalities; each excludes
what the code does not cope with:

* *Fresh caches*: see section 3.
* `OnePerPair`: CRs have different names (`UniqueNames`), or each lives in the namespace
  of its objects (`AllAtHome`), or the teams each keep to (project, domain) pairs of their
  own (`OwnEnvs`).  With any of the three the admission rule lets no two CRs have one pair;
  without, `doc_unique` shows two CRs that take each other's accounts away.
* `AllAtHome`: otherwise an account and its members may name different owners, of which the
  garbage collector takes what names one that lives elsewhere.
* `DistinctNames`, and in `HostsApart` that no two on-prem hosts share a VIP: two objects of
  one name (`doc_stale_name`), or a `VirtualService` left over for another host.
* `HostsApart`: no host is listed as external by one account and as CloudSQL or on-prem
  (or the VIP of an on-prem host) by another.  The cleanup of a gateway looks only at
  lists of its own kind, but what it removes, policies and routes, it finds by the host
  (`doc_closer`).
* `"*" \notin Hosts`: the cleanup keeps `*` in the CloudSQL gateway, listed or not.

**`FinalizerIsHeld`: `Spec => []FinalizerHeld`** (`OperatorProofs`).  While a reconcile
grants anything, the very incarnation it works for is stored and holds the finalizer.
This is not inductive: `Start` reads the CR from the cache.  The invariant `FInv` adds
what a cached copy tells of the stored CR (`Behind`): it is not of a later
incarnation; if it shows the finalizer and no deletion, that incarnation is stored
and holds the finalizer; a deletion it shows was not undone.  The second of these
could only be broken by `RemoveFinalizer`, hence `JobBehind`: the finalizer runs for an
incarnation that the cache, too, shows as being deleted (or has seen replaced).  All
calls inside loops leave the CRs alone and either go on in the same phase or return
(`LoopFrame`), so that only `Start`, `AddFinalizer`, `RemoveFinalizer`, users,
`Observe` and `Restart` need an argument of their own.

**`GrantsAreRecorded`: `Spec => []GrantsRecorded`** (`GrantProofs`).  The invariant `GInv`
adds that in `persist` every listed account is either still to do or has its row, that
in all later phases every listed account has its row (`RowsFirst`), and that the loops
of the granting phases only hold what the spec lists.  It relies on the copy of the CR
not changing during a reconcile, and on rows never being taken back.

**`TypeCorrect`: `Spec => []TypeOK`** (`TypeProofs`).  On top of `GInv`, because the type of
an object that a loop writes follows from what the loop may hold.

**`FinalizerCleansUp`: `"AP" \notin Lagging => (Spec => FinalizerCleansPolicies)`**
(`CleanupProofs`).  The invariant `CInv` adds that in the finalizer a policy of a listed
account is still in the loop unless a delete has failed (`Cleaning`), and that only a
stored CR holds a finalizer.  `Cleaning` begins to hold because the loop is read from a
fresh cache, and lasts because nobody but the one worker creates policies.  The
property is about the spec as *stored* when the finalizer goes, the loop about the
*copy*: `RemoveFinalizer` writes the copy back and fails if they differ.  The theorem
needs the fresh cache: with a lagging one the loop misses policies.

**`OperatorKeepsPromise`: `"AP" \notin Lagging => (Spec => Contract)`** (`ContractProofs`).
The operator implements `TeamAccess`.  The invariant is `CInv` with what `Start` found in the
copy of the CR (`JobStage`): the finalizer is not added to a CR that is being deleted, so
that adding it is `Hold` and nothing else.  Step by step: users are `Submit`, `Change` and
`Withdraw`; `AddFinalizer` is `Hold`; `PersistAllowlist` is `Record`, for an account that the spec
lists by `RowsFirst`; every other step of a reconcile is a `Move`, whose gains are
covered by the log because `AllRecorded` holds after it, and which is made while the CR
at hand is held by `FinalizerHeld`, except in the finalizer, which only deletes
(`OnlyDeletes`); `RemoveFinalizer` is `Release`, by what `FinalizerCleansUp` rests on; the
garbage collector is a `Move` that only takes away; caches, the queue, failures and
restarts are not seen (`Unseen`).  So the theorem is where the other invariants meet:
without any of `FinalizerHeld`, `GrantsRecorded` and `FinalizerCleansPolicies` it fails.

**`RoutesAreAnchored`: `FreshHostCaches => (Spec => []RoutesAnchored)`** (`AnchorProofs`), where
`FreshHostCaches` says that the caches of gateways and routes do not lag.  `AInv` adds
that a gateway is determined by its name (`OneGatewayEach`); that a loop which creates
routes for a host does so only after its gateway has the host (`Ensuring`); and that the
cleanup works on the gateway that is stored and, until it updates or deletes it, still
has to do every unused host of it that has routes (`TakingOut`).  The last part is why a
cleanup must remove the routes before the host: it holds at each of its steps, so a
failure or a restart anywhere leaves every route in reach.

**`SettledStaysRevoked`, `MembersAreAnchored`, `IdentitiesStaySettled`** (`SettledProofs`).
A settled property speaks of a CR the worker is no longer at, so two arguments meet in
it: that a reconcile establishes it, and that no later step breaks it.  The common
ground is `SInv`, which says what the worker may rely on about the other CRs: no two
stored or cached CRs have one pair (`OneEach`), the cache is not ahead of the API server
(`NotAhead`), the copy of the CR is what the cache shows unless the CR is queued
(`JobSeen`), and a cached CR of the same pair as the one at work is queued (`Alone`).

* `RInv` adds, for policies, what is still to be revoked, phase by phase (`Revoking`): in
  `removedAuthz` the policies of dropped accounts are left in the loop unless a delete
  failed, afterwards there are none; likewise for dropped on-prem hosts in
  `internalHosts`.  When the reconcile ends without an error, and the CR is not queued again,
  that is `SettledRevoked` for it; and for another CR nothing changes, as the loops only
  make policies of their own pair.
* `MInv` ties every member to a `ServiceAccount` with the *same owner* (`MembersOwned`): that it
  has one is not inductive, because the garbage collector could take the account first.
  `Creating` and `MembersGone` keep the order of the calls: a member is made after its account,
  and the account goes only when the roles of `CleanedRoles` have gone.
* `DInv` says the same of `ServiceAccount`s as `RInv` of policies, with the second of the two
  cleanup passes; with `MInv` it gives `SettledIdentities`.

**`UnusedHostsAreRemoved`** (`AnchorProofs`).  Routes and policies of external hosts are in
some gateway (`RoutesAnchored`, and `PoliciesAnchored` by the same argument, for which the hosts
of a spec stay in their gateways until the policies are made: `Ensured`).  So it is enough that
the gateways hold listed hosts only.  `ListedNow` says that the specs the cleanup has read are
those the cache shows now, or some CR is queued; `Sweeping` that a gateway whose phase is over
has hosts in use only.  When everything is settled nothing is queued, and the last reconcile
has swept.  CRs that were never created (`Created`) need not be looked at.

**`FreshReconcilesRepair`** (`ServedProofs`), for `RepairSpec`, the specification with the
auxiliary variable.  `RoutesMade` says how far the routes are made: the calls before `at` for the
host at hand, all calls for the hosts done with, and in the phases after that for every
host of the spec.  It is an invariant only while `current` holds, since a stale cache makes the
code skip an object.  The hard part is the end of the reconcile, where its own cleanup
must not take out what it has made: by `ListOK` a host taken out is of the gateway's own
sort (`GatewaysApart`), not in use (`TakingOutUnused`), and the specs in use include every one
the cache shows of a CR that is not queued (`SpecsListed`), the one at work among them.

**`SettledStaysReaching`** (`ServedProofs`).  `ReachInv` joins `RoutesMade`, now without `current`, with the
same for policies (`PoliciesMade`), and with `SettledReached`: all that a settled CR calls for
is there.  Other CRs' reconciles are the difficulty here.  Their cleanup of hosts is
harmless by `ListOK` again, because a settled CR is cached and not queued; their loops
over policies take none that a settled CR calls for (`RevokingUnlisted`), which needs
that a policy is determined by what the loops look at (`PoliciesShaped`: the parent of
an external policy is its host, that of an internal one the on-prem host with that VIP).

**`SettledStaysEquipped`** (`ServedProofs`), for `InheritSpec`, the specification with `inherited`:
for any number of incarnations and takeovers, `Spec` with what is inherited written down.
`EquipInv` adds that the calls before `at` for the account at hand, and all calls for the
accounts done with, have left their object with the owner at work, or inherited
(`IdentitiesMade`), and that the cleanup removes accounts that are not listed only
(`RemovingUnlisted`).  An own object stays (`OwnStays`): the garbage collector spares it,
because its owner is stored and at home; the reconcile at work may replace it, but by its
like, as it is that of the owner (`FinalizerHeld` says which incarnation that is) or works on
another pair (`SettledElsewhere`).  A note in `inherited` only goes when the call is made again,
and `EnsuredIsEquipped` shows that this call leaves the owner with an object or a new note.

**`SettledStaysServed`** (`ServedProofs`) joins the two invariants: as long as nothing was
inherited, `SettledServed` holds.  In `one_team` and `two_teams`, which check it, no environment
has two owners, so nothing is.

Assumptions, all named in the module that declares the constant and evaluated by TLC
in every run: `ClusterAssumption` (every CR has a spec to submit, specs are well
formed, CRs of one name live in different namespaces, bounds are naturals),
`WorkerAssumption` (there is a CR, and `None` is no account, no pair of an account and a host
and no gateway), `OnpremAssumption` (VIPs are hosts).

Only model-checked: liveness under fairness (`DeletionCompletes`, `EventuallyQuiescent`), which
is out of the prover's reach, as is `ENABLED`.  The sentences that do not hold (`doc_*`)
are refuted by runs, not by proofs.

## 5. Not modelled

* Generated code, field declarations of the IAM types, metrics, webhook and TLS flags,
  health probes, the container image and the Makefile: no state of the operator.
* Naming, but for its consequences.  Objects are stored under `NameOf` of their host, a
  constant, and `two_teams` has two hosts of one name; truncation, hashing and joining
  with dashes are not modelled, and no instance has two (project, domain) pairs of one
  namespace.
* Paths, ports and TLS modes of hosts; GitHub annotations and timestamps of rows.
* Edits of the project or domain of a CR: no property about the pair it left could hold,
  because nothing remembers it.
* Admission as a race: see the simplifications.
* Objects that are being deleted and wait for a finalizer of Config Connector: a
  delete takes effect at once.

## 6. Plan

Done: all phases of `Reconcile` with its environment; admission, and CRs that live
elsewhere than their objects; hosts whose names clash; an environment that passes from
one team to another, and what the successor owns and inherits; what holds when the caches of routes lag; the abstract
specification and the refinement; a theorem for every safety property.

1. **Weaker hypotheses.**  `SettledReach` without `DistinctNames`, as long as nothing cuts a
   reconcile short: names that clash then fail the reconcile, but for those of VIP policies.
2. **Extension.**  `Host.Name` and the joined names as functions over small alphabets,
   against the reference "different inputs, different names", with `NameOf` taken from
   them; two pairs of one namespace; accounts listed twice; paths of policies.
