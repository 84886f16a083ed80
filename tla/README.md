# A TLA+ verification of eshobe-cms

eshobe-cms is a multi-tenant Payload CMS: one Node process (or several
replicas) over one PostgreSQL database serves the admin, the API and the public
pages of many customer sites. Around that content core it runs a control
plane: it deploys customer themes through Coolify, sells and configures
domains, meters usage and reports it to a central billing platform, takes
payments, and migrates WordPress sites. This directory holds TLA+ modules of
the parts of that control plane where the order of steps matters, the TLC
configurations that check them, and TLAPS proofs of what matters most.

Source paths below are relative to the repository root.

* [1. Inventory](#1-inventory)
* [2. The modules and the code](#2-the-modules-and-the-code)
* [3. What the runs check](#3-what-the-runs-check)
* [4. Bounds](#4-bounds)
* [5. Fairness](#5-fairness)
* [6. What is proved](#6-what-is-proved)
* [7. Where the code and its documentation disagree](#7-where-the-code-and-its-documentation-disagree)
* [8. What is abstracted, and what is not modelled](#8-what-is-abstracted-and-what-is-not-modelled)
* [9. Plan](#9-plan)

## 1. Inventory

Everything below runs in the CMS process. There is no in-memory lock between
requests and hardly any transaction that spans more than one Payload call: a
handler is a sequence of awaited database and HTTP calls, and two handlers (a
console request, the scheduled task, a callback) interleave at every `await`.
Coordination happens through rows only. That, and a process that may die
between any two of those steps, is what makes this code hard to test.

| Component | State it keeps | Operations | Interacts with | Hard behaviour |
|---|---|---|---|---|
| Theme deployments (`src/deploy/service.ts`, `task.ts`, `lifecycle.ts`, `src/lib/deploy/status.ts`) | `site-deployments` rows (status, mode, application, key, build), `sites.renderedBy`, `sites.activeDeployment` | create, run, poll, verify, move and return the domain, promote, supersede, stop, revert; the minutely task; suspension and domain change hooks on sites | Coolify (applications, builds, domains), health probe, API keys, bindings | several handlers on one row; every check is read-then-write; multi-step promotion; crash between steps; two themes over one domain |
| Theme bindings (`src/deploy/bindings.ts`) | one `theme-bindings` row per (site, theme, lane): application, claim | ensure, resolve, claim, take over, persist, release | deployment runs, Coolify | two runs that would create two applications; orphaned claim |
| Theme artifacts and packages (`src/deploy/artifacts.ts`, `themePackageSync.ts`, `github.ts`) | packages, artifacts | sync from GitHub, resolve a reference | deployments | stale resolution |
| Routes file (`src/deploy/routing.ts`) | in-memory timer and reasons, one file | request, coalesce, regenerate | site hooks, deployments | a request lost with the process |
| Usage outbox (`src/billing/usage`, `src/billing/task.ts`, `src/billing/client`) | samples, outbox rows with lease and attempts | flush, fold, enqueue, correct, lease, publish, acknowledge, retry, recover, replay | central Billing over HTTP | lost answers, duplicated sends, folding while sending |
| Meters (`src/billing/meters`, `flush-loop.ts`) | in-process buffer, storage accounts | measure, drain, integrate storage hours | outbox | buffer lost with the process; storage clock written by several replicas |
| Entitlement projection (`src/billing/entitlement/store.ts`) | last version accepted per site | write if newer | central Billing pushes | version check not atomic with the write |
| Central request authentication (`src/billing/auth`) | replay nonces | verify signature, record nonce | every central call | nonce spent before the work is done |
| Checkout and orders (`src/endpoints/checkout.ts`, `src/collections/hooks/settleStock.ts`) | orders, inventory, coupon counters | place an order, start payment, confirm, settle stock, refund | payment gateways | double callback, read-modify-write of stock |
| Payment gateways (`src/payments`) | gateway settings, tokens | request, verify | checkout | network failure between pay and verify |
| Subscriptions and quotas (`src/collections/hooks/subscriptionLifecycle.ts`, `enforceQuota.ts`) | subscriptions, site periods | one live subscription per site, quota on create | sites, deployments | check-then-create races |
| Domain reseller (`src/domain-reseller`, `src/endpoints/domainReseller.ts`) | domains, operations, events | search, register, transfer, renew, DNS | registrar | lost answer of a purchase |
| CDN (`src/cdn`) | accounts, zones, events | provision zone, diff records, probe | CDN provider, domains | partial application of a diff; an edit during a sync |
| Storage connections (`src/storage`, hook `storageConnectionLifecycle.ts`) | connections, health | activate, health check, switch | media uploads | switch while uploads run |
| Migration centre (`src/lib/migration`) | sources, jobs, batches, mappings, errors | discover, plan, import in batches, roll back | WordPress | resume after a crash without duplicates |
| Site domains (`src/endpoints/siteDomains.ts`, `updateSiteDomain.ts`, `domainCheck.ts`, `src/collections/Sites.ts`) | domain, aliases and their verification of each site | ask for, move, remove, verify a name; authorise a certificate | tenants, staff, Caddy, database triggers | two sites claim one name; a tick that outlives the name it was given for |
| Provisioning and people (`src/provisioning/provisionSite.ts`, `src/lib/migration/staff-invites.ts`, `customer-claims.ts`) | sites, accounts and their sites, claim tokens of customers | create a site in one transaction, invite staff, mail, exchange a token | users, mail | failure half-way; whole lists written back; a token of an old address |
| Platform events and webhooks (`src/platform`) | deliveries, audit log | emit, deliver, replay | external receivers | lost delivery; failure counter |
| Torob feed, embeds, search, site renderer, admin UI, blocks, seeds | content only | render and format | | none: read paths |

### What makes each part correct

* *Deployments*: a row is run once; nothing builds that is not recorded; the
  site is never pointed at a deployment that was not proven healthy, and the
  domain never at an application that was not; one live row per lane; a preview
  never disturbs production; nothing stays pending for ever; a suspended site
  stays down.
* *Bindings*: while a handler creates the application of a theme and lane,
  nobody else does; the same application is used by every later run; an
  orphaned claim blocks nobody.
* *Outbox*: what is recorded as sent was accepted; a correction follows an
  acceptance; every event settles.
* *Storage hours*: each hour is billed once, for the bytes the site held in it.
* *Checkout*: an order is paid only when its gateway confirmed a payment that may
  pay for it, its units leave the stock once and come back once, the counts add
  up, and money a gateway holds is recorded.
* *Projection*: the stored version never falls behind one that was answered.
* *Migration*: a source record is imported once, through crashes; nothing that
  changed is skipped; nothing incomplete is called complete; no edited document
  is rolled back.
* *CDN*: desired rows and records at the provider stay paired, an edit is not
  swallowed, a request is answered.
* *Reseller*: a name is sold to one site, which the registrar agrees with.
* *Site domains*: a host name belongs to one site and is served only after staff
  have verified it there.
* *Provisioning, invitations, claims*: who was placed on a site is there; a token
  claims a profile once, for the address it was mailed to.
* *Routes file*: no change of the table goes unnoticed.

`PROJECT.json` lists under `hazards` every line at which one of these may go
wrong in a way a test would hardly reach, with the property that watches it or
the reason none does.

## 2. The modules and the code

| Module | Models | Kind |
|---|---|---|
| `DeployStatus` | the status machine and lanes (`src/lib/deploy/status.ts`, `lane.ts`) | constant operators |
| `Deployment` | one site's deployments: rows, site, Coolify, handlers, the task, suspension | state machine |
| `SiteServing` | what a visitor is promised: what may come to render the site, and from when on | abstract specification |
| `ThemeBinding` | provisioning of one (site, theme, lane): the claim and its takeover | state machine |
| `UsageOutbox` | metered usage of one site, meter and hour on its way to central Billing | state machine |
| `StorageClock` | byte-hours of one site: account row, media hooks, flushes | state machine |
| `Entitlement` | the cached decision of central Billing about one site | state machine |
| `Checkout` | orders of one product, their gateways, stock and coupon | state machine |
| `DomainPurchase` | one name sold through the registrar | state machine |
| `SiteDomains` | the host names of several sites and their verification | state machine |
| `CdnSync` | one CDN zone, its provider and its synchronisations | state machine |
| `Migration` | one WordPress migration job, its ledger and its documents | state machine |
| `SiteStaff` | provisioning and staff invitations: who belongs to a site | state machine |
| `CustomerClaim` | the claim of one migrated customer profile | state machine |
| `ThemeRoutes` | the routes file of the edge, for one host | state machine |
| `Services` | the seven services that share no state: `Entitlement`, `DomainPurchase`, `StorageClock`, `SiteStaff`, `CustomerClaim`, `ThemeRoutes`, `SiteDomains`; the initial state chooses one (`part`) | composition |
| `DeploymentProofs`, `ThemeBindingProofs`, `UsageOutboxProofs`, `CheckoutProofs`, `CdnSyncProofs`, `MigrationProofs`, `ServicesProofs` | theorems about the module of the same name; `ServicesProofs` also about `Entitlement` and `StorageClock` | proofs |
| `Sums` | lemmas about induction over a finite set and about the sum of a function over one | proofs |
| `MCDeployment`, `MCThemeBinding`, `MCUsageOutbox`, `MCCheckout`, `MCCdnSync`, `MCMigration` | small instances of one module | model checking |
| `MCServices` | a small instance of each of the seven services | model checking |

How the modules are written. Code between two `await`s that others can observe
is one action. A handler in progress is a record `proc[w]` whose `pc` or `at`
says which action comes next and whose other fields are the local variables
that survive an `await` (the row it read, what is left of a loop). `Workers`,
`Handlers` or `Requests` are the handlers that may be in progress at the same
time. A `Crash` sends a handler back to its idle state and leaves the rows as
they are, except for those of an open transaction, which live in the handler
until `Commit`. Operators named with the word *Variant* or *Mutant* in their
comment are not part of `Next`: they are changed forms of the definition that
follows them, kept to show that a property notices the change.

Variables marked *history* are read by no action of the code. Some of them
(`overlap`, `torn`, `raced`, `inexact`, `stale`, `forgotten`, the fields of
`hist`) record that the behaviour has entered a schedule the code does not
guard against, such as two handlers between their read and their write of one
row. The model goes on through these schedules; a property that mentions such a
variable is stated up to there because it does not hold beyond, and section 7
says what goes wrong.

### Deployment

| State | Code |
|---|---|
| `dep` | the rows of `site-deployments`: `status`, `domainMode`, package, `hostname`, `appUuid` recorded or not, `apiKey`; `age` is ticks since `updatedAt`, `miss` counts unanswered probes towards the health deadline |
| `build`, `running`, `holder` | Coolify: the last build or restart of each row, containers that are up, the application configured with each hostname |
| `site` | the `sites` row: status, domain, `domainVerified`, `activeDeployment`, `renderedBy` |
| `tx` | the transaction of a site update that suspends: rows it has still to stop, rows it wrote and locked |
| `proc`, `queue` | handlers; the rows the tick listed and whether each was stale at that moment |
| `proven` | history: deployments whose application answered a probe (no code reads it) |

`SiteServing` knows the renderer, whether the site is active, which deployments
the check let through (`cleared`) and which were proven. It lets a deployment
through only while the site is active, proves only what was let through, adopts
only what is both, and may forget a clearance at any time. The mapping calls
cleared the rows (`Promotable`) that a handler has between `promotionBlocker` and the
flip, so a module that lost the check, made it after the probe, or went on with a
promotion that was given up would not implement it.

`Create` is `createDeployment`; `Claim` is `claimQueued`, one conditional
`update … where status = queued`; `RunSite`, `RunApp`, `RunEnv`, `RunBuild` are
the awaited parts of `runDeployment` in its order (site re-read, application
recorded and re-pointed, key stored after Coolify took the environment, build
started), each with its failure; `Poll` is `pollDeployment`; `Verify`, `Probe`,
`Move`, `Return` are `verifyDeployment`, the health check, `moveSiteDomain` and
`returnSiteDomain`; `Promote`, `ListSuperseded`, the `Stop*` actions and `Flip`
are `promoteDeployment` with the loop of `stopDeployment` calls between writing
`live` and pointing the site; `Tick` and `TaskRow` are `advanceDeployments`;
`ConsoleAdvance` and `Console` are the poll, verify, stop and revert endpoints;
`SuspendBegin`, `SuspendStop`, `SuspendCommit`, `Resume`, `ChangeDomain` are
`siteDeploymentLifecycle`. Every status write is two steps, `SetStatus` (read
and check) and `StatusWrite` (update by id), because `setDeploymentStatus` is.

### ThemeBinding

`RunApp` takes the provisioning of the application as one step. `ThemeBinding`
opens it: `Ensure`/`Insert` (`ensureThemeBinding`, whose insert a unique index may
refuse), `Resolve` (`resolveBindingAppUuid`: the recorded application, else a
look-up by deterministic name), `ClaimIfFree`, `ClaimRead`, `Takeover`
(`claimBindingProvisioning`), `CreateApplication` (whose answer may be lost),
`Persist`, `Adopt`, `Release`. `Stop` is an operator or a suspension finishing a
row under its handler; `Stale` is the task failing a row nobody runs.

### UsageOutbox

A pass of `billingIntegrationTask`: `FoldSum`, `FoldRow`, `EnqueueRead`,
`EnqueueWrite` (`foldSamplesIntoOutbox`, `enqueueUsageEvent`,
`enqueueCorrection`); `Recover`, `Unlease` (`recoverStaleSending`); `List`,
`Lease` (`leaseOutboxBatch`); `Load`, `Post`, `Ack`, `Mark` (`publishUsageBatch`
with `markOutboxSent` and `markOutboxRetry`, each of which reads the lease and
then writes). Outside of the pass, `Measure` is a sample becoming durable and
`ReplayRead`, `ReplayWrite` are `replayOutboxEvent`. Event ids are deterministic
in the code; here `0` is the hour's measurement and any other number the
correction by that difference, so two equal corrections are one event, as they
are in the code. Central Billing (`CentralTakes`) counts an event id once, with
the quantity it first came with: that is what its `duplicate` answer means.

### StorageClock

`account` is the `billing-storage-accounts` row (bytes, byte-hours accrued in
the open hour, when it was last advanced), `media` the bytes of the stored files
and `outbox` the event of each hour. `levelAfter` and `applyStorageLevel` are the
hooks of an upload or a deletion (`accountMediaStorage`), in the transaction of
their request, which `Commit` ends. `flushStorageHours`, `readAccounts`, `flushEmit`
and `flushPersist` are the flush of a replica: read the account, advance its
clock (`advanceStorageClock`, the integral), queue the events of the hours that
closed, write the row. `Publish` takes an event away, `Tick` moves the clock, and
`level` remembers what the site held at each instant: the definition the billed
hours are compared with.

### Entitlement

`Publish` is a decision of central Billing; `verifyBillingRequest` records the
nonce of a signed body and refuses one it has; `Decide` reads the row and
compares versions (`decideProjectionVersion`); `writeProjection` updates or
creates; `seedProjectionsFromLegacy` is the migration that creates a row where
there is none; `Fail` is a write that fails or a handler that ends.

### Checkout

| State | Code |
|---|---|
| `order` | the rows of `orders`: status, provider, gateway reference, coupon |
| `gateway` | each payment at its gateway: created, paid, verified, settled, reversed |
| `off` | gateways `resolveGateway` refuses: module or row switched off, not on the allowlist, without credentials |
| `expired` | orders whose callback link is too old |
| `stock`, `usage` | `products.inventory`, `coupons.usageCount` |
| `proc` | a request: the order it read, the payment it asks about, the update it has under way |
| `credit` | history: the payment that marked each order paid, and the reference stored at that time |

`Start`, `Create`, `Initiate`, `StoreReference` are `startCheckout` (validation
against stock and coupon, the order, the call to the gateway, its reference).
`Callback` begins `completeCheckout`: it reads the order and finds out which payment
to ask about. A callback may carry a reference, its own or that of another order;
`Named` is the choice of each adapter: ZarinPal and SnappPay take it when none is stored,
Digipay prefers it, TorobPay refuses one that is not the stored one, the HTTP
contract does not read it. The `Ask…` actions follow the adapter of the provider
(verify once, or verify and then settle, `SettleSnappPay`) for that payment;
`Confirms` says when the gateway agrees: it resolves (it is not `off`), the payment was
made with it, it is paid, and ZarinPal's amount is the order's. `SwitchGateways`
switches gateways off and on. An order update
is a READ COMMITTED transaction of several steps: `ReadPrevious`, `WriteOrder`
(the row lock), `findOwnProduct`, `WriteStock`, `ReadUsage`, `WriteUsage` (the
hook `settleStock`), `Commit`. `Decide` is a status change by staff,
`PaymentCancel` a payment taken back at the gateway, `StateExpires` the end of a
callback link.

### DomainPurchase

`row` is the `reseller-domains` row of one name, `op` the operation rows,
`registrar` what the registrar holds. `Order` and `Preflight` (WHOIS), `Claim`
(the row), `Submit` (the operation row), `callResellerArea` (whose answer may be
lost), `RecordOp`, `RecordDomain` are `domainResellerOrder`; `Manage`, `Command`,
`RecordHosts` are `domainResellerManage`; `Operator` sets a state by hand.

### SiteDomains

`site` holds the domain, its verification and the alias rows of each site. A
request carries what it read and what it will write from one action to the next:
`postAlias`, `deleteAlias`, `updateSiteDomain` for a site key (with
`hostnameIsTaken`), `Looks` and then `parseSitePatch` or `saveForm` for staff, who
see a site, check its names and later send what they want. The update is
`normalizeAndValidateDomains`, which completes what was not sent from the row it
reads (`Merged`, as Payload does), `ensureUnassigned` (the triggers of the database,
which lock each name until the transaction ends, and the unique indexes) and
`commit`, which stores what `resetVerificationOnHostChange` returns. `Verified` is
`siteHostMatch`, which `domainCheck` answers Caddy with. `checked` is the set of
names staff have verified for a site since they last lost their tick.

### CdnSync

`zone` is the `cdn-zones` row (desired rows with the provider's ids, rules, ids to
delete, the marker `syncRequestedAt`, the outcome), `remote` the provider. A PUT
of the tenant reads the zone and later writes it (`siteCdn*` endpoints,
`mergeTenantRecords`). A synchronisation copies the zone
(`syncRequestedCdnZones`), deletes (`deleteCdnRecords`), creates or updates one
record or rule at a time (`SyncRecord`, `SyncRule`; Cloudflare's are found again
by their comment, Arvan's by their content), re-reads the zone (`ReadCurrent`) and
merges its outcome (`recordOutcome`). Staff synchronise by hand (`cdnSync`) and
write the whole snapshot back (`writeCdnOperationalState`).

A record that is created gets an id nobody remembers (`Unused`): providers do
not give out an id again, and one that is gone stays gone for whoever still
holds it in a row, a snapshot or a list of deletions.

### Migration

| State | Code |
|---|---|
| `source` | the records of the WordPress site, with a version |
| `job` | the `migration-jobs` row: status, control, operation, checkpoint, write fence, lock |
| `ledger` | a `migration-records` row per record: disposition, source hash, destination, whether the time stamp is the document's |
| `doc` | the documents: how many copies, which version, edited since, parent linked |
| `errors` | open `migration-errors` |
| `since`, `seen` | what the source lists as modified after the last sync, or after the start; ledger rows of this run |

`queueMigrationOperation`, `setMigrationControl`, `confirmWriteFence` are the
operator; `runQueuedMigrationJobs`, `loadJob`, `claim`, `startOperation` a tick that
takes the job; `fetchPage`, `check`, `dryRecord`, `look`, `write`, `record`,
`refuse`, `savePage` the scan with its checkpoint, and `upsertDestination` in it;
`linkPendingParents`, `applyCurrentStock`, `markMissingAtSource`,
`runReconciliation`, `checkControl` and `finish` its end (the last look at what the
operator asked is a step before the last update); the `rollback…` actions the rollback. The
source changes, editors edit, records and requests fail, and ticks end, between
any two of these. A page holds the record that has its place among what the
source lists (`Nth`): the pages move when the list does. Two ticks that overlap
set `hist.overlap`; `hist.stale` is a tick that read the checkpoint of a run
another tick finished or went on with before it claimed the job.

### SiteStaff, CustomerClaim, ThemeRoutes

`SiteStaff`: `provisionSite` checks the slug and opens the transaction,
`FindInvitee` and the grant read and extend an account, `Commit` makes it visible,
`MailInvitee` mails afterwards; `inviteWordPressStaff`, `findUserByEmail`, `Assign`,
`SendInvite` do one person after the other without a transaction; `Fail` is a
write that fails (and rolls a provisioning back).

`CustomerClaim`: `issueCustomerClaimInvitation` reads the profile, `storeToken`
writes the token, `deliver` mails it, `revokeToken` takes it back when the mail
failed; `exchangeCustomerClaimToken` and `claim`; `editEmail` is staff saving
another address, which runs the hook `validateCustomer`; `importCustomers` and
`writeProfile` the delta synchronisation.

`ThemeRoutes`: transitions (`promoteDeployment`, `siteDeploymentLifecycle` with its
late `Commit`) ask for a regeneration (`requestThemeRoutesRegeneration`), which one
timer coalesces; `runPending` and the minutely `advanceDeployments` begin one, which
reads deployments and sites in two queries (`readDeployments`, `readSites`) and
writes the file (`writeThemeRoutes`).

## 3. What the runs check

| Run | Instance | Properties | What it shows |
|---|---|---|---|
| `MCQueue` | three rows, two themes, all modes, task only, one missed probe | `TypeOK`, `OneLivePerLane`, `ServedIsUp` | left to the queue, each lane has one live row whenever nothing is between two steps, and the renderer the site names is live with its container up |
| `MCAdvance` | two rows, preview and direct, task and a console that advances and verifies | `RunsOnce`, `PreviewLeavesProduction` | the conditional claim excludes a second run of a row; promoting a preview changes nothing of production, with everything that may run beside it |
| `MCSuspend` | two rows, edge mode, suspension and resumption, a console that stops and reverts | `ServedWasProven`, `BuildIsRecorded`, `ServingSpec` | a site is only ever pointed at a proven production deployment; whatever builds is recorded with its key; nothing takes the site over that was not let through while it was active, then proven (`SiteServing`) |
| `MCLive` | two direct rows of one theme, two hostnames the operator changes between, a missed probe, a crash, fairness | `HolderWasProven`, `PendingResolves` | only an application that answered its probe ever holds the customer's domain; a pending deployment does not stay pending |
| `MCBinding` | three rows, task and console, stops of every row, two crashes, fairness | `TypeOK`, `ClaimExcludes`, `OneApplication`, `OrphanTakenOver` | one creator at a time; runs that follow one another share one application, lost answers included; a claim left by a crash is taken over |
| `MCOutbox` | one publishing process, two samples, three attempts, two replays, a crash, fairness | `SentIsAccepted`, `CorrectsAccepted`, `EventsSettle` | sent means accepted; corrections follow acceptance; no event stays on its way for ever |
| `MCCheckout` | two orders of one price for two of four units each, SnappPay, two handlers, callbacks that carry any reference or none, a lost answer, a decision of staff | `TypeOK`, `PaidWasConfirmed`, `SettledPerCrossing`, `CountsBalance` | an order is paid only by a payment that was verified and settled, its own once its reference is stored; every crossing of *paid* moves the stock once; stock and coupon add up |
| `MoneyLive` | one order, card slip and each of the five online gateways, gateways switched off and on, two lost answers, a crash, one link that grows too old, a decision of staff, fairness | `MoneyIsRecorded` | if callbacks keep coming at times the gateway is on, the money it holds becomes a recorded payment or a decision |
| `MCCdnSync` | two rows, a rule, four remote records, Cloudflare, two requests, a failure, a crash, a synchronisation by hand, fairness | `TypeOK`, `RemotesAreRows`, `AppliedWhenQuiet`, `RequestAnswered` | no record twice at the provider, no dangling id, no edit swallowed, every request answered |
| `MCMigration` | two records in two shapes of source, one tick at a time, three commands, two faults or edits | `TypeOK`, `OneCopy`, `MatchProves`, `DeltaMissesNothing`, `CompletedIsWhole`, `RollbackSparesEdits` | no duplicate, no missed change, nothing completed that is not whole, no edited document rolled back, through pauses, failures, crashes and resumption |
| `MCServices` | seven services, each with two handlers and its own faults | `ServiceTypes`, `OnlyForward`, `SoldOnce`, `HoursAreWhole`, `StaffIsWhole`, `ClaimIsProof`, `FileFollows`, `DomainsHold` | versions only move forward; a name is sold once; hours are billed for what was held; members are not lost; a token claims once, for its address; the routes file follows the table; a host name belongs to one site and is served only verified |
| `StaleCutover` | as `MCMigration`, one fault | `CutoverIsFaithful` (violated) | section 7 |

Nine more configurations end in a counterexample that section 7 explains and can
be reproduced with `tlc -config <name>.cfg <module>`: `Suspended`, `StopSibling`
and `TwoMoves` with `MCDeployment`, `LostAnswer` with `MCUsageOutbox`, `TwoCallbacks`,
`BorrowedReference` and `GatewayOff` with `MCCheckout`, `RollbackDeletes` and `TwoTicks`
with `MCMigration`.

`CHECK_DEADLOCK FALSE` stands in every configuration because these instances
really stop: once every row that may be created has settled, every sample is
accounted for, or the commands are used up, nothing is left to do.

`DeltaMissesNothing` is stated up to three history variables: two ticks at once, a
deletion that shifts the pages, and a tick that resumes from a checkpoint that
is no longer the last. The third was found by the proof: with two ticks, of which
one loads the job and claims it after the other has failed, pages are skipped
that nobody read, although no two ever ran at once. `MCMigration` has one tick,
where it cannot happen.

`SoldOnce`, `StaffIsWhole` and `DomainsHold` are conjunctions of what holds whatever
overlaps (`OneSiteTransacts`: only the site that got the row ever sends a command;
who was mailed has an account; `HostsAreUnique`) and what holds up to a history
variable (`RowAgrees`, membership, `VerifiedWasChecked`).

## 4. Bounds

`Deps`, the deployments that may be created, is two or three. Two rows is what every
hazard of a lane needs (an old and a new, a live and a stale); three adds a row
that is superseded while another is promoted, and two lanes at once, and is
used where the instance stays small. `Themes` and `Domains` are one or two: two
applications are needed for a change of holder, two hostnames for a change of
domain. One console beside the task gives every pair of handlers that meet on a
row. `PollLimit` is 1 where starvation or order matters and 2 where both rows
should be in one tick; `StaleAfter` is one tick, so that a row can be fresh and
stale; `MaxMiss` bounds the unanswered probes before the deadline of ten
minutes, and 0 and 1 give both sides of it. `MaxCrashes` bounds crashes.

Not every operation is enabled in every run: `Ops` selects what a console and
the site may do, and each run combines those that can disturb its properties.
Console operations together with a suspension, over three rows, exceed what TLC
can enumerate in reasonable time. The properties that must hold under
everything together (`RunsOnce`, `BuildIsRecorded`, `ServedWasProven`,
`HolderWasProven`, the refinement) are therefore also proved.

In the outbox, two samples give an hour that is measured, grows, and is
corrected, and a correction that repeats; three attempts leave two failures
before the dead letter; two replays may both be in progress, on the same or on
different events. One publishing process is checked with fairness; the proofs
cover any number.

In the checkout, two orders of two units reach the exact limit of a stock of
four, and the clamp when one of them is settled twice; a coupon of one use is
passed by two orders, since the ceiling is compared with the paid ones. Two
handlers are a callback and its repetition, or a callback and staff. Two
orders are what a reference of another order needs; they cost the same, so that
ZarinPal's comparison of amounts does not tell them apart. `MCCheckout` has
SnappPay alone, whose protocol has two steps and takes a carried reference, and no
crash: a lost answer ends a handler at the same places, what a crash adds (a
transaction discarded) is in `MoneyLive` and in the theorems. Its staff write *paid* or
*refunded* (`Decisions`); another status differs from *refunded* in nothing the
properties of that run see. `MoneyLive` has
every provider and one order: which payment marks an order is a question of
safety. `MaxSwitches` is 2, off and on again; `GatewayOff` has 1.

The CDN zone has two rows (one edited while the other is synchronised), one rule
and four ids at the provider: a synchronisation stops when they are used up, as a
zone does at its quota.

In the migration two records are a page and its parent, listed in either order,
or an attachment and a product; a source page holds one record, so that a run
has two pages and a checkpoint between them. Three commands are an import, a
control and what follows (a sync, a cut-over, a rollback); two events are two of
a change at the source, an edit, a failure and a crash. `MaxVersion` 2 is a record
that changes once.

In `MCServices`, three versions of a projection can arrive in any order under two
signatures; two sites order a name with one lost answer, crash or operator edit;
the clock passes two instants of an hour and one of the next; two provisionings
or invitations of three lists of people; two addresses and two tokens; two
overlapping regenerations; two sites, three host names and four updates of
`SiteDomains`: a rename, a move of the old name elsewhere, and its return.

## 5. Fairness

`Deployment!FairSpec` assumes weak fairness of the tick, of each listed row of a
tick, of each handler's next step and of an open suspension. The code justifies
it: the task is queued by a minutely cron (`src/deploy/task.ts`), every Coolify
call and probe has a timeout, row locks are granted in finite time. Nothing is
assumed of Coolify (a build may never end; the row then grows stale and is
failed), of operators, or of the number of crashes beyond its bound.

`ThemeBinding!FairSpec` assumes weak fairness of each handler's step, of the
task failing a stale row, and of queued rows being started by somebody.

`UsageOutbox!FairSpec` assumes weak fairness of the pass (minutely cron, timeouts
on the call to central Billing), of the ten minutes after which a lease is
stale, and of the second half of a replay that has begun. Nothing is assumed of
central Billing: it may refuse or stay silent for ever. `EventsSettle` then holds
because attempts run out.

`Checkout!FairSpec` assumes weak fairness of each handler in progress, whose calls
have timeouts, and nothing else. Whether anybody calls back is up to the buyer and
the gateway, so it is a condition of the property instead: `MoneyIsRecorded` says of an
order that *if* callbacks for its payment are let through again and again at
times its gateway is on, its money is recorded. That is not the conclusion in other
words: such a callback may find the gateway's answer lost, a handler that ends,
SnappPay's payment verified and not settled, ZarinPal's "verified before", and what
it must not do is leave the payment in a state no later callback can
record. A gateway that is switched off for good, or a link that expired before the
last callback, is outside the condition; section 7 says what happens then.

`CdnSync!FairSpec` assumes weak fairness of the task, a minutely cron whose calls
have timeouts. Nothing is assumed of the provider, of tenants or of staff.

The other modules claim no liveness.

## 6. What is proved

All of it for every number of rows, themes, hostnames, consoles, publishers,
samples, attempts, crashes, deliveries, versions, orders, records, pages and
handlers; the assumptions are the `ASSUME`s of the modules (finite rows, the task
is not a console, the null values are not rows or applications, modes and
operations are ones the code has, bounds are natural numbers), which TLC
evaluates in the runs.

Every proof has one shape. What a run checks is seldom inductive, because a
handler acts on what it read several awaits ago. The invariant (`Inductive` or
`IInv`, checked by TLC before it was proved) says what each handler knows at
each of its steps; one lemma per action shows that the step keeps it, lemmas
about a step of *another* handler show that what was learned stays true, and
where the code does not guard against a schedule the invariant stops at the
history variable that names it.

`DeploymentProofs`:

| Theorem | Statement |
|---|---|
| `TypeCorrect` | `Spec => []TypeOK` |
| `RunsAreExclusive` | `Spec => []RunsOnce` |
| `BuildsAreRecorded` | `Spec => []BuildIsRecorded` |
| `RendererIsProven` | `Spec => []ServedWasProven` |
| `DomainFollowsProof` | `Spec => []HolderWasProven` |
| `ImplementsSiteServing` | `Spec => ServingSpec` |
| `PreviewIsApart` | `Spec => PreviewLeavesProduction` |
| `OneLiveAtRest` | `QueueAlone => (Spec => []OneLivePerLane)` |
| `RendererIsUp` | `QueueAlone => (Spec => []ServedIsUp)` |

None of these is inductive: that the site's renderer was proven depends on what
the handler about to write it knows, which it learned several awaits earlier.
`Inductive` says what each handler knows at each point: it has a row
(`HandlerHasRow`); past the probe, that row is proven, on its way to `building`,
`verifying` or `live` it has a build (`HandlerKnows`); in the middle of a run it
is alone, before the row's first build, and what it has recorded is recorded
(`RunnerKnows`); and what a row's status says of its build and its record
(`RowKnows`). The proof has a lemma for the type of each group of actions, one
for what a step leaves of the *other* handlers' knowledge, and one per conjunct.
What is known is stable: a row's build never goes back to none, `proven` grows,
a recorded key is only revoked, a mode never changes. That stability is what
lets a handler act on what it read before an await, and it is exactly what fails
for what handlers read of the site (section 7). `ImplementsSiteServing` follows
from `Inductive`: a row becomes promotable only in `Verify`, which finds the site
active; it is proven only in `Probe`; the one step that names a new renderer,
`Flip`, runs on a row that is both, and everything else falls back or stutters. `PreviewIsApart` needs one
more fact, that the applications a promotion is about to stop belong to rows of
its own lane: it listed them before the first of its stops.

The last two are about a site that is left to the queue: `QueueAlone` is no console,
no crash, no suspension. Each is needed, TLC has a counterexample without it: a crash
between the flip and the supersession leaves two live rows, a console stops the
application of the live row, a suspension commits between the two reads of a
promotion. Rows, themes, modes, domain changes and failures of Coolify are
unrestricted. `QueueInv` says what the one handler knows: what the tick has still to
do is not live and is not the row at work (`QueueKnows`, `TaskKnows`); only the stops
of a promotion write to a live row, and they stop rows of its lane (`StopsItsLane`,
`PromotionKnows`); a lane has a second live row only while a promotion is on its way to it
(`LanesKnow`); and the renderer is live and its container up, unless it is about to
be replaced (`ServedKnows`).

`ThemeBindingProofs`:

| Theorem | Statement |
|---|---|
| `BindingTyped` | `Spec => []TypeOK` |
| `TheClaimExcludes` | `Spec => []ClaimExcludes` |
| `OneApplicationOnly` | `Spec => []OneApplication` |

The claim excludes for three reasons that must be known together: a row that was
taken is not queued again, so it has one handler (`OneHandler`); the row of a
handler stays `creating` until it is stopped (`Unfinished`); and a takeover is from
a holder seen finished, which it stays (`StaleHolder`). `OneApplication` adds that
without overlap nobody made an application since a handler looked one up
(`Alone`).

`UsageOutboxProofs`:

| Theorem | Statement |
|---|---|
| `TypeCorrect` | `Spec => []TypeOK` |
| `SentAreAccepted` | `Spec => []SentIsAccepted` |
| `CorrectionsFollowAcceptance` | `Spec => []CorrectsAccepted` |

The invariant says that an event that exists has a quantity, that an answer
that says *taken* names an accepted event for as long as a pass holds it, that
whoever is about to queue a correction saw the measurement accepted, and that
what a pass listed, leased or is about to mark exists. Central Billing forgets
nothing and rows are not deleted, so all of it survives other passes, replays
and crashes. `TypeCorrect` is not only about shapes: quantities stay within what
was measured, for which the exported quantity of the measurement must be known
not to be negative.

`CheckoutProofs`:

| Theorem | Statement |
|---|---|
| `CheckoutTyped` | `Spec => []TypeOK` |
| `PaidIsConfirmed` | `Spec => []PaidWasConfirmed` |
| `SettlesOnce` | `Spec => []SettledPerCrossing` |
| `CountsAddUp` | `Spec => []CountsBalance` |

`PaidWasConfirmed` is about the payment that marked the order (`credit`), which need not
be its own: a handler that is about to write *paid*, and is not staff, knows that
the gateway confirmed the payment it asked about to the end of its protocol and
that the payment may pay for the order (`KnowsGateway`, `Pays`): one of the same
gateway, its own unless the adapter takes the reference from the callback, for
ZarinPal and SnappPay only where none was stored when the callback arrived, for ZarinPal only of the same amount
(`Carried`, `MayPayFor`). Nothing but a reversal takes a confirmation back, which the
property allows. TorobPay and the HTTP contract never ask about another order's
payment because such an order never stores a foreign reference (`OwnReference`). The
proof needs an attempt to be opened by one handler only (`OneBegins`), on an order that no gateway
knows yet (`NotOpened`). `SettledPerCrossing` counts in integers of any size.
`CountsAddUp` compares two counters with sums over all orders. Its invariant
includes what is in flight: an order whose status is written and whose stock is
not yet, the stock a transaction read and is about to write, the uses it read,
and what a rollback would put back. A step that changes one order's share of a
sum is a case of `SumOfSame` or `SumAdds` of module `Sums`.

`Sums` proves by induction that the community modules' `SumFunctionOnSet` is what
it should be: zero of nothing, and the value at an element plus the sum of the rest.
A proof by induction over a set usually cites a theorem that takes a predicate,
which these provers cannot instantiate; `InductionOverSets` says the same of a *set*
of subsets, and follows from the library's theorem that the strict subsets of a finite set
are well founded. The fold chooses its own order, so `TotalUnique` shows first
that any two ways of picking give one total.

`CdnSyncProofs`:

| Theorem | Statement |
|---|---|
| `ZoneTyped` | `Spec => []TypeOK` |
| `PairsStay` | `Spec => []RemotesAreRows` |
| `NoEditIsSwallowed` | `Spec => []AppliedWhenQuiet` |

The invariant relates five copies of the rows: the zone, the one a tenant is
editing, the snapshot of the task, the zone it read again before it merges, and
that of a synchronisation by hand. In each an id names a record of its own row
(`Named`), and no id that is to be deleted is one of a row that is there (`Spares`).
What a synchronisation learned stays true while it runs, because the others only
delete what is nobody's, and its snapshot is the zone's rows as long as the
marker it took has not been replaced (`Marked`): that is why an outcome that finds
the same marker may clear it, and why no edit is swallowed. The proof needed that ids
at the provider are not used twice, which the model had not said.

`MigrationProofs`:

| Theorem | Statement |
|---|---|
| `JobTyped` | `Spec => []TypeOK` |
| `NoDuplicate` | `Spec => []OneCopy` |
| `MatchIsProof` | `Spec => []MatchProves` |
| `EditsAreSpared` | `Spec => RollbackSparesEdits` |
| `NothingIsMissed` | `Spec => []DeltaMissesNothing` |
| `CompletionIsWhole` | `Spec => CompletedIsWhole` |

`IInv` has three layers. `Stages` says what a tick has in hand where it stands (a
record, a page within the total it read, an operation that has such a stage). As
long as no two ticks overlap, `Alone` says that a record has one document at most,
that a row whose time stamp is current proves what its document is (`Proves`), and
that what a tick found out (a target to update, an unchanged hash, parents to
link, documents to roll back) holds until it uses it (`Holds`); `NoDuplicate`,
`MatchIsProof` and `EditsAreSpared` follow. As long as no run resumed from a stale
checkpoint and no page shifted, `Delta` says what is left to read: the records
that differ from the ledger, and were not touched since the run began, lie behind
the page of the tick in the stream it reads, behind the checkpoint in the streams
to come, and nowhere in those it has done (`Unread`), and behind the checkpoint of
a run that was interrupted (`Checkpointed`). Lemmas about places in a list
(`RankOrders`, `Ranks`, `BehindOn`: a longer list moves a record back, never
forward) show that what a resumed run skips was read, and that what was not is
still ahead of it when the source grows meanwhile.

`CompletionIsWhole` needs `Whole` beside it, because the tick that completes a job
reconciled it some steps earlier. A cut-over past its first step is behind the write
fence (`Fenced`): the source does not change under it, so what its reconciliation
found stands when it finishes (`Finds`), and only that finish completes a job. The
reconciliation compares the source with the ledger, whose documents must exist, and
looks neither at their versions nor at parents; that these agree is shown separately. Row and document are never ahead of
the source, and the document is not behind its row (`RowsFollow`), nor is what a tick read
behind the row it will write (`AsRead`). A page whose parent is not linked is still in
the hands of a tick, among the open errors, or among those a run that ended early
lost (`Placed`); a job with open errors is not completed.

`ServicesProofs`, of `ServicesSpec`, so of each service for any number of its
handlers:

| Theorem | Statement | Invariant |
|---|---|---|
| `ServicesTyped` | `[]ServiceTypes` | the types of every service, each from its own invariant |
| `EntitlementInvariant`, `OnlyForwardHolds` (of `Spec`), `ForwardAmongServices` | `[]OnlyForward` | while no two handlers overlapped, the one about to write the projection is the only one at work, it found the row if there is one, and its version is at least the row's |
| `HoursAreBilled` | `[]HoursAreWhole` | what is accrued plus what is billed of the open hour is the sum of what the site held up to the account's clock; what a flush read and has computed is what the account has, until it writes |
| `FileIsCurrent` | `[]FileFollows` | a regeneration under way will see the table as it is, or another is asked for; a sound one runs alone |
| `NobodyIsLost` | `[]StaffIsWhole` | what a request found of an account still holds; who was placed is there with that role or a stronger one |
| `ClaimedByItsOwner` | `[]ClaimIsProof` | the token a request carries is the one of the profile; each was mailed to one address |
| `SaleIsRecorded` | `[]SoldOnce` | an operation row names the site of the row; what the registrar holds agrees with the row up to the step the only request is at |
| `DomainsAreApart` | `[]DomainsHold` | the names an update writes, which it holds the locks of, are disjoint from those of the other sites and of the other updates; a request whose row did not change since carries what it saw there |

`HostsAreUnique` and `OneSiteTransacts` are proved whatever overlaps.

*Model-checked only.* Liveness (`PendingResolves`, `OrphanTakenOver`, `EventsSettle`,
`MoneyIsRecorded`, `RequestAnswered`) is beyond the prover. Of the
operators, what `Min` and `Max` compute is taken from TLC's runs.

## 7. Where the code and its documentation disagree

Ten configurations end in a counterexample. Each checks a sentence of the
source; `StaleCutover` is among the runs, the others are kept beside them.

* `Suspended`. `src/deploy/service.ts:1277-1281`: "a site suspended during the
  build must not come back to life through its theme". `promotionBlocker` is
  evaluated on a site that was read once; between it and the flip lie the probe
  and several writes. A suspension that commits there finds the row not yet
  live, or already passed, and the handler then points the suspended site at it.
* `StopSibling`. `src/deploy/service.ts:84-85`: a row that shares the new row's
  application is marked stopped "without stopping the application the new row
  now runs on". Superseding does so; stopping the same older row from the console
  stops the application the live row runs on.
* `TwoMoves`. `docs/theme-deployments.md:239-240`: "switching a site from one
  theme to another, and back, works every time and without a gap". Two direct
  deployments of two themes in `verifying` take the domain from each other; each
  goes back to `building`, is verified, finds the domain elsewhere and takes it
  back. Every write refreshes `updatedAt`, so neither grows stale.
* `LostAnswer`. `src/collections/BillingUsageOutbox.ts:17-18`: "Pending rows may
  still be updated, because central Billing has not accepted them", and `:177`,
  which says that `exportedQuantity` is the quantity central accepted. An event
  that was accepted while its answer was lost is `failed` here; the next fold
  raises its quantity, the same id is posted again, answered `duplicate`, and
  recorded as exported with the new quantity. The difference is never billed.

* `TwoCallbacks`. `src/endpoints/checkout.ts:626-627`: "Idempotent: … must not pay
  twice, move the order backwards, or settle the stock again". Two callbacks that
  overlap both read an order that is not paid and both write it; each update read
  its `previousDoc` before the other wrote, so the stock is taken twice.
* `BorrowedReference`. `src/endpoints/checkout.ts:681-682`: the reference is "what we stored
  at initiate — never what the query string claims"; `zarinpal.ts:157-159`: "never a
  lookup by a value they typed". Where none was stored, because the answer to
  initiate was lost or the process ended before writing it, ZarinPal and SnappPay
  verify the reference of the callback (`zarinpal.ts:160-162`, `snappPay.ts:216-217`), and
  Digipay always prefers it (`digipay.ts:201`); nothing compares it with the
  order. The payment that is confirmed may have been made for another
  order of the same gateway, which answers that it was verified before, and one
  payment then pays for two orders (`PaidByItsOwn`). `PaidWasConfirmed` says what does hold.
* `GatewayOff`. `src/payments/gateways/index.ts:140-141`: "A platform-wide kill switch does
  not get to abandon an in-flight payment. The module being off stops *new* attempts;
  this one exists." `confirm` refuses whenever `resolveGateway` does (`:135-145`); for the
  switch of the module it only words the refusal differently. While the gateway is
  off every callback is turned away, and the money it holds stays unrecorded unless
  a callback comes after it is on again (`MoneyOutlivesSwitch`, `MoneyIsRecorded`).
* `StaleCutover`. `docs/wordpress-woocommerce-migration-matrix.md`: "a record is
  considered unchanged only when both the source hash and the destination update
  time still match the ledger". A dry run, or a record in error, writes the new
  hash beside the old document and leaves the time stamp; the next import skips
  the record, and the cut-over completes with the old version.
* `RollbackDeletes`. The same document: "Rollback deletes only migration-created
  destinations proven unchanged". `refreshRecordDestination`
  (`src/lib/migration/importers.ts:119-152`) copies the document's present time
  stamp into the ledger whether or not an editor changed it since; the rollback
  then deletes the edited document.
* `TwoTicks`. `src/lib/migration/task.ts:11-12`: "each run claims its own lock before
  touching a source, so two overlapping ticks cannot import the same catalogue
  twice". The lock is read (`engine.ts:2824`) and later written by an
  unconditional update: a tick that listed the job while it was queued runs it
  beside another, when both read before either writes or when no page was saved
  for fifteen minutes, and both create the document.

What the other schedules do, that the history variables leave out:

*Deployments and bindings.*

* `src/collections/SiteDeployments.ts:33-38` says the single writer of `status`
  prevents "a retry overwriting a `failed` with a stale `live`";
  `setDeploymentStatus` reads, checks and then updates by id, so it does not.
* `src/deploy/service.ts:78-82` says a retry after a lost create response reuses
  the application; the look-up comes before the claim and is not repeated, so a
  task and a console that overlap can create two.
* The release of a claim is unconditional: a holder that was stopped and whose
  claim was taken over releases the other's.
* `docs/theme-deployments.md:242-243`: a cut-over that is given up returns the
  domain; the task's staleness path (`src/deploy/task.ts:62`) fails the row
  without `returnSiteDomain`.
* `src/deploy/service.ts:931-934` says an edge deployment claims no domain that is not
  its own; after a direct one of the same theme its application may hold it.
* `docs/theme-deployments.md:285` says stopping revokes the key; a key whose
  environment write failed is on no row.
* Two regenerations of the routes file that run at once may write the older
  table last, and one that was asked for inside a transaction may read before it
  commits; the next one that runs alone, within a minute, repairs it.

*Usage.*

* `docs/billing-integration.md:197-198` says rows stay pending without a
  central URL; they are posted, fail, and are dead letters after eight attempts.
* `src/billing/usage/outbox.ts:104`: "Never edit the accepted row"; an enqueue or
  a replay that read the row before it was sent does.
* `src/billing/meters/buffer.ts:6-7` bounds the loss by "the last few seconds"; the
  buffer is flushed once a minute and emptied before its samples are written.
* `accountMediaStorage.ts:7-10` says `recount` rebuilds the total of a site; there
  is no such function, so bytes lost by a flush that overlaps an upload stay
  lost. A media change handled by a replica whose clock is behind the row is not
  counted (`storage-integral.ts`, the first line of `advanceStorageClock`); a flush
  reads 100 accounts.
* A nonce is recorded before the projection is written, so that a delivery whose
  write failed is refused when it is repeated with the same signature; of two
  pushes that overlap the older may write last.

*Checkout.*

* The count of a product is clamped at zero when it is oversold and the full
  quantity comes back on a reversal.
* Two orders that settle at once each write the count they read.
* The link a gateway calls back is good for thirty minutes
  (`src/payments/gateways/crypto.ts:169-170`), the comment at
  `src/endpoints/checkout.ts:641-642` says fifteen. A payment that is confirmed
  later is refused at every retry.

*Domains.*

* An operator verifies a site by `domainVerified: true`
  (`src/lib/platform-control.ts:166-169`), which names no host: when the tenant
  moves the domain between the look and the request, the new name is verified.
  `docs/domains.md:27-29` says it "must be checked again before it can receive TLS".
* `POST` and `DELETE /site/domains` write back the list they read: a verified alias
  that staff removed or un-verified meanwhile is restored.
* A purchase whose answer was lost is `failed` although the name was bought, and
  may be ordered again without another WHOIS look-up; renewals are guarded by
  nothing; a crash leaves `submitting` or `requested` for ever.

*CDN.*

* `recordOutcome` merges the ids of records, not of rules, so every queued
  synchronisation creates the rules again; at Arvan a record is looked for by
  content, and one whose content changed is created twice.
* `src/endpoints/cdn.ts:1124-1128` says a row that is omitted is deleted at the
  provider; one that was never read back, because its synchronisation failed after the
  create, is not
  (`OmittedIsDeleted`).
* A synchronisation by hand, and an adoption, write back the rows they read over
  edits of the tenant; an id that dangles makes every later synchronisation fail.

*Migration.*

* A media file replaced at the source is fetched and not stored
  (`importers.ts:658-689`); a product deleted at the source is never marked.
* Parents still to be linked are kept in memory and lost by a pause or a crash.
* `MIGRATION_ENGINE_ERROR`, `REDIRECT_CONFLICT` and `ROLLBACK_CONFLICT` are opened and
  never resolved, which blocks the cut-over.
* Cancelling a queued job leaves it queued; a job whose tick crashed stays
  `running`, since only queued jobs are listed, until an operator queues it again.
* A record deleted at the source during a scan shifts the pages, and the record
  that moves across a page boundary is not read (`hist.shifted`).
* A new job of the same connection takes over the ledger rows of a completed one.

*People.*

* The list of sites of an account is read and written back: two requests that
  overlap lose a membership.
* When a mail is reported as failed and the token is exchanged meanwhile, the
  revocation un-claims the profile; two exchanges at once both succeed; a token of
  an old address claims when the address changes between the two steps; a
  synchronisation that read before an exchange writes the old status back.

## 8. What is abstracted, and what is not modelled

*Data.* A deployment's package, version and environment are its theme; URLs are
hostnames; messages, events, audit entries and notifications change nothing the
properties see and are left out. Coolify applications are identified by theme
and lane, which is what `ThemeBinding` establishes for runs that do not overlap
their look-up with another's create. A source record and its hash are a version.
Prices, contacts, carts and the text of a page are left out.

*Database.* `update … where` is one conditional write (Payload issues one
statement), and a later `update` by id is an unconditional one of the fields
given. The site update that suspends is one transaction: other handlers see
none of its writes before it commits and wait for the rows it wrote. A
Payload call that fails inside a request rolls the transaction of that request back,
also where a hook catches the error: when the storage hook fails (`accountMediaStorage.ts:35-37`
logs and goes on; every call it makes after the sizes are added up is on the same
`req`), the media row goes with it. `StorageClock!Commit` therefore takes media, account
and event together or none of them; the comment at `:9`, "the file is already
stored", holds only without transactions. Payload
reads a document before it updates it; that window inside one call is a step of
its own in `Checkout` (where `previousDoc` decides) and `SiteDomains` (where the hooks
compare with it), and not modelled elsewhere. Isolation is READ COMMITTED, the
default. Two updates of `SiteDomains` that wait for each other's names, which the
database ends by refusing one, simply wait in the model; two names with one hash
share a lock, which excludes more.

*Time.* Ages are ticks; whether a row is stale is decided when the tick lists
it, as in the code. The backoff of the outbox is abstracted to zero: a failed
row may be due at once, and a lease may be stale at any time after it was taken.
Links and tokens expire at any time. The quarter of an hour in which a second
pending order of the same buyer is turned away (`checkout.ts:356-372`) may have passed
between any two steps, so it excludes nothing and `Start` does not mention it.

*Grouped steps.* `Move` takes `moveSiteDomain`'s Coolify calls together, with the
outcomes its partial failures can leave; `Poll` takes the row's read and
Coolify's answer together, so a poll that asks about a build a restart has
replaced is not in the model. Supersession dedupes the applications it stops;
the model may ask twice, which changes nothing. `PaymentCancel` takes the read of
the order and the reversal together. What SnappPay and Digipay answer about the
payment of another order (amounts, the provider's id of the order) is a choice:
they may confirm it or not; that they do not for the order's own is a lost answer.

*Rows.* Operators cannot delete or edit deployments in the model. A key that
`setEnvironment` refused stays valid in Coolify and on no row (`unrecorded`).
`archived` is `suspended`: `siteDeploymentLifecycle` treats them alike.

*Left out of a modelled component.* Migration: discovery and the coverage that
blocks a run, redirects, archived records, the remaining resources (they go
through the same `upsertDestination`), a second job. CDN: certificates, name
servers, probes, adoption. Checkout: instalment plans, self tests, wire formats.
Claims: disabled and blocked profiles, duplicate addresses. Domains: a tenant's
own member in the admin form (the access of the fields drops the ticks), the
status of a site in `domainCheck`. Outbox: the limit of 500 samples and 48 hours.

*Not modelled.*

* Storage connections: what a hook sees of a partial update depends on how the
  content framework merges fields, and that library is not in the repository.
* Webhooks and the feed of events: one attempt, recorded, by design
  (`src/platform/webhooks.ts:20-36`); there is no order or retry to check.
* Theme artifacts and packages: a synchronisation overwrites the row, the last
  one wins and no order is promised.
* Subscriptions and quotas: the local subscriptions are a frozen archive since
  billing is central; the quota is a count that nothing holds until the write.
* The deployment meter, the meter buffer, the hand-off between admins, token
  caches and rate limits: one event per row, one synchronous function, or no state.
* Uniqueness hooks of content: their comment accepts the race
  (`src/hooks/uniqueSlugPerSite.ts:15-18`).
* Content types, blocks, renderer, admin interface, search, feeds, seeds,
  WordPress transformations, reports, generated types and schema migrations: read
  paths, formatting and generated code, most of the repository's lines.
  `markBindingConflict` and `backfillBindingFromDeployment` have no callers.

## 9. Plan

| Module | Contents | Status |
|---|---|---|
| `DeployStatus`, `Deployment`, `SiteServing`, `DeploymentProofs` | the deployment lifecycle, the abstract promise, its refinement, nine theorems | done |
| `ThemeBinding`, `ThemeBindingProofs` | provisioning claim and takeover; three theorems | done |
| `UsageOutbox`, `UsageOutboxProofs` | fold, lease, publish, acknowledge, replay; three theorems | done |
| `Checkout`, `CheckoutProofs`, `Sums` | order, payment, callback, settlement; four theorems | done |
| `Migration`, `MigrationProofs` | job, scan, ledger, cut-over, rollback; six theorems | done |
| `CdnSync`, `CdnSyncProofs` | zone, edits, synchronisations; three theorems | done |
| `Entitlement`, `DomainPurchase`, `StorageClock`, `SiteStaff`, `CustomerClaim`, `ThemeRoutes`, `SiteDomains`, `Services`, `ServicesProofs` | the small services; ten theorems | done |

Every safety property of the runs is proved. What is left is in section 8.

Composition: `ThemeBinding` details `Deployment!RunApp`; `SiteDomains` and `Deployment`
meet in `ChangeDomain`, `ThemeRoutes` and `Deployment` in `promoteDeployment` and the
site hook; `StorageClock` queues the events that `UsageOutbox` delivers.
