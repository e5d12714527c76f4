# Verification of the logistics management backend

TLA+ modules that model the transactional core of the NestJS backend under
`src/apps/backend/src`, TLC configurations that check them on small instances,
and TLAPS proofs of the properties that matter most.

Paths below are relative to `src/apps/backend/src/modules/` unless they start
with `src/`. Files are abbreviated:

| | |
|---|---|
| C | `canonical/canonical.service.ts` |
| A | `canonical/advanced.service.ts` |
| K | `canonical/workers.service.ts` |
| M | `canonical/mst01.service.ts` |
| O | `operations/operations-workbench.service.ts` |
| W | `finance/workbench.service.ts` |
| F | `conversation/conversation-whatsapp.service.ts` |
| D | `data/data.provider.ts` |
| AC | `src/apps/backend/src/access.service.ts` |
| AP | `src/apps/backend/src/app.service.ts` |
| IE | `src/apps/backend/src/invitation-email.service.ts` |
| SQL | `src/packages/db/prisma/migrations/202608250007_all_feature_canonical/migration.sql` |

Contents: [the system](#the-system), [inventory](#inventory),
[how the code is modelled](#how-the-code-is-modelled), [modules](#modules),
[runs](#runs), [proofs](#proofs), [findings](#findings),
[divergences without a run](#divergences-without-a-run),
[what is not modelled](#what-is-not-modelled).

## The system

The backend serves several tenants from one PostgreSQL database. A request is
a method of a service class that runs inside `withTenant`
(`src/packages/db/src/index.ts`): one Prisma transaction at READ COMMITTED,
under row-level security for the tenant. Handlers protect themselves with
`SELECT ... FOR UPDATE`, advisory locks, an `expectedVersion` the client sends
back, idempotency records and unique indexes; triggers make ledgers and event
logs append-only. Background workers are methods an administrator or a timer
calls; they take rows with `FOR UPDATE SKIP LOCKED`, and those that talk to a
provider hold a lease while they do so.

Two generations of services write the same tables. The *canonical* services
(C, A) implement the specifications in `src/specs` feature by feature and
offer a generic `transition` over tables of allowed moves. The *workbenches*
(O, W) implement the same features for the screens. They were written apart,
check different things, and are both reachable, so much of what follows asks
what one can do to a row the other is working on. The same holds of access,
which tenants (AC) and the platform's operators (AP) administer, and of the
masters, which have pages of their own (M) beside the generic ones (C).

## Inventory

For each component: the state it keeps, its operations, what is hard about it
and what makes it correct, and the module it is in. `PROJECT.json` has the
source files, what is left out of each, and the hazards line by line.

**Vendor bills and payments** (W 1050-1515, A 2195-2583). `vendor_bills`,
`payment_batches`, `payment_allocations`. Create, verify, approve, dispute
bills; create, approve, submit, fail, settle and reverse batches - in both
services, but for disputes, which only the workbench can record. Hard: several batches pay one bill; balances are read without
locks; bill states are recomputed from sums. Correct when a bill is never paid
beyond what it owes, only approved bills are paid, compensation mirrors the
payment exactly once. `Payables`, with the abstract `PayableAccount`.

**Vendor bank versions and compliance** (A 1134-1400). `vendor_bank_versions`,
`compliance_records`, `eligibility_overrides`. Capture, verify and reject
accounts; submit and decide papers; override a verdict once. Hard: superseding
the previous account is a statement of its own, and a payment looks the account
up before it is inserted. Correct when one account is verified at a time, by
another user than its maker, and payments name one that was. `VendorStanding`.

**Contracts and rates** (C, A, D, W). `contracts`, versions, `contract_lanes`,
`client_rate_lines`. Publish, open a new version, add lanes, take and import
indents, bill. Hard: overlap of rates and the rate in force are read before the
insert. Correct when an indent keeps a price that a published version agreed on.
`Contracts`.

**Indents, allocations and offers** (C 1299-1453 and 2034-2276, A 1559-1725,
O 447-628, K 79-83, and the generic transition C 1556-1756). `indents`,
`indent_cancellations`, `allocations`, `allocation_assignments`, `trips`. Hard:
sums and availability are read in snapshots older than the locks under which
they are used. Correct when offers fit the demand, a vehicle serves one
allocation of an indent at a time, placements are final, a trip carries a
vehicle that was assigned. `Placement`.

**Rule execution** (O 1168-1324). Executes a preview of automatic allocations
in six transactions under one idempotency record. Hard: a stop, a repetition or
an edit of the rule between them. Correct when a rule runs once under a key and
what it promises stays within the demand. `RuleExecution`.

**Idempotency keys** (helpers in eight services). `idempotency_records`. Hard:
the helpers differ in what the hash covers, what they lock and whether the record
precedes the work. Correct when an operation has one effect under a key and
every answer tells of that effect. `Idempotency`.

**Trips and proof of delivery** (O 697-923, C 1758-1882, A 1727-1843, and the
generic transition). `trips`, `trip_events`, `pod_tasks`, outbox rows. Hard:
devices report late, twice and out of order; two dispatchers act on one trip.
Correct when a delivery is announced with its event and its POD task, a trip is
accepted once, an accepted POD stays accepted. `TripExecution`.

**Client invoices** (W 500-960, C 1455-1554, A 1845-2064, D 768-832, and the
generic transition). `client_invoices`, lines, `invoice_service_links`,
`invoice_notes`, acknowledgements. Hard: reversals are invoices and can be
reversed; two services bill one trip; approval rules differ between services.
Correct when a service is charged once net of reversals, what is posted was
approved by someone other than the maker and stays on the books. `Receivables`.

**Receipts and their ledger** (W 230-498, C 1884-2030, A 2066-2134, and the
generic transition). `receipts`, `receipt_ledger_entries`. Hard: reversal of a
reversal, overlapping reversals. Correct when what is shown as received is
covered by the ledger. `Receipts`.

**WhatsApp channel, outbound** (F, `conversation/conversation-whatsapp.adapter.ts`).
`conversation_channel_deliveries`, `notification_deliveries`, bindings, consent.
Enqueueing of alerts, leasing, sending, recording. Hard: everything between the
lease and the record - crashes, time-outs the provider had answered, late
recorders, opposite lock orders, quiet hours. Correct when every notification that
was taken up is decided, and every other one whose member stays active; when its
state agrees with its delivery, and a member is not sent the same message without
bound. `Channel`.

**WhatsApp channel, inbound** (F 181-560, `conversation/conversation.service.ts`).
Claims of webhooks under leases, receipts, proposals and their decision, consent,
linking, replies. Hard: the provider posts a message again while or after it is
handled. Correct when a message has one logical effect and its reply tells the
truth. `Conversation`.

**Conversation commands in the application** (`conversation/conversation.service.ts`,
`conversation-commands.ts`). A proposal is confirmed once and executed in the
transaction of its confirmation, or cancelled, or overtaken. `Assistant`.

**Owner invitation and its e-mail** (AP, IE). At most once by design: a send
whose lease ran out is marked failed and not repeated. `OwnerInvitation`.

**Identity, memberships and sessions** (AC, AP). Links, roles, owners, the
opening and succession of sessions. Hard: two services count owners under locks
of their own; a session is opened in three steps. Correct when a session that
works has versions read under the rights and credentials of now, and a tenant keeps
an owner. `TenantAccess`.
**Password links** (AP, AC) in `Passwords`. **Authorization** (AC,
`src/packages/auth/src/index.ts`): policy, lists, previews and changes of
access, in `Authorization`. **Tenant lifecycle**: closing and opening a tenant is
in `TenantAccess` and `OwnerInvitation`.

**Module kernel** (`kernel/kernel.service.ts`). Versioned records with snapshots
and events that are only added; a page is read in three statements. `Kernel`.

**Organisation masters** (M, A, C). Nodes, the index of ancestors, scopes. Hard:
the generic handlers do not take the lock of the masters pages. Correct when the
index agrees with the tree, scopes follow it, and nothing stays active below
what is closed. `Hierarchy`. **Employees** (M, A, C): managers, assignments,
grants that follow home and regions, and who replaces whoever leaves. `Employees`.

**Imports and conversation files** (D, `conversation/conversation-file.service.ts`).
Files are previewed, committed row by row in one transaction, and handed over once
from a conversation. Hard: commits that overlap on a code. Correct when what the rows
report is what was done. `Imports`.

**Alerts** (`alerts/alerts.provider.ts`, K, M). Raised by the worker, by people
and by the check of ownership; acknowledged, snoozed, resolved, reopened. Hard:
runs that overlap, one past midnight. Correct when no alert is raised twice and
owners are told. `Alerts`.

**Integration deliveries** (`integrations/integrations.provider.ts`, K 204-244).
Attempts, dead letters, replays; rotation of credentials and the webhooks they
admit. `Integrations`.

**Governance** (`governance/workbench.service.ts`, A). Approvals in steps under a
policy, and the overrides that rest on them (`Approvals`); versions of a
configuration (`Configurations`); governed documents, their scan, links and
comments (`Documents`).

**Background workers** (K) are actions of the components they serve: expiry of
offers in `Placement`, evaluation in `Alerts`, attempts in `Integrations`, scans
in `Documents`. The accounting projection is *not modelled*.

**Access masters** (`remediation/access-masters.service.ts`): records edited and
approved under one lock each. **Control tower, HTTP controllers, domain helpers,
frontend, seeds, migrations**: queries, parsing, schemas and presentation, without
state beyond that of the services behind them. Constraints and triggers of the
migrations are part of the actions that meet them. *Not modelled.*

How they interact: a contract prices an indent (`Contracts` to `Placement`), an
allocation creates trips (`Placement` to `TripExecution`), a delivered trip with
an accepted POD becomes billable (`TripExecution` to `Receivables` and
`Payables`), receipts settle invoices, alerts about any of them leave through
`Channel`, and messages come back through `Conversation`. All of these meet in
rows of the shared database, never in messages, and each row is written by
handlers that lock it; this is why the components are modelled one by one, with
the part of a neighbour that matters as a variable (`billable` in `Receivables`,
`current` and `source` in `Channel`) or, where the neighbour only lets a request
fail, as chance.

## How the code is modelled

**READ COMMITTED.** A handler that holds the locks of everything it reads
before it decides is one step. A handler that decides on a value it read before
it held the lock - an unlocked read, or a subquery of the locking statement,
which PostgreSQL evaluates in the statement's snapshot and does not evaluate
again when it re-reads the locked row - is split into a `Begin...` and a
`Finish...` step, and the value it read is part of the state between the two.
Rows a split handler holds are visible as such: the other handlers of those
rows are guarded by `IndentFree`, `AllocationFree`, `Unlocked` and the like,
and a `Rollback...` or `Abort` step ends the handler without effect.

**expectedVersion** only refuses requests, and a client may always reload
first, so it is left out where a request reads and writes in one step. In
`TripExecution` it is what makes a split handler safe and is modelled: a write
to the trip refuses every request that waits for it (`StillExpected`).

**Idempotency records** answer a repeated request with the first answer; outside
`Idempotency` a repeated request has no step. Where a handler has none (reversal
of a ledger entry), a retry is a second request.

**Users and permissions.** A user is a model value; what the code compares is
who made, verified or approved the same row. Outside `Authorization`, permissions
only refuse requests.

**Versions that are only compared** (of authorization, of a session) are "current"
or "past". **Amounts** are natural numbers of minor units, small and bounded. Sums
over rows are the cardinality of a set of units (`Units`, `Total`, `Allotted`,
`NetBilled`, `Reported`), a form the proofs can use without recursion.

**Names.** Variables are the tables of the database, actions the handlers.
An operator preceded by a comment starting with "Mutant" is a variant of the
definition below it with a plausible bug; no specification uses it. Variables
and parts of the state marked *history* exist for the properties.

**History of races.** Where the code lets two transactions overlap that should
not, a history variable (`raced`, `crossed`, `crowded`, `overtaken`, `loose`)
records that they did, and the property says what holds as long as they have not,
or how far it fails by then. Each such exception is a divergence listed below.

**Bounds** are CONSTANTS that say so in their comment (`Max...`), and the finite
sets of ids.

## Modules

| module | state (tables) | actions (handlers) |
|---|---|---|
| `Payables` | `bill`, `batch`, `claim`/`refund` (`payment_allocations`, originals and compensations), `request` and `settle` (handlers between their read and their write) | `WorkbenchNext` W 1050-1515, `CanonicalNext` A 2195-2583 |
| `PayableAccount` | what a bill promises its vendor: an account that owes, reserves, releases, pays and takes back, never below zero | abstract |
| `VendorStanding` | `account`, `verifying`, `batch`, `paper`, `override` | capture, verification in three statements, payments made out in two steps, submission and verdict of papers |
| `Contracts` | `contract`, `lane` with its rate, `creating`, `indent` | publication, new versions, lanes in two steps, indents in two steps, imports, billing |
| `Placement` | `indent` with its cancellations, `alloc`, `serving`/`former` (`allocation_assignments`), `trip`, and `edit`, `assign`, `create` in progress | creation to cancellation, offers, answers, expiry, assignment, replacement, trips; `IndentMoves` and `AllocationMoves` are the generic transition (C 109-126) |
| `RuleExecution` | `rule`, `envelope` (idempotency record), `allocation`, `executed`, `request` | the six transactions of `executeRule`, edits, allocations by hand |
| `Idempotency` | `record`, `row`, `post` (open transactions), `answers` | one `helper` per behaviour: begin, lock, look up, work, store, commit, stop |
| `TripExecution` | `trip`, `log`, `pod`, `announced`, `open` (`tripAction` requests waiting for the row) | `BeginAction`/`FinishAction` O 714-923, `DeviceEvent` C 1758-1882, generic transitions, `ReviewPod` A 1727-1843 |
| `Receivables` | `invoice` (lines as a set of trips and a sign), `link`, `noted`, `billable`, `session` | handlers of four services; `Mirror` is the reversal |
| `Receipts` | `receipt`, `ledger`, `session` | recording, reconciliation, reversal in two steps |
| `Channel` | `row` (`conversation_channel_deliveries`), `source` (`notification_deliveries`), `work`, `late`, and the member: `bound`, `optedIn`, `active` | `LeaseOne` (F 904-927), `CheckMember`, `CheckAlert`, `Defer`, `Send`, `Complete` (F 1067-1130), and the faults `Crash`, `Expire`, `RecordAborts` |
| `Conversation` | `claim`, `receipt`, `proposal`, `executed`, `challenge`, `consent`, `replies`, `work` | claim, apply, reply, complete - each a transaction - stops, reposts, the application's own decisions |
| `Assistant` | `sent`, `proposal`, `execution`, `attempt`, `confirming` | messages, cancellation, confirmation in steps, other writers of the record |
| `OwnerInvitation` | `issue`, `delivery`, `attempt`, `event`, `tenant`, `work` | provisioning's invitation, reissue, acceptance, the four statements of a poll, sending, recording, faults |
| `TenantAccess` | `tenant`, `member`, `clerkRole` and `clerkCaps` (a role), `credential`, `link`, `session`, `tenantTx`, `platformTx` | invitations, changes of access and status by both services, sessions in three steps |
| `Passwords` | `member`, `counter`, `link` (`password_reset_tokens`), `asked`, `tried`, `answer`, `spending` | links asked for, issued and spent, limits, changes of memberships and tenants, time |
| `Authorization` | `lead` (a role), `rights`, `session`, `record`, `preview`, `grantTx` | role and access changes, previews, writes and lists under the policy |
| `Kernel` | `row`, `snapshots`, `events`, `remarks`, `page` | create, update, transition, comment, and a page in three reads |
| `Hierarchy` | `node`, `closure`, `own`, `exception`, `creating` | masters pages and move (one lock), generic creation in two steps, generic transitions |
| `Employees` | `staff`, `link` (managed grants), `assigned`, `open`, `hand` (what the lock's holder has read) | pages in two steps each, the exceptional deactivation and the generic handlers without the lock |
| `Imports` | `job` with its rows, `master`, `outbox`, `handoff`, `tx` (commits under way) | preview, commit row by row, other writers |
| `Alerts` | `alert`, `evaluated`, `notice`, `run`, `look`, `recorded` | worker runs, people, the check of ownership |
| `Integrations` | `delivery`, `letter`, `tried`, `client`, `webhooks` | attempts, replays, rotation, webhooks, time |
| `Approvals` | `policy`, `request`, `asking`, `decisions`, `overrides` | requests in two steps, decisions, edits of the policy, overrides |
| `Configurations` | `config`, `drafting`, `publishing`, `projection` | drafts, publication in two steps, rollback |
| `Documents` | `document`, `version`, `scan`, `batch`, `token`, `comment`, `history` | uploads, the scan worker, a scanner, links, comments |

The module's header says what is left out and why a handler is one step or
several; `PROJECT.json` maps each definition to its lines.

**Compositions.** `MCSupply` (extends `Placement`: with `Contracts`,
`VendorStanding`, `RuleExecution`, `Idempotency`), `MCAccess` (extends
`TenantAccess`: with `Authorization`, `Kernel`, `Assistant`), `MCMasters` (extends
`Hierarchy`: with `Employees`, `Imports`, `Passwords`, `OwnerInvitation`) and
`MCDesks`
(`Receipts`, `Conversation`, `Integrations`, `Alerts`, `Approvals`, `Documents`,
`Configurations`) put components side by side that share no table that a property
looks at, or of which one only refuses the other's requests. Interleaving them
would multiply states and add no behaviour, so each behaviour moves one component,
which `focus` names, and a property of a component is asked where it moves. The
type invariants are conjuncts of those properties.

**Refinement.** `Payables` implements `PayableAccount` for every bill
(`AccountIsKept`): live unpaid batches are what is reserved, paid ones what is paid.

## Runs

| run | asks | bounds |
|---|---|---|
| `Payables_workbench` | three concurrent batches of one bill, workbench only: never overpaid, the account is kept | 3 users, 1 bill of 2 units, 3 batches |
| `Payables_both` | both services on the same rows: money moves only after independent approval of bill and batch, claimed bills stay payable, compensation mirrors claims | 3 users, 2 bills, 2 batches, 1 item per request |
| `Supply` | offers, assignments, placements, trips and edits; prices; accounts and papers; rules; repeated requests | 1 indent of 2 vehicles, 2 allocations, 2 vehicles, 1 trip; 3 lanes, 2 windows, 3 contract versions, 1 indent; 3 account versions, 2 users, 2 requirements; 2 rule keys, 2 requests, demand 2; 2 posts, 2 tenants, 2 keys, 2 inputs |
| `TripExecution` | dispatchers, a device and the generic transition on one trip | 1 trip, 2 dispatchers, 3 events |
| `Receivables` | billing, approval, posting, reversal of reversals, notes | 3 invoices, 2 trips, 2 users, 2 open requests |
| `Channel` | two instances on one queue with faults | 1 alert, 1 reply, 2 attempts, 2 faults |
| `Channel_settles` | liveness: every delivery is settled, and every notification decided unless its member is suspended first | 1 alert, 2 attempts, 2 faults, 1 night |
| `OwnerInvitation` | liveness: every attempt is settled | 2 instances, 2 issues, 2 attempts, 1 fault, 1 closing |
| `Access` | memberships, links and sessions; rights as shown; histories of records; proposals | 2 members, 2 sessions, 2 links (logins and second links in behaviours of their own); 2 members and 4 offers of access; 1 record, 4 versions; 2 proposals, 2 keys, 2 requests |
| `TenantAccess_owner` | finds: two services take the last two owners away | 2 members, 1 session |
| `Masters` | the organization, employees, imports, password links; each owner's link mailed once, its three tables agree | 4 nodes, 2 generic creations, 1 update, 1 closing; 3 employees; 4 files, 2 commits; 1 user of 2 tenants, 2 links; 2 instances, 2 issues, 2 attempts, 1 fault, 1 closing |
| `Desks` | receipts, conversation, integrations, alerts, approvals, documents, configurations | 1 receipt of 5 entries; 3 messages, 4 posts, 1 fault; 2 deliveries, 3 credentials; 1 source, 2 workers, 2 days; 2 requests; 2 documents; 3 versions |

Why these bounds are enough. Every race here is between two transactions about
one row, or three where a sum is involved: two of them in flight and a third
already counted. So one bill with three batches, one indent with two
allocations and two vehicles, one trip with two dispatchers and a device are
the smallest instances in which each handler can overlap each other one, and
most invariants are proved for all instances (below). `Receivables` needs three
invoices for an original, its reversal and the reversal of that, or for one
invoice that competes with a chain of two. `Hierarchy` needs four nodes for a
subtree of two that moves between two parents, `Employees` three for a manager, a
report and whoever replaces the manager. `Channel` has two attempts, so that
RETRY and DEAD_LETTER both occur, and two faults, so that a second instance can
itself fail while the first is late; `Conversation` four posts of three messages,
so that one is posted again. `Channel` has no nights and `Channel_settles` no reply
to keep both small; quiet hours only add deferrals, and a reply is never deferred
nor checked for consent, so it takes fewer steps than an alert to settle.

Symmetry is used for ids and users in the safety runs only. `CHECK_DEADLOCK
FALSE` is set where ids run out: a finished tenant stops. `Channel` and
`Channel_settles` never stop and are checked for deadlock.

Every property of a passing run has a mutant of the code, listed in
`PROJECT.json`, under which the run finds it violated.

**Fairness.** The handlers of the database are requests of users: nothing makes
anyone send one, and no run assumes so. Two components have a scheduler, a
`setInterval` in every instance.
`Channel.FairSpec`: each poll enqueues the notifications that are due (weak
fairness of `EnqueueAlert`, which is disabled while the member is suspended,
because F 815 joins active memberships only: such a notification is not promised
anything until the member is active and stays so); each poll leases by `available_at`, oldest first, so
that a delivery that keeps becoming available is not overtaken for ever (strong
fairness of leasing it); a step under way ends, because calls time out after 15 s
(weak fairness of an instance's steps); a lease nobody works under expires (weak
fairness of `Expire`); nights end. `MaxFaults` is more than a bound here: a
delivery whose every send crashes is retried for ever, because a lease lost to a
crash counts no attempt (see below), so liveness holds only of runs in which
faults end.
`OwnerInvitation.FairSpec`: weak fairness of the three statements of a poll that
give a row up and of leasing by some instance, of each instance's steps (the call
to SES ends), of the ageing of a lease nobody works under, and of the expiry of
the token. There is no fairness for faults, consent, bindings, alerts, acceptance,
reissue or closing, nor for the suspension or activation of a member.

## Proofs

Each `...Proof` module proves its module's properties for any sets of ids, any
users and any bounds that satisfy the module's assumptions. Those say only that
bounds are natural numbers, that null is not an id, and that the sets whose
members are counted are finite. Where a component is one of a composition, the
invariant holds whatever `focus` is, because the steps of the others leave its
variables alone.

- **PayablesProof.** `TypeCorrect`, `MoneyIsApproved`, `CompensatedOnce`,
  `SettlementsAreExclusive` hold of `Spec`, both services together. The invariant
  adds to them that an open request is for a batch that does not exist yet, that
  a bill which any batch or request claims is payable (`ClaimedIsPayable`), and that
  a payable bill was approved by somebody independent (`PayableWasApproved`).
  `ClaimedStayPayable` follows: a bill is disputed only before its approval, so no
  batch ever rests on a disputed one. `NeverOverpaid` holds of `WorkbenchSpec`. No sum is
  evaluated: the units of a bill that batches hold form a set, a new claim adds at
  most as many as `Outstanding` counted under the bill's lock, and every other
  step leaves or shrinks the set. `AccountsAreKept` is the refinement, step by
  step: a batch of the workbench pays one bill, so a step moves one account by one
  amount, and the account of every other bill stutters.
- **SupplyProof.** About `Placement`: `TypeCorrect`, `AssignmentsHoldTheirRows`,
  `IndentsShareNoVehicle`, `TripsFollowAssignments`, `EditsAloneOverallot`,
  `PlacementsAreFinal`. The vehicle check is made in a stale snapshot; that it
  still holds for the allocations of the same indent is because the open
  assignment holds the indent row, so nobody assigns under it
  (`VehicleStillFree`, the strengthening). It does not hold across indents. A
  trip's vehicle may have been replaced between the read and the insert, so the
  invariant speaks of the history of an allocation's vehicles, which only grows.
  `RatesStayAgreed`: a rate is superseded only by a later publication, so what an
  indent was priced by is in force until then. `VendorsStayVetted`: what a
  verification that is alone has read is still what is in force when it commits.
  `RepetitionsRunOnce`: what rules offer is counted as a set of vehicles, and
  whatever a request says it made is there under its key; and, of the helpers, two
  requests with equal hashes compete for one lock, so what a request did not see
  while it holds the lock stays unseen.
- **TripExecutionProof.** `TypeCorrect`, `DeliveriesAreAccountedFor`,
  `TripsAreAcceptedOnce`, `OnlyEventsDepart`, `AcceptedPodsStay`. Acceptance is
  read in a stale snapshot; `AcceptanceIsCurrent` says that what an open request
  read is still so, because whoever wrote the trip in between raised its version
  and so refused the request.
- **ReceivablesProof.** `TypeCorrect`, `TripsAreBilledOnce`, `LinksAreExclusive`,
  `PostingsAreApproved`, `SubmissionsAreAcknowledged`, `NotesBelongToPostings`,
  `BooksAreAppendOnly`. `BilledOnce` counts invoices, which no step keeps by
  itself. It holds because the invoices that charge a trip form a chain from the
  one its link names, each reversing the one before: `OneOutstanding` says that
  one of them at most is outstanding, `LastDecides` that its sign tells whether
  the trip counts as billed.
- **ChannelProof.** `TypeCorrect`, `NotificationsFollow`, `SendsBounded`,
  `SettledStays`. The bound on messages is an account of leases: every message
  the provider took, and every one an instance may still hand over, is backed by
  a recorded attempt, a lease that ran out, or the lease now held
  (`SendsAreBacked`). It needs that an instance which still holds its lease
  has not missed an attempt (`HolderIsCurrent`).
- **AccessProof.** `TypeCorrect`, `AnOwnerRemains`, `NoStaleSession`,
  `OneActivationLink` about `TenantAccess`. What a handler decided when it counted
  the owners must still hold when it commits (`Counted`): the row it locked is as
  it was, and so is the other owner, whom only a handler of the other service
  could have taken away meanwhile. `Current` says of a session whose versions are
  current, also of one not yet inserted, that the rank, capabilities and credentials
  of now are those of when the versions were read: whoever changes one of them raises
  a version in the same step, and everybody else leaves them to the member
  (`Spared`). `AccessStaysAsShown` (a write decides under the
  record's lock, a change of access under the membership's),
  `RecordsStayTraced` (rows are only added, so a page can only lag) and
  `ProposalsStayHonoured` (a confirmation holds its proposal's row).
- **MastersProof.** `TypeCorrect`, `IndexIsAncestry`, `NobodyIsOrphaned` about
  `Hierarchy`. That each node's rows are its own and its parent's does not say by
  itself what lies further up, and a move cuts the index along a whole subtree. So
  the invariant adds that the index is transitive and antisymmetric (`IsTree`), and
  that a creation under way still knows the ancestors of its parent (`Awaiting`).
  `StaffStaysLed`: what is below somebody is the least group closed under managing,
  so no recursion is needed, and a circle is somebody below himself. A request that
  has read the group and is about to write a manager from outside it cannot close a
  circle, since nobody else changes the managers of those who stayed (`Regrafted`,
  `Ordered`). Whoever
  lacks an active superior is an exception that is open, or left after the request
  had looked (`Attended`); a reassignment still knows all reports (`Relieved`).
  `ImportsStayAccounted`: versions count what committed rows say. A commit under
  way holds records nobody else does, each as many versions ahead as its rows say
  (`Held`), so that its commit adds two sets of rows that are apart.
  `PasswordsStayReset`: a live link is as young as the last password (`Outlived`),
  and the links a user asked for are counted for every window at once (`Rationed`),
  because the limit is checked for one window and must hold of all that contain it.
  `ScopesAreNested`: as long as no generic creation raced with a move, every scope
  follows the tree. `Settled` is a recursion up the tree, so the proof first shows
  that its equation has a solution, whatever the rows: the least relation that has
  the nodes with a scope of their own or outside the subtree, and hands what a
  parent takes on to its children (`TakenIsLeast`), gives each node one value
  (`SettledIs`). Then each node's scope fits its parent's by one step of it
  (`Fits`), and the invariant (`Nested`) adds that of the nodes the masters service
  created exactly the legal entities are roots (`Rooted`).
  `LinksStayMailedOnce` and `InvitationsStayAgreed` about `OwnerInvitation`: a link
  is in one place at a time, so what was mailed of a token, what the queue holds of
  it and the instances that may yet mail it or put it back (`Carriers`) are together
  at most one, and one more for each record under somebody else's lease
  (`Counted`). A record by the lease's own holder finds the row as the lease left
  it (`Leased`), which is why the three tables agree until another's record.
  The attempt to prove `NoOrphans` without exception showed that it does not hold:
  after a creation has raced with a move, three more moves can take a child from the
  index that the tree still has, and its parent may then be closed. The runs' single
  update does not get that far, so the property names the exception.

- **DesksProof.** One theorem for each invariant of `MCDesks`, from seven
  invariants, one per component.
  `ReceiptsStaySound`: what a reversal under way has read stays in the ledger, so
  every entry is one unit of one sign and the registers, which show fewer of them
  as positive, add up to no more (`Entered`).
  `EffectsStaySingle`: a message that was never overtaken is at one request at
  most, which holds its claim (`Alone`); how often it took effect is told, for each
  kind of message, by what the effect left behind: its row, the proposal it
  executed, the code it spent, the receipt (`Effective`); and whoever answered the
  provider either settled it or left it to somebody who has it (`Settled`). The
  attempt to prove it corrected the model: uniqueness is that of the message's row,
  which `messages` keeps, and not of its receipt, which an unbound number may have
  got first.
  `OversightStaysComplete`: a delivery has an attempt left exactly as long as it is
  not given up, replays counted (`Tried`); of each credential that is to be valid
  yet some descendant is, where descendants are the least closed set, so no
  recursion is needed (`Kin`); and a run of the worker still fits what others
  committed since: it counts once more than is committed, and no other run holds
  what it writes (`Fits`, `Apart`).
  `ChangesStayGoverned`: the decisions of a request are those of the steps it went
  through, one each (`Earned`); what is being published saw every published version
  but those it crossed with (`Publishing`).
  `VerdictsStayCurrent`: all verdicts, batches and links are about versions that
  there are, so a new version has none of them (`Filed`).
  `DesksAssumption` says of the constants that null is no id, that a link names a
  code that may be given out, that the sets an alert can be about are apart, and
  that there is at least one attempt and one day.

Only model-checked:
- liveness (`EverythingSettles`, `AttemptsSettle`), which the prover does not reach;
- `ScopesFollowHierarchy` after a generic creation has raced with a move; until
  then it is proved (`ScopesAreNested`).

## Findings

A run whose property TLC finds violated.

- **A tenant without an owner** (`TenantAccess_owner`, AP 2641).
  `setPlatformTenantUserStatus` counts the other owners under one advisory lock,
  AC 2271 under another, and no constraint stands behind them
  (`src/specs/FND-02/spec.md:243`, `:157`).

## Divergences without a run

Met while translating. One request, or a few, shows each of them; where a model
contains the step, the property that makes an exception for it is named.

Operations
- `createAllocation` (C 1416) does not subtract `indent_cancellations`, so
  cancelled demand is offered again (`src/specs/OPS-01/spec.md:50`,
  `src/specs/OPS-02/spec.md:41`).
- `editIndent` (O 484) compares with a sum older than the row lock and can lower
  the demand below what is offered (`src/specs/OPS-01/spec.md:69`);
  `OnlyEditsOverallot` says that it is the only step that does.
- The eligibility query of `assignAllocation` (C 2139) looks for other assignments
  in the snapshot taken before it waits for the vehicle's row, which a concurrent
  assignment locks but does not update: one vehicle may serve two indents.
  `VehiclesDifferWithinIndent` says what remains.
- The generic transition (C 1634) takes an allocation to PLACED without an
  assignment (`src/specs/OPS-02/spec.md:42`), accepts a lapsed offer (`:62`), and
  takes a trip to DELIVERED without opening a POD task.
- `cancelIndent` (A 1573) accepts an indent that is FULFILLED, CLOSED or
  CANCELLED (`src/specs/OPS-01/spec.md:75`).
- Nothing ends the assignment of a placed allocation, so its vehicle is never
  free again.
- `appendTripEvent` (C 1842) sets the state its map names whatever the current
  one is: a late AT_ORIGIN takes a delivered trip back
  (`src/specs/OPS-03/spec.md:31`). `DeparturesAreLogged` says what remains true:
  every departure from the graph has its event row.
- A device that resends an event under a new idempotency key fails on the
  append-only trigger (SQL 593) where OPS-03 promises the original event.
- `reviewPod` ACCEPT names `governed_documents.state`, a column that does not
  exist (A 1799); a POD is accepted through the generic transition only.
- `executeRule` (O 1168-1324): after a crash the retry previews against demand the
  first try consumed, answers `AUTO_ALLOCATION_NO_MATCH`, and the idempotency
  record stays PENDING (`src/specs/OPS-02/spec.md:56`). The rule is read twice, so
  one execution may mix two of its versions.

Contracts and vendors
- Lanes created at once may have overlapping rates; a new contract version copies
  no lanes and unpublishes the contract; lanes added after publication stay DRAFT;
  an indent of an older version cannot be billed after a new publication.
- `verifyVendorBank` (A 1216-1282) supersedes in a separate statement from its
  lookup; two overlapping ones leave two verified versions (`crowded`).
- A payment does not look at the account again when it is approved or paid.
- Eligibility overrides are never consulted by assignment; `decideCompliance` has
  neither a version check nor a second person; `eligibility` wants at least one
  record of a requirement where assignment accepts none.

Finance
- MARK_PAID and REVERSE (W 1497) recompute the states of the bills of a batch in
  one UPDATE whose sum is taken in the statement's snapshot; if it waits for the
  bill row another settlement holds, the sum is not read again, and a bill ends up
  PAID though one of its batches was reversed (`src/specs/FIN-03/spec.md:44`).
- Two overlapping canonical `createPaymentBatch` requests (A 2453) read the same
  balance and pay a bill twice.
- The canonical REVERSE (A 2564) compensates and does not reopen the bill
  (`src/specs/FIN-03/spec.md:44`).
- The canonical `decideVendorBill` cannot record a dispute: its statement (A
  2377-2390) is given four values and names three of them, so PostgreSQL cannot
  tell the type of the first and refuses it. Canonical disputes have no step.
- The workbench (W 1123) lets the verifier approve a bill; the canonical service
  refuses (A 2373, `src/specs/FIN-03/spec.md:14`).
- The canonical `createInvoice` (C 1455) asks for no eligibility of the trip.
- A trip whose invoice was reversed can never be invoiced again: its link stays.
- `allocateReceipt` (C 1992) converts a property that is undefined and fails on
  every request.
- `reverseReceiptEntry` (A 2097): no lock, unique index or idempotency key stands
  between the lookup and the insert, so one entry may be reversed twice.
- The registers (W 230, 245, 367) count the reversal of a reversal as negative,
  so the received amount shown can be below the ledger's, never above
  (`ReceivedNotOverstated`).
- The segregation check of the generic transition (C 1618) looks for "APPROV" in
  the new state, so it bars the maker from *submitting* a receipt for approval
  and not from reconciling it.
- `addInvoiceNote` stores a credit note unsigned in A and negative in W.

Access
- A session opened while the tenant is closed survives it (AP 2969,
  `src/specs/FND-01/spec.md:145`). A login verifies the password (AP 521) before
  `newSession` reads the versions (AP 289), and a switch or second factor its
  predecessor: a reset that commits between the two raises a version the session has
  yet to read, so a session of the old credentials works on
  (`src/specs/FND-02/spec.md:15`, `:155`). `SessionsAreCurrent` therefore speaks of
  what was in force when the versions were read, and not of what was verified.
- Acceptance activates an invitee who was suspended meanwhile; the tenant's count of
  owners accepts an ACTIVE owner without a linked user.
- `updateAccess` and the lifecycle handlers lock rows in opposite orders (AC 2194).
- A role that is updated between the check of the fingerprint and
  `replaceAssignments` makes a preview untrue; a preview understates the rights
  that a higher grant of the same proposal gives; lists exclude records that are
  no trips and are covered by an ASSIGNED_TRIP grant alone; `updateRole` may change
  the audiences of a portal under its members.
- The lifecycle of a tenant does not touch `users.membership_version`, so the
  check for one tenant of an administrator's password link can be overtaken.
- Idempotency keys are hashed without the tenant in AC, the access masters and
  `probe.create`: the same key of one actor in another tenant always fails on the
  unique index, after its work (`clashes`).
- `invitation-email.service.ts:331`: an acknowledgement applies to whatever lease the
  row has by then, so an overtaken one settles somebody else's
  (`src/specs/INT-01/spec.md:63`; `overtaken`).
- The kernel's transition ignores the transitions of a manifest, and its update
  cannot clear effective dates.

Masters
- `provisionManagedEmployeeGrants` inserts with ON CONFLICT DO NOTHING, so a grant
  that was ended stays ended; an update of an INACTIVE employee provisions again;
  the locks are named `employee` and `employees`.
- Reassignment checks the subtree over ACTIVE employees only
  (`src/specs/MST-01/spec.md:134`); inactive reports stay with a deactivated
  superior; the generic create accepts an inactive manager and its transition races
  with the pages (`open`, `gone` in `NobodyLeftBehind`).
- Reassigning a team or hub moves all grants, and a replacement with the same scope
  deactivates each of them (M 2678-2686).
- A generic transition to INACTIVE leaves grants, children and scope; a reactivated
  exception gives an ACTIVE node with an INACTIVE scope; a generic node that is
  renamed gets its own scope without reconciliation; a generic creation that races
  with a move leaves stale rows in the index (`raced`), with which later moves can
  make a circle, or leave an active node below one that was closed.
- Imports: a row that fails in SQL aborts the whole commit; natural keys shorter
  than two characters become `ROW-n`; the mode of a file is ignored at its commit;
  links of PODs are inserted with ON CONFLICT DO NOTHING.

Governance
- `expires_at` of an approval is never set, so `expireApprovals` never fires; a
  policy that is changed meanwhile can leave a request undecidable; an approval of
  several steps yields one override per decision; overlapping requests of two
  snapshots are both pending (`crossed`).
- Two drafts published at once are both PUBLISHED (`crossed`).
- The unique index on target, category and current version of `governed_documents`
  blocks new versions of two documents of one category; the scan worker reads the
  oldest unsigned versions again and again; a link given out before quarantine is
  still served.

Workers and channel
- Document scans (K 43-71) and the accounting projection (K 246-268) take the
  oldest rows of a window that failures never leave, and starve the others; `run` is
  one transaction for all categories.
- A lease lost to a crash counts no attempt, so a send that crashes its instance
  is retried without bound and never dead-lettered
  (`src/docs/ARCHITECTURE.md:97`). `SendsAreBounded` is therefore stated with the
  leases lost.
- Recording a success is inside the block whose errors count as a failed send
  (F 1018-1041): a sent message becomes RETRY and is sent again.
- The adapter maps the provider's refusals (4xx) to 502, so the branch for
  permanent refusals is never taken for a send.
- `enqueueAlerts` (F 815) selects the notifications of active members only: that of
  a suspended member stays PENDING, without an attempt or an outcome, until the
  member is active again, when it may be stale. One that failed before the
  suspension is still decided, because its delivery is leased without asking for the
  membership and then suppressed (F 960-985); hence the two halves of
  `EverythingSettles`.
- `enqueueAlerts` and `complete` lock a delivery and its notification in opposite
  orders, so one of them may be aborted by deadlock detection (`RecordAborts`).
- Webhooks posted again while the first is processed are answered and lost if its
  holder then fails (`src/specs/INT-02/spec.md:82`); an overtaken CANCEL, START or
  STOP is applied twice; an UNBOUND receipt after a crash completes as ACCEPTED; a
  unique violation leaves the claim in RETRY.
- An alert whose source leaves the observed set never resolves by itself, SNOOZED
  never ends, a recurrence does not notify the same owner again, and a run past
  midnight can apply a stale observation last.
- Webhook event keys are per credential, so a retry after a rotation is recorded
  again; rotating a ROTATING client gives a successor with the shortened expiry;
  `createMapping` can lower a mapping's version.

## What is not modelled

Parsing and validation of requests, permissions outside `Authorization`, row-level
security, audit rows, outbox rows other than those named above, wording and
layout, prices, taxes, currencies and most dates; object storage; the frontend.
Of whole components: access masters, whose records are edited under one lock each;
the control tower; most of provisioning (checklists, master records, reports); the
accounting projection. Within the modelled components, what their rows of
`PROJECT.json` and the modules' headers name; and of two handlers a part that no
property is about: the event type of a device is free-form (C 1758-1882), and
`TripExecution` has the kinds that move a trip and one for all others, none of which
is named like a dispatcher's; a webhook message whose
acceptance answers with a 4xx (`conversation-whatsapp.service.ts:171-176`: no
conversation access, a closed thread, an attachment that fails its validation)
completes as INVALID without effect, and `Conversation` has no step for it.

Worth adding next: the checklist of provisioning; access masters with the requests
they admit.
