# Nebula Cloud control plane: TLA+ specifications

Nebula Cloud is a control plane (`src/apps/control-plane`, TypeScript on Bun) that
keeps everything in one SQLite file (`src/packages/database`) and drives worker hosts
over HTTP. The worker itself is not in the repository; it appears here only through
the calls the control plane makes.

This directory holds the specifications of its components, the TLC runs that check them
on small instances and the TLAPS proofs that hold for every instance. `PROJECT.json`
lists the runs, the mutants that show that each property can fail, the source lines
behind every definition, the hazards the properties aim at, and the theorems.

Two facts shape every module. `bun:sqlite` is synchronous, so one database function is
one step of a process and nothing of the same process runs inside it. A process is
interrupted only where its code awaits; but two database calls in one synchronous
stretch are two transactions, between which another process on the same file may run
and after the first of which the process may die.

## 1. Inventory

| component | state | operations | interacts with | hard behaviour | what makes it correct |
|---|---|---|---|---|---|
| Provisioning queue (`provisioningProcessor.ts`, `ensureWorkspaceRunning` … `finishProvisioningJob`) | `workspace.state`, `provisioning_job` rows with status, attempt, lease; the processor's one job in hand | ensure-running request, poll, claim, call of the worker, success, retry, failure, lost lease, start, stop, pause, removal of a member | worker, placement, entitlements, platform controls | two transactions per request, leases that expire under a slow owner, crash between claim and finish, retries | one active job per workspace, rows of both tables agree, no late answer counts, bounded attempts, every job is settled |
| Worker registry and placement (`workerAdministration.ts`, `workerHealthMonitor.ts`, `workerDirectory.ts`, `assignWorkspaceWorker`) | `worker_host` rows, the reservation columns of `workspace`, outstanding polls | registration, change of capacity, enable, disable, drain, resume, poll and its answers, assignment, release by trigger, start with seeding | provisioning queue, health endpoint of the hosts | late health answers, restart over what administrators did, capacity changes under reservations | ledger balances, no overbooking, a workspace stays on its host, a withdrawn host takes no work |
| Billing (`stripeWebhook.ts`, `apply…Projection`, `assignStripeOperatorSeat`) | `stripe_event` inbox, `billing_customer`, `subscription`, `entitlement` | delivery of an event in several transactions, projection, failure, seat assignment, revocation, disabling and removal of members | Stripe, entitlement checks of provisioning and gateways | late, repeated and reordered events, same-second ties, crash between register and apply, two processes, access that ends by the passing of time | newest snapshot wins, processed once, seats within the subscription and following it, one grace period |
| TCP publications (`tcpIngress.ts`, `tcpPublicationReconciler.ts`, publish and disconnect in `index.ts`) | `published_service` rows, listeners, tunnels | publish, activate, deactivate, revoke, reconcile, connection, handshake | worker tunnel endpoint, limiters, placement | concurrent activation and deactivation, reconciler with a stale desired set, rollback when a port fails, revocation in a handshake | the listeners follow the rows, one listener per port, revocation closes tunnels |
| HTTP publications (`publishedServiceGateway.ts`, limiters, access) | leases of `publicationConnectionLimiter`, windows of `publicationBandwidthLimiter` | request, upgrade, release, byte accounting | publication rows, worker | release twice or never, limits at the boundary | counts equal the open responses, limits hold in every window |
| Runtime gateway and usage ledger (`runtimeGateway.ts`, `recordUsageEvent`) | `usage_event` rows, abort listeners | proxy a request, forward its stream, copy the log of a chat, reconcile for a dashboard | runtime of the workspace, browser | overlapping copies, a browser that leaves in mid-stream, one of several copies failing | a turn is charged once, a reported turn is recorded, nothing is held for who left |
| Console gateway (`consoleGateway.ts`, `consoleUpgrade.ts`) | two sockets and the pending output | upgrade, attach, frame, close | worker console, browser | output and ends before the browser is attached | order kept, only a full browser socket loses output, buffer bounded, both sides close |
| Worker client (`workerClient.ts`, `workerDirectory.ts`, credentials) | one cached client per host | look up, create, start, proxy, restart | worker | a client that outlives the address or credential it was made for | a call uses what the row says when it begins |
| Organizations, members, plan accounts (`setOrganizationMemberDisabled` … `recordAuditEvent`) | `member`, `organization_member_state`, join codes, `plan_account`, audit events | disable, enable, rotate, rename, join, choose a plan | Better Auth, billing | the session is resolved before the body is awaited, the change is committed before its event | an owner stays, changes are by administrators, the audit table agrees with the answers |
| Starts of workspaces, platform administration (`ensurePersonalWorkspace`, `restartWorkspace`, `platform_control`, operator entitlements) | controls, entitlements, requests | open, run, restart, inspect, pause, grant, revoke | provisioning, worker | a pause or a removal while the worker is asked | every start that is reported is audited, and every one that took effect, unless its actor or its confirmation was lost |
| Email delivery, contact form (`resendWebhook.ts`, `diagnosticEmailSender.ts`, `…EmailDelivery`, `createContactRequest`) | `email_delivery`, `contact_request` | submit, begin, mark sent or failed, webhook, purge | Resend | webhook before the sender's own record, two submissions of one request, crash while sending | what is reported happened, suppression is kept, limit per hour |
| Authentication and its limiter (`packages/auth`, `authRateLimiter.ts`) | sessions (Better Auth), `auth_rate_limit_bucket` | sign in, sign up, count an attempt | HTTP API | the turn of a window | no window admits more than its limit |
| HTTP API (`server.ts`, `bootstrap.ts`, contracts) | none | routing, parsing, the order of session, body, checks and answer | all | what is awaited between check and use | a handler is modelled with the component it calls |
| Web application: session, gate, start (`App.tsx`, `OrganizationGate.tsx`, `workspaceStartup.ts` …) | the client's session, route, notice, gate, start | sign in and out, redirect, set up, switch, start, poll, probe, retry | HTTP API | a start whose page was left, a session that ended elsewhere | a page shows its own start, nobody is signed out in silence |
| Web application: usage page, terminals | snapshots by range, request sequence; tabs, sockets, timers | select, reload, close; open, break, retry, close | HTTP API, console gateway | answers in any order, three causes that replace a socket | what is shown is of the range selected, each socket belongs to a tab |
| Web application: other pages | lists | load, change | HTTP API | none in reach | not modelled: each loads a list and merges the answer of a change |
| Persistence and backup (`persistence.ts`, `sqliteBackup.ts`) | the file | open, copy | file system | none in reach | not modelled: pure I/O |
| Tooling, deployment, assets | none | build and deploy scripts | none | none | not modelled |

The components meet in these places: provisioning asks placement for a host before it
calls the worker; the removal of a member deletes its workspace, its jobs, its seat and,
by a trigger, its reservation; an entitlement that billing projects is checked by
`ensureWorkspaceRunning` and again by the processor before it calls the worker; a
publication resolves its workspace and its host for every connection; every gateway looks up
its workspace, and the worker client its host, anew for each request.

## 2. Modules

| module | what it is |
|---|---|
| `Provisioning` | the queue: requests, processors, leases, retries, restarts |
| `WorkspaceContract` | what the queue promises, without leases, attempts or processes |
| `Backoff` | the delay before a retry, by attempt number |
| `Placement` | the registry of hosts, the health monitor and the assignment |
| `Billing` | the inbox of Stripe events, the projections and the seats |
| `Publication` | raw TCP publications: rows, listeners, tunnels, requests, the reconciler |
| `Usage` | the proxied requests, the copies of the runtime's log, the dashboards and the ledger |
| `UsageContract` | what the ledger promises to who pays, without runtimes, copies or rows |
| `Traffic` | HTTP requests to published services, the connection and the bandwidth limiter |
| `Console` | the bridge between a browser's terminal and the console of a workspace |
| `WorkerCalls` | the cached client of a host, its calls and how their answers are classified |
| `Organization` | members, access code and plan of one organization, and the requests about them |
| `Starts` | the requests that open, start, restart and inspect workspaces |
| `Mail` | contact form, sender, delivery rows and webhooks |
| `Attempts` | the limiter in front of sign-in |
| `Visit` | one tab: session, routes, notice, gate, set-up and starts |
| `UsageView` | the usage page with its cache and its overlapping requests |
| `Terminals` | the terminal tabs and their sockets |
| `MCGateways` | `Usage`, `Traffic`, `Console` and `WorkerCalls`, one of them moving at a time |
| `MCAccounts` | `Organization` to `Attempts` and the three modules of the web application, likewise |
| `MCProvisioning`, `MCPlacement`, `MCBilling`, `MCPublication` | constants of the runs of these modules |
| `ProvisioningProofs`, `PlacementProofs`, `BillingProofs`, `PublicationProofs` | the theorems about these modules |
| `GatewaysProofs` | the theorems about `Usage`, `Traffic`, `Console`, `WorkerCalls` and about `MCGateways` |
| `ServiceProofs` | the theorems about `Organization`, `Starts`, `Mail` and `Attempts` |
| `WebProofs` | the theorems about `Visit`, `UsageView` and `Terminals` |
| `AccountsProofs` | what follows from these two for `MCAccounts` |

Operators marked "Mutant" in a module are wrong variants of the definition that follows
them; they take part in no specification, and each shows that some property notices.

### Provisioning

| model | code |
|---|---|
| `state`, `bound` | `workspace.state`, `workspace.worker_workspace_id IS NOT NULL` |
| `job` | `provisioning_job`; `reclaims` is a history of claims over an expired lease |
| `process` | one start of the control plane: where it is in the handler and in `processNext` |
| `entitled`, `paused` | `hasActiveOperatorEntitlement`, the control `workspace_start` |
| `Admit`, `Resolve`, `Enqueue`, `EnqueueFails` | the ensure-running handler, one step per transaction |
| `Poll`, `ClaimNothing`, `Claim`, `Send` | `processNext` up to its await |
| `Succeed`, `Requeue`, `Fail`, `LoseLease` | `processNext` after the worker answered |
| `Start`, `Stop` | start and end of a process, orderly or by a crash |
| `SetControl`, `ChangeEntitlement`, `RemoveMember`, `Tick` | the environment |

Abstractions. The control plane is configured so that entitlements are required.
`Admit` covers the checks of the handler before it resolves the workspace, which read the
entitlement and the controls and change nothing. `CreateWorkspace` may happen in a pause of
`provisioning`: which requests look at that control is the subject of `Starts`. `Process` is a set of starts, used once
each; `Overlap` says whether a second may begin before the first is gone. In the model the
last start never stops, which only matters to liveness. Time advances only while some
timer is pending. `RetryDelay` is a function of the attempt, computed by `Backoff` in the
runs and arbitrary in the proofs. `SQLITE_BUSY` and other failures of the database are left
out. `AttemptBound` caps the attempt counter by the guard of `Claim`.

### Placement

| model | code |
|---|---|
| `host` | `worker_host`; `fresh` is "`last_heartbeat_at` is within `heartbeatMaxAgeMs`" |
| `place` | `worker_host_id` and the reservation columns of `workspace` |
| `polls` | status requests the health monitor has outstanding |
| `phase`, `todo` | the start: polling, assigning the workspaces of an older version, serving |
| `need` | `workspaceReservation` of the running process |
| `withdrawn` | history of the last administration of a host, and of a seeding after it |
| `Register`, `Update` | `POST` and the lifecycle actions of `workerAdministration.ts` |
| `PollAll`, `Ready`, `NotReady`, `Unreachable`, `Age` | `workerHealthMonitor.ts` |
| `Assign`, `EnsureAssigned` | `assignWorkspaceWorker` |
| `CreateWorkspace`, `RemoveMember` | insertion of the row; its deletion with the releasing trigger |
| `Start`, `FindLegacy`, `AssignLegacy`, `Serve` | the start in `index.ts` |

Abstractions. Of the four resources `slots` orders the candidates and `memory` stands for
the three that do not. Of the time of a heartbeat only its freshness is kept. One round of
polls is outstanding at a time: the time-out of a request (5 s) is shorter than the
interval (10 s). The samples of `recordWorkerHealth` are a log that no decision reads.

### Billing

| model | code |
|---|---|
| `sent` | the events Stripe created; the order of `Event` is that of the id strings |
| `inbox` | `stripe_event.processing_result`, `"unknown"` without a row |
| `customer`, `subscription`, `seat` | the rows of one organization |
| `delivery` | where each process is in `process()` of the webhook |
| `Receive`, `Prepare` | registration; resolution of the organization and the second look at the inbox |
| `ProjectCustomer`, `ProjectSubscription`, `RejectSubscription` | `applyStripeBillingProjection` |
| `ProjectInvoice`, `IgnoreInvoice`, `RejectInvoice` | `applyStripeInvoiceProjection` |
| `RecordFailure` | the catch clauses, `failStripeEvent` and the forced `completeStripeEvent` |
| `AssignSeat`, `GiveUpSeat`, `SetDisabled`, `RemoveMember` | the functions of administrators |
| `Emit`, `Crash`, `Tick` | Stripe, the process and time |

Abstractions. One organization; an event names it in its metadata (`named`) or is resolved
through the stored customer. A subscription is active or not, `trialing` counting as
active. The attempt counter is reduced to what it is compared for: whether anybody else
completed the event since it was read (`alone`). The resolution of the organization and
the registration that follows it are one step. Stripe's clock and the host's agree. Customer
events are in the run `billing_converge` only. That a disabled member has no access is left
out of `Effective`, as it does not depend on the subscription.
A seat that is revoked or that another source took over is `"none"`: no billing step
reads or writes it.

### Publication

| model | code |
|---|---|
| `row` | `published_service`; an expired row still has `state = 'active'` |
| `up`, `range` | how far `index.ts` has come, the configured range of ports |
| `holder` | who has bound a port: a listener in `#listeners`, a caller of `activate` that awaits it, another program |
| `request` | where each `publishWorkspaceService` awaits, and for which row |
| `round` | `#reconcileOnce` with the two sets it began with |
| `tunnel` | each client in `#handle`; finished ones have left `#connectionClosersByPort` |
| `Put`, `Reconnect` | the two routes that publish: the workspace's own `PUT`, the member's `PATCH` |
| `PublishHttp`, `PublishTcp` | `publishWorkspaceService` up to its first await, `upsertPublishedService` included |
| `Left`, `Publish`, `Withdraw` | the same after the old listener ended, after the new one started, after it failed |
| `Disconnect`, `RevokeAll` | `disconnectWorkspaceService`, `revokeOrganizationPublications` |
| `StartRound`, `CloseSurplus`, `OpenMissing`, `Opened`, `AbortRound`, `EndRound` | the reconciler, one step between two awaits |
| `Connect`, `Connected`, `Refused`, `Hangup` | `#handle` up to the handshake, after it, and `finish` |
| `Start`, `Crash`, `Expire`, `RemoveWorkspace`, `Occupy` | the environment |

Abstractions. One process. Whether a port can be bound is decided when `listen` is called.
A refused connection (no route, a limiter, the paused platform control) and a refused
request (paused control, no free port) change nothing, so the controls, the readiness of
workspaces and the limiters do not appear: an action that may always be refused need not
be taken. Of the time only the expiry of a row is kept. When a workspace is deleted, what
is under way for its publications goes on without them (`service` becomes `None`), and the
names are free for the next workspace.

### Usage

| model | code |
|---|---|
| `runtime` | what the runtime of a workspace has: the request log and the model of each chat (external) |
| `ledger` | `usage_event`; `EventId`, `Merged`, `Recorded` are the ids and the `ON CONFLICT` clause of `recordUsageEvent`; `BillOf(ledger)` is what `UsageContract` calls the bill, a workspace that is not gone is open there |
| `relay` | a proxied request: where it awaits, whether its abort listener is held, whether the end marker was forwarded |
| `copy` | one `#syncChatUsage`, of a relay or of a dashboard |
| `visit` | one `reconcileWorkspaceUsage` with the summary after it |
| `ArriveRelay` … `CancelStream` | `proxy` and `forwardRuntimeBody`, one action between two awaits |
| `OpenDashboard`, `ListChats`, `AnswerDashboard` | the dashboard's reconciliation |
| `SwitchModel`, `StopWorkspace`, `DeleteWorkspace` | the environment |

Abstractions. One workspace. A turn of a chat is an entry with or without an id and a cost
of its own; its tokens are left out, and the price of a turn is a function of the model.
`ChatOf` and `FirstModel` are bounds that the code does not have. `due` and `clean` are
histories of a dashboard: what the logs held when it was opened and whether every answer of
the runtime was a good one.

### Traffic

`leases` and `meter` are the two limiters, with the four kinds of keys as one set and `Scope`
giving the four keys of a request. `download` is a request of `publishedServiceGateway.ts`: it
arrives (both limiters), sends chunks, is answered or not, streams, is cancelled. `passed` is a
history: for every tick the bytes let through until its end, so that an interval has passed a
difference of two of its values. Every refusal that does not depend on the limiters is one
branch of `ArriveDownload`. `lease` is the flag of `release()`; `LeasesBalance` does not look
at it and counts the responses that are open by what became of the request. TCP tunnels, which
pass the same limiters, are left out here as the limiters are there.

### Console

`bridge[t]` is a terminal from `prepare` on: both sockets with the states the other side
sees, the pending output, and by number the output that was sent, arrived and was shown.
The bridge does not read the result of `browser.send()`, and Bun drops a message while more
than the socket's backpressure limit is unsent: `Delivered` lets the socket take or drop
each message, `Flushed` lets the first of the kept ones through and drops the rest, as
nothing drains in the loop. `dropped` holds these.
A message counts one unit of `maximumPendingBytes`. A socket that a side closes is
"closing" until the other side's handshake ends.

### WorkerCalls

`host` is the row's address and credential, `client` the cached client by the connection it
was made for, `call` a call with the row as it was at its beginning and the client it uses.
One host; the signature is represented by the secret it is made with; a client has no state
of its own, so the outcome of each request is any of those that `#request` tells apart.

### Organization and Starts

| model | code |
|---|---|
| `role`, `disabled`, `code`, `plan` | `member.role`, `organization_member_state`, the current join code by number, `plan_account` |
| `request` (`Organization`), `start` (`Starts`) | a request: waiting for its session, for its body, for the worker, or answered |
| `Apply` | change and event in one stretch; `OrganizationDies` may come between the two |
| `workspace`, `entitled`, `required`, `paused` | state of the own workspace, operator entitlements, `NEBULA_ENTITLEMENTS_REQUIRED`, `platform_control` |
| `OpenWorkspace`, `EnsureRunning`, `OpenDashboards`, `RestartWorkspace`, `GetOperatorRuntime` | the handlers of `index.ts` after the checks of `server.ts` |

Abstractions. One organization. A request that has no body still has a gap between session
and operation in the model, which allows more than the code. The pages that only read are
one operation. A code that is shown by nobody is guessed by nobody. Rows of members belong
to Better Auth; an administrator can remove whom it lets them remove. `open` and `run` name
the organization in their body and need a membership only, as in the code. Jobs are
`Provisioning`'s: `FinishJob` stands for all of it. A call of the worker that throws ends
"unconfirmed": a restart may have been done then or not, as its answer may be lost, late or
not "ready".

### Mail and Attempts

`contact` and `delivery` are the rows, `mailing` the requests that send, `accepted` the
messages the provider has. `MailDies` ends a process at any point between two writes.
The status that administrators give a contact request is left out: nothing reads it.
In `Attempts` a bucket is a row of `auth_rate_limit_bucket`, `forwarded` a history of what
was let through per tick. The buckets of the five actions are independent, one is modelled.

### Visit, UsageView and Terminals

| model | code |
|---|---|
| `known`, `asking`, `path`, `had`, `notice`, `stored` | Better Auth's client state, the routes, the refs and the flag of `CloudSessionRoute` and `sessionLifecycle.ts` |
| `gate`, `org`, `setup` | `OrganizationGate` with the steps of setting an organization up |
| `run`, `current`, `shown` | each `startWorkspace` with its abort signal, that of the mounted effect, what the page shows |
| `cache`, `sequence`, `fetch` (`UsageView`) | snapshots by range, `requestSequence`, the requests under way |
| `socket`, `mounted`, `status`, `retries`, `waiting` (`Terminals`) | the sockets, that of each tab's effect, the status a tab reports, the retry counter, the timer |

Abstractions. The answers of the control plane name any workspace state. Two starts of a
tab may be under way at once (`Run`), which are the mounted one and one that was left.
Routes but login, application, callback and invitation behave like the last. The two
requests of the usage page follow each other and are one. The terminal tabs that the
browser stores for the next visit are left out, and so is the emulator.

## 3. Runs

| run | instance | shows |
|---|---|---|
| `provisioning_single` | 1 workspace, 2 jobs, 2 starts one after the other, lease 1, 3 attempts | attempts stay in budget, a ready workspace has no active job and stays ready, every job is settled, `WorkspaceContract` is implemented |
| `provisioning_overlap` | 2 workspaces, 2 jobs, two processes at once, lease 1, 2 attempts | one active job per workspace, `workspace` and `provisioning_job` agree, answers to old attempts are fenced |
| `placement` | 2 hosts, one of them seeded at each start, 2 workspaces, one of them legacy, 2 capacities, 2 configurations | reservations balance, hosts are not overbooked, workspaces stay where they are, withdrawn hosts take nothing until a restart seeds them |
| `placement_seed` | the same | a violation: a restart resumes a disabled host (section 5) |
| `billing` | 3 events of 4 contents, 2 members, 1 process, time 0..2 | the newest snapshot wins, seats stay within the subscription and follow it, grace is fixed, processed events stay processed |
| `billing_converge` | 3 snapshots of 3 kinds, 1 member | the newest snapshot is stored in the end |
| `publication` | 2 publications of 2 workspaces, 2 ports, 2 requests, 1 client | ports are never shared, a tunnel ends with its listener and leads to the publication of its port |
| `publication_settle` | the same with 1 request | tunnels of revoked and expired publications end, the listeners become those of the active rows |
| `publication_leak` | the same | a violation: a revocation in a handshake leaves a socket open (section 5) |
| `gateways` | 2 chats with 1 request and 1 dashboard; 3 downloads on 2 routes of one worker; 1 terminal with 4 messages; 2 calls to a host of 2 addresses and 3 credentials | turns are charged once and reported, the ledger implements `UsageContract`, limiters account for what is open and passed, consoles keep their order and lose only what the browser's socket refuses, both ends of a bridge and of a stream meet, calls are current |
| `accounts` | 3 users, 2 requests, 2 codes; 2 starts of one workspace by 2 people; 3 mailings about 2 contact requests; 2 clients and a mailbox; a tab with 2 organizations and 2 starts; 2 ranges of usage; 3 terminals and sockets | an owner stays, changes are authorized and audited, mail and limits hold, a page shows what is selected on it |
| `pause_bypass` | the same | a violation: a dashboard makes a workspace in a pause (section 5) |

`gateways` and `accounts` each hold several components that share no state. A behaviour
moves one of them, named by `subject`, and leaves the rest at their initial values: what is
checked is each component by itself, and no product of their states is explored. The
components do not interact except through what each of them has as an action of its own
(a member who is disabled while a start is under way, a workspace that is deleted while a
copy is under way).

Why the bounds suffice to be interesting. Two workspaces and two jobs give every order of
claims, two starts every take-over of a lease and every race of two requests; a lease of 1
with a clock that moves makes an owner slower than its lease. `AttemptBound` leaves
room for attempts beyond `MaximumAttempts`, which only a reclaim reaches. Two hosts of
different capacity with two workspaces reach a full host, a full fleet, a change of
capacity below and above what is reserved, and the choice between candidates; two
configurations make a workspace hold another reservation than the next one gets. Three
events give every order of two snapshots and an invoice or of two failures and a payment,
each delivered any number of times; time 0..2 with a grace of 1 lets a grace period and a
billing period end between events, and lets two events share their second.
Two ports of which a second configuration leaves one out make a publication move, and two
publications compete for what is left; two requests meet in one activation, and one meets
the reconciler and a foreign program. The run `publication` identifies states that differ
by an exchange of the requests or of the publications with their workspaces; nothing in
the module tells these apart. Its limits on active publications are guards that two
publications in two workspaces do not reach; no property of the module is about them.

A relay and a dashboard on two chats give three copies, two of them of one chat, of a log that
a turn with and one without an id lengthen. Three downloads fill a route's limit (1), the
worker's and the organization's (2), and never the host's, with windows of 2 ticks that begin
at 0 or 1 and end or not. Four messages overflow a buffer of two before and after the browser
is attached. A founder, an administrator and a newcomer with two requests let each lose the
role or the membership between session and change. Two mailings of one contact request race, a
third is about another request and meets the limit of one an hour and the suppression of the
inbox; mail that is about no request differs by what it does not store. Windows of 2 ticks on a
clock of 4 turn once. Two starts are one that was left and one that is mounted; one poll and
two probes end by success, failure or exhaustion. Requests, mailings of one contact request and
clients are interchangeable and identified.

Deadlock is checked in the other runs: there is always a request, a poll, a redelivery, an
administrator or a restart. In `gateways` and `accounts` a component may come to rest, when
its requests are answered or the bounds of its clock and its messages are used up.

### Fairness

`Provisioning`: a process that is in a synchronous stretch ends it (weak fairness of the
steps of the handler and of `processNext`); the poll timer of a live process fires again
and again, though a step of the handler may be taken in between, and so does the answer
of the worker (strong fairness of `Poll` and `Finish`); a stopped service is started again
(weak fairness of `Start`); time passes. The client of the worker has no time-out of its
own, so that liveness rests on the worker answering or the connection breaking.

`Billing`: Stripe delivers an event again until a delivery succeeds (strong fairness of
`Receive`, since the process may be busy with another event); a process that does not die
ends its delivery; some day no process dies in a delivery any more. `Converges` then says
that the newest snapshot is stored unless it asks for fewer seats than are assigned or
names no organization that is known: for both the code rejects each delivery, for ever if
nobody gives up a seat.

`Publication`: the timer of the reconciler keeps firing and every call that awaits the end
or the start of a listener goes on (weak fairness of `Reconcile` and of `Resume`); a
stopped service is started again. Clients and workers owe nothing: a tunnel that never
hangs up must be ended by the control plane. `ListenersConverge` assumes that in the end
the rows and the process stay as they are and no other program holds a port.

`MCGateways`: the runtime answers a copy, by an error or a broken connection at worst; a
request that was aborted or whose body is cancelled goes on to its end; a socket that is
being closed gets closed (weak fairness of `CopyStep`, `RelayStep` and `ConsoleStep`).
Users, consoles, models and the end of a workspace owe nothing.

## 4. Proofs

All proofs are checked by tlapm with SMT, Zenon and LS4. They hold for any sets of
workspaces, jobs, processes, hosts, events, members, publications, requests, chats,
terminals, keys and tabs, under the named assumptions on the constants in each module (TLC
evaluates these in every run). No proof assumes a bound of a run: `AttemptBound`, `MaxTime`,
`MaxTicks`, `MaxOutput` and the like are arbitrary naturals. `Download` is assumed to be
finite, as a limiter counts it.

Every invariant and every safety property of a passing run is a theorem. What each says
about the code is at the property; here is the argument.

`ProvisioningProofs`: `TypeCorrect`, `OneActiveJobHolds`, `StateMatchesJobHolds`,
`LeaseFencingHolds`, `AttemptBudgetHolds` for any number of processes at once;
`ReadyHasNoActiveJobHolds`, `ReadyStaysReadyHolds` and `QueueImplementsContract` for
processes that do not overlap. None of the invariants is inductive alone. `TypeInv` adds to
the types the shape of a process (what its step says about the job it holds) and that an
active job belongs to an existing workspace. `TableInv` proves that there is one active
job and that it matches the state of the workspace together: each needs the other.
`LeaseInv` adds that a queued job leaves room for the claim to come, which its budget of
attempts needs. `SoloInv`, for processes that do not overlap, adds `OneProcess` and
`ReadIsFresh`: the workspace that a handler has read is still not ready when it inserts the
job. The refinement maps a queued or running job to an open request and everything below
it to stuttering.

`PlacementProofs`: `PlacementTypes`, `NeverOverbookedHolds`, `AssignmentSticksHolds`,
`WithdrawnTakesNoWorkHolds`, `LedgerBalancesHolds`. The strengthening `WithdrawnIsOut` ties
the history to the columns: a drained host stays in the state draining whatever a poll says,
any other withdrawn host lacks a scheduling flag until a start seeds it. The ledger needs
`OnlyPresentPlaced`: only an existing workspace holds a reservation, so that the trigger
gives each back once.

`BillingProofs`: `BillingTypes`, `NewestWinsHolds`, `SeatsWithinSubscriptionHolds`,
`SeatFollowsSubscriptionHolds` and `GraceFixedHolds` for any number of processes, and
`SettledStaysSettledHolds` for one. The invariant adds `Bookkeeping` (what rows and
deliveries refer to was sent) and `SeatsCopy`: a seat shows an access that the stored row
gave at some time up to now, and a suspended seat is one that the row does not restore by
the passing of time. `SeatFollowsSubscription` alone is not inductive: it does not say
which deadline a seat copied.

`PublicationProofs`: `PublicationTypes`, `NoOrphanTunnelHolds`, `TunnelKeepsPortHolds`.
`RowInv` has that no two rows share a port, which makes the port of a tunnel lead to one
publication. `HolderInv` is what the calls that are suspended need: a port is being bound by
exactly the request, or the round of the reconciler, that waits for it, so that no call that
resumes takes a listener for its own that became another's.

`GatewaysProofs`, for the four gateways:

- `LimitersAccountHolds`. `LeasesInv` counts the downloads that hold a lease of a key and has
  that these are the ones whose response is open, so that each way out releases the lease, and
  once, however end, error and cancellation meet. `MeterInv` says what the bound of a single
  window does not: what passed before the present window began leaves at most one limit in any
  interval of that length that ends there. With it twice the limit bounds every interval.
- `ConsoleInOrderHolds`. `BridgeInv` says where every message is: before the browser is
  attached all that arrived is kept, or the upstream was given up and delivers no more; what
  was given to the browser's socket are the first messages, each seen or dropped (`Shown`), and
  while both ends are open all that arrived. Without the first the flush of
  `attachConsoleBrowser` might begin in the middle.
- `CallsAreCurrentHolds`, which is inductive with the types.
- `UsageChargedOnceHolds` and `UsageCatchesUpHolds`, the safety half of `UsageReported`.
  What a copy carries is the beginning of a log (`CopiesInv`), a row is that of one turn,
  under the id the turn has in its log (`LedgerInv`). `RecordedEffect` is about the
  `ON CONFLICT` clause alone: no row is lost, none gets a second price, each id has one row.
  The refinement of `UsageContract` has a step of `Charge` or a stutter for each copy that
  is recorded and `Close` for the deletion, after which `LedgerInv` keeps the ledger empty.
  `Brings` follows a turn that was due through the copy that was made for it.

`ServiceProofs`: `OwnerStaysHolds`, `ChangesAreAuthorizedHolds`, `OrganizationAuditedHolds`,
`StartsAuditedHolds`, `NotificationsTrueHolds`, `SuppressionHoldsAlways`,
`ContactsLimitedHolds`, `AttemptsLimitedHolds`. `OwnerStays` is strengthened to one owner by
name: who founded the organization keeps the role and is never disabled. The audits and the
authorization are properties of steps and need the types only; `StartsAudited` excepts the
restart that a worker did and did not confirm, for which the code has no event.
`NotificationsTrue` needs how far each request is against what its delivery row says
(`DeliveryInv`); the limit of attempts, that what passed before a bucket began fits in one
limit, as for the meters above.

`WebProofs`: `StartIsOfPageHolds`, `LeftIsSilentHolds`, `UsageIsOfRangeHolds`,
`UsageNeverGoesBackHolds`, `StatusIsOfSocketHolds`. A page has the start of the organization
that its gate let through, and an open gate a full account (`PageInv`, `GateInv`). The newest
request of the usage page carries the number `requestSequence` has, is of the range that is
selected and was not aborted (`NewestInv`). A tab and the socket it is mounted on name each
other, and no other socket lives (`SocketsInv`).

`GatewaysProofs` and `AccountsProofs` carry these over to the specifications of the runs:
each component moves in the whole as its own specification allows (`Implements…`), and so
what was proved of it alone holds there.

Two definitions have the form they have for the sake of the proofs. A sum over a set would
need induction over data; `LedgerBalances` therefore counts the units that workspaces hold,
and `passed` in `Traffic` accumulates.

Only model-checked: the liveness properties `JobsSettle`, `Converges`, `TunnelsEnd`,
`ListenersConverge`, `TurnReported` (in `UsageReported`) and `EndsMeet`, which are out of the
provers' reach, and the values of `Backoff`. That each property can fail is shown by the
mutants in TLC only.

## 5. Where code and documents disagree

Shown by a run:

- `docs/worker-connection.md:112` says that an enabled host stays unschedulable until it is
  resumed. A start with `NEBULA_WORKER_URL` makes the host it seeds enabled and schedulable
  (`placement_seed`). A draining host stays drained.
- `docs/published-services.md:105` says that a revocation terminates the active tunnels. One
  whose handshake with the worker is under way keeps the socket that the handshake returns,
  with nothing left to close it (`publication_leak`).
- `docs/worker-connection.md:125` says that the control `provisioning` rejects the creation
  of workspaces. The usage dashboard resolves the workspace it reconciles without a look at
  the control and creates it where there is none (`pause_bypass`).

Met while modelling, without a run of their own:

- `docs/provisioning-jobs.md:22`: a ready workspace returns with no job. With two processes
  on one file `ensureWorkspaceRunning` acts on a state that it read in an earlier
  transaction and opens one. With one process it holds and is proved
  (`ReadyHasNoActiveJobHolds`).
- `docs/database.md:82`: an older snapshot is ignored. One with fewer seats than are
  assigned by now fails before its age is looked at, and is delivered again.
- `docs/authentication.md:18`: logout returns to the login page. The route goes there
  before the client knows that the session is gone, is sent back to the application and
  then to the login page with the notice of an expired session.
- `docs/authentication.md:14` knows no screen that creates an organization;
  `OrganizationGate` has one. If the request for its plan account fails, the organization
  stays, and is the active one.

Limits of the code that no property of the modules excludes:

- `browser.send()` is called without a look at its result (`consoleGateway.ts:278`, `:312`)
  and the server sets no `closeOnBackpressureLimit` (`index.ts:1244`): a browser that reads
  slowly loses output in the middle and is not told. `docs/console-gateway.md:17` says that
  the frames of the worker are forwarded. `ConsoleInOrder` says that nothing else is lost.
- A restart that the worker did is not in the audit table when its answer is lost, late or not
  "ready": the call throws before `recordAuditEvent` (`index.ts:956`, `workerClient.ts:357`).
  `StartsAudited` names this exception.
- Of two submissions of one contact request the one that fails last turns `sent` into
  `failed` (`index.ts:1188`). `NotificationsTrue` is about the other direction: the row is
  not `sent` on account of a submission that failed.
- A dashboard whose reconciliation fails is answered with what is recorded
  (`server.ts:1788`). `UsageReported` is about the one that passes for complete.
- Queued jobs are claimed before jobs whose lease expired (`index.ts:5314` of the database):
  a stream of new jobs can delay a take-over without limit. `JobsSettle` has two jobs.
- The call of the processor to the worker has no time-out of its own
  (`provisioningProcessor.ts:96`): an answer that never comes stops that process's queue.
- `assertRegisteredCapacity` compares an answer with the row of when the poll was sent
  (`workerHealthMonitor.ts:76`): after a change of capacity the host may count as healthy
  once more until the next poll.
- Two processes that handle one event: one may fail after the other applied it, and its
  forced `completeStripeEvent` (`index.ts:4524`) overwrites the result.
- Two requests for one publication: the one that finds the port being bound revokes the row
  (`index.ts:600`) while the other reports success.
- A port that another program holds ends a reconciliation before the ports after it
  (`tcpPublicationReconciler.ts:69`), and a start of the control plane with it.
- A publication that is deleted with its member leaves its tunnels; when another gets the
  port before a round runs, no round closes them.

## 6. Plan

Done: all components of section 1 that are to be modelled, and the proofs of every safety
property of the runs.

To come, all proofs:

1. A contract for the console with its refinement: an input of which a prefix arrives, and an
   output of which a prefix arrives but for what the browser's socket refuses.
2. What two processes on one file still keep of `SettledStaysSettled` and of
   `ReadyStaysReady`, which are proved for one.

Not planned: the contents of pages, backups, deployment. The composition of Provisioning
and Placement adds little: an attempt fails without a host and is retried, which
Provisioning has as a failure of the worker.
