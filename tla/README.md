# InterMesh in TLA+

Models, model-checking runs and proofs for InterMesh: the assurance proxy
(*Autonomous Action Assurance*), the coordination protocol underneath it (hub, agents,
escrow, cluster, federation), and what is built around it (payments, guardrails,
snapshots). Paths below are relative to `src/sdk-python/intermesh/` unless they start
with `src/` or `docs/`. `PROJECT.json` maps every definition to the lines it models.

    tlc -config payments.cfg MCPayments.tla      # a run
    tlapm PaymentsProofs.tla                     # the proofs

## 1. Inventory

| Component | State it keeps | Operations | What makes it correct |
|---|---|---|---|
| Assurance proxy (`assurance/proxy.py`) | `EvidenceStore._last_hash`, the JSON Lines journal, one thread per request | requests, `CONNECT`, `append` | nothing leaves unless allowed or approved; every risky action answered is on file; the journal is one chain |
| Approvals (`assurance/approval.py`) | `_approvals` and the file it is saved to | `grant`, `consume`, `_save` | an approval is good for one use, one action, a limited time |
| Policy (`assurance/policy.py`, `risk.py`) | none after loading | `evaluate`, `requires_evidence` | the first rule that matches decides, otherwise the default |
| Evidence (`assurance/evidence.py`) | none | build, sign, `verify_evidence`, `verify_chain` | a removed or altered record is seen |
| CLI (`cli.py`) | none, shares the two files | `approve`, `verify`, `proxy` | a grant reaches the proxy; one grant, one use |
| Hub (`hub.py`, `task.py`) | `agents`, `identity_registry`, `task_registry`, `pending_approvals` | REGISTER, TASK_SUBMIT, TASK_UPDATE, end of a connection, restart | a pending task reaches its executor; a result settles its hold before it is announced |
| Task approvals (`approval.py`) | `pending_approvals` (memory) | retain, approve, deny | nothing is engaged for a task that waits for a person |
| Guardrails (`guardrails.py`) | sliding window, violation counts, tripped agents | `validate_task_submission` | no window has more than the quota; an isolated agent is silent |
| Backpressure (`backpressure.py`) | token bucket, counters | `admit` | no burst beyond the bucket; no task beyond the limits |
| Escrow (`escrow.py`) | balances, holds (memory) | `create_hold`, `grant`, `release`, `refund`, export, import | no money appears or disappears; each hold is resolved once |
| Administration (`admin.py`) | none of its own | commands on tasks, agents, escrow, approvals, keys, snapshots | its commands preserve what the handlers promise |
| Agent SDK (`agent.py`, `pipeline.py`) | connection, candidates, pending futures, executions | connect, reconnect, listen, execute, submit, fan out | an agent comes back and is reachable; every future is resolved |
| Store (`store.py`, `identity.py`) | SQLite or PostgreSQL tables | save and load tasks, identities, audit, presence | what was acknowledged survives a restart |
| Cluster (`hub.py:339, 404-495, 925-935, 1642`, `store.py`) | presence rows with a TTL, links to siblings | forward, announce, heartbeat | a connected agent is found from every hub; an orphan finds another hub |
| Federation (`hub.py:584-707, 943-990`, `peering.py`, `egress.py`) | `peered_hubs`, peer keys | dial, accept, relay, filter | both hubs end up on one living link; what it carries arrives; what egress refuses does not cross, nor its answer |
| Audit log (`audit.py`) | a hash chain, in memory and in a table | append, reload | rows are only added, each linked to the last |
| Payments (`payments/*`, `relay.py`) | accounts, charges, nonces, journal, one state file | register, charge, settle, save, reload | a proof is charged once, within the credit limit, and durably before it is served |
| Paid HTTP (`client/*`, `server/*`) | wallet budget, challenges outstanding | challenge, authorise, admit, serve | the budget bounds the bill; every call ends |
| Snapshots (`snapshot.py`) | files named by an administrator or by the second | create, restore, delete | a restore can be taken back; tables follow memory |
| API keys (`apikeys.py`) | keys, a file | create, revoke, export, import | the file follows memory |
| Messages, cryptography, adapters, configuration, JavaScript SDK, tools | | | not modelled, see section 8 |

How they interact. An agent's HTTP traffic goes through the proxy, which asks the
policy, takes an approval out of the store, calls the service, appends a record and
answers. `intermesh approve` is another process: it reads the journal and writes the
approvals file. On the other side agents hold one WebSocket each to a hub; the hub is
one asyncio thread, so handlers interleave only where they await; administrators act
through the same thread; a submission passes the guardrails, then backpressure, then
the queue of approvals, then escrow; the store is written at every change of a task.
Hubs of one organisation share the store and forward to one another; hubs of two
organisations relay over peering links. Paid servers debit the ledger of a registry
that other threads of the same process serve to the network, and both write its file.

What is hard: threads that share locks and files with another process and can stop
between any two operations; handlers that use after an `await` what they read before
it, while connections end, overlap and are replaced; agents that lose connections with
messages in flight and keep executing; a restart that brings back tasks and loses holds;
a save that fails after the memory has changed; a proof delivered twice around such a
save; presence rows written by one hub and cleared by another; a peering link whose end
comes after its replacement; a restore cut half way. `PROJECT.json` lists these hazards
at their lines, with the properties that cover them or the reason none does.

## 2. Modules

| Module | What it is | Extends |
|---|---|---|
| `Policy` | the policy as a function of the action | |
| `Assurance` | the proxy, the approvals, the journal, the approve command | `Policy` |
| `Escrow` | the ledger of the hub and its holds | |
| `Hub` | the task lifecycle: one hub, administrator, agents, connections | `Escrow` |
| `Registry` | the payment ledger, the relay's threads and the state file | |
| `Payments` | wallets, callers, the gate and the paid server | `Registry` |
| `AccountBook` | abstract: an atomic, durable account book | |
| `Cluster` | several hubs over one store, agents that move between them | |
| `Guardrails` | the engine, the breaker, the bucket and the limits | |
| `Admission` | an orchestrator's fan-out through them | `Guardrails` |
| `Snapshots` | a live hub, its tables, files and escrow, saved and restored | `Escrow` |
| `Federation` | two organisations, a hub each, and the links between them | |
| `MC*` | values of the constants for TLC | |
| `AssuranceProofs`, `HubProofs`, `PaymentsProofs`, `AdmissionProofs`, `ClusterProofs`, `SnapshotsProofs`, `FederationProofs` | theorems | the module they are about |
| `Sums` | lemmas on sums over finite sets, for the accounts | used by `HubProofs`, `SnapshotsProofs`, `PaymentsProofs` |

`Payments` composes with `Registry` and `Admission` with `Guardrails` in one state
space: the threads of the relay and of the paid server act on the same ledger and file,
and the orchestrator sees the refusals the engine decides. `Escrow` is shared by `Hub`
and `Snapshots`. `AccountBook` is what the file of `Registry` promises:
`ImplementsAccountBook` is `AccountBook!Spec` with the balances and charges *on file*
substituted for its variables.

### Assurance

| State | Code |
|---|---|
| `pc`, `req` | the threads of `ThreadingHTTPServer` and their local variables |
| `approvals`, `approvalsLock` | `ApprovalStore._approvals`, `_lock`, in the proxy process |
| `approvalsFile`, `approvalsTmp` | the approvals file and its `.tmp`, which both processes use |
| `cli` | the approve command, with its own copy of the store |
| `last_hash`, `journalLock` | `EvidenceStore._last_hash`, `_lock` |
| `journal`, `tailOpen` | the lines of the evidence file, and whether the last has no newline |
| `granted`, `performed`, `completed`, `answered` | history, read by properties only |

A request goes through `Receive` (policy), `Consume`, `WriteTmp` and `Rename` (the two
halves of `_save`), `SendDone` or `SendFailed` (the upstream call), `Sign` and
`WriteRecord` (the two halves of `append`), `Answer`. `WriteRefused` and the second
disjunct of `WriteTmp` are exceptions; they release the lock and end the thread, as the
`with` statement and the handler do. `Stop` ends the process between any two of these,
`Start` reads both files again. A stop may leave a part of the line being written
(`LeftBehind`); text appended to a line without a newline joins it (`Appended`).
`GrantInProcess` is `store.grant` called by the embedding program, as the demonstration
and the tests do; `CliLoad`, `CliGrant`, `CliRename` are the command.

Data. A request signs at most one record, so its number is the record's `action_id`
and stands for its hash. Tokens are action ids. A rule is the set of actions it
matches. Bodies, headers and signatures have no effect on the properties and are left
out. The write of the temporary file is one step: a partial temporary file would be
renamed by nobody but another process's save.

### Hub and Escrow

| State | Code |
|---|---|
| `status` | `task_registry` and the tasks of the store, which `remember_task` writes together |
| `pendingApprovals`, `delivering` | `pending_approvals`; submissions suspended at their broadcasts |
| `agents` | `agents`: name to connection |
| `link`, `owner`, `toHub`, `toAgent` | the connections and the messages on them |
| `pc`, `registered`, `todo`, `ended` | where each `handle_agent` is, and its local variables |
| `live`, `hand`, `refused` | agent side: the connection listened to, the one waiting for REGISTERED, a refusal |
| `assigned`, `working` | agent side: executions about to start, and in the task handler |
| `balances`, `holds`, `minted` | `SimulatedLedger._balances`, `EscrowManager._holds`; history of grants |
| `told` | history: ends announced to the orchestrator |

An action is what a handler does up to an `await` at which it may be suspended.
`HandleRegister`, `Announce`, `Resume` are REGISTER: the name is attached, then the
broadcasts, then REGISTERED, then pending tasks one by one. `Submit` and `Approve` end
at the broadcasts of `finalize_task_submission`, and `Deliver` is the rest.
`HandleUpdate` and `Settle` are the two parts of TASK_UPDATE, around the broadcasts of
a terminal status; the hold is read in the second. `Finally` is the end of
`handle_agent`. A connection is `open`, `lost` (the agent's side is over, the hub does
not know), `closed` (known to the library, the handler not finished) or `done`;
`Notice` takes it from lost to closed. `Connect`, `ReadAnswer`, `Listen`, `Begin`,
`Finish` are the SDK: `_register_on` drops a first answer that is neither REGISTERED
nor ERROR, and that connection stays open without a reader.

Data. One currency, integer amounts. The orchestrator always gets what the hub sends
it (`told`): its own connection is not modelled here. Task ids are fresh. The rate
limits are `Guardrails`; siblings and peers are `Cluster` and `Federation`, so every
assignee is local.

### Registry, Payments and AccountBook

| State | Code |
|---|---|
| `mem` | the `Keyring`, and the `Ledger`: `_accounts`, `_charges` with `_seen_nonces`, the journal |
| `file` | the state file of the registry, replaced whole by `_save` |
| `op` | the thread of the relay that holds `_lock`: register or settle, with what it has read |
| `book` | the thread of the paid server inside `Ledger.charge`, with what it has read |
| `caller`, `spent`, `tally`, `proofs` | each call of `pay_and_retry`; `Wallet._spent`; what each call has read of it; the challenges signed |
| `pending`, `expired` | `PaymentGate._pending`, and the challenges past `expires_at` |
| `toGate`, `serving`, `served` | requests on their way; endpoints running; history of those that ended well |
| `raced`, `shared` | history: accounts the relay's and the server's thread have used at the same time; agents that have had two threads inside `authorize` at once |

`charge` runs without the registry's lock and takes it only to save, so its steps are
`BeginCharge` (tests and reads), `Debit`, `Credit`, `RecordCharge`, `SaveCharge` or
`SaveChargeFails`; a relay thread's are `BeginRegister`, `OpenAccount`, `BeginSettle`,
`WriteSettlement`, then two saves (`ExportAccounts`, `ReplaceFile` or `ReplaceFails`),
because the ledger's change and the handler each save. `Overlap`, true in the run, says whether a
relay thread may act while a charge is under way. `Admit` to `Settled` is
`PaymentGate.admit`; `Endpoint` is the decorated function, which may raise; `Restart`
loses everything but the file. `Timeout` ends a call and leaves the server unaware;
`Replay` delivers a signed request again.

`Wallet.authorize` has no lock either, and an agent may pay from several threads: its test
of the budget (`Authorize`), the signature and the read of `_spent` (`SignProof`) and the
count (`PayAndRetry`, which also sends) are three steps, between which another thread may
be anywhere. What the two races spoil is recorded by `raced` and `shared`: an account is
raced if the relay settles or saves while a charge uses it, an agent is shared if one of its
threads enters `authorize` while another is in it. `BooksBalance`, `DebtWithinLimit` and
`BilledWithinBudget` are stated of the others, so they say how far the harm goes: another
thread never spoils an account it does not touch, and `ImplementsAccountBook` gives up the
balances of raced accounts and nothing else of the file.

Data. The charges and the journal are copied in one step at an export, the accounts
before them. One price unit is one settlement unit. A key is a member of a set, never
rotated. The vendor does not pay itself (`RegistryAssumption`; see section 7).

### Cluster

| State | Code |
|---|---|
| `hubs`, `presence`, `tasks` | the tables of the shared store; a row older than `PRESENCE_TTL` is not `fresh` |
| `registry` | `task_registry` of each hub |
| `conn` | each hub's handler of each agent: REGISTER sent, registered, agent gone |
| `links`, `wire` | `CLUSTER_LINKS` and the `CLUSTER_RELAY`s on them |
| `home`, `known`, `inbox`, `work`, `outcome` | the agent: its hub, `_hub_candidates`, unread messages, executions, the owner's future |

`Register` is REGISTER and its answer in one step (`Hub` has them apart). `Submit`,
`Begin`, `Finish` go through `DeliverOrRelay`, then `Forward` to the sibling presence
names, and `Relayed` there. `Crash` kills a hub, `Start` loads the database, `Heartbeat`
and `Expire` are the two sides of the time to live. A crash is noticed by the agents at
once; candidates may be tried in any order; rows expire only once their hub is dead,
that is, heartbeats are well within the time to live. One connection per agent and hub
at a time.

### Guardrails and Admission

| State | Code |
|---|---|
| `depth`, `events`, `violations`, `trippedUntil` | the engine's maps, for one agent |
| `tokens`, `last` | the gate's bucket |
| `registry` | `task_registry`, which the limits count |
| `future`, `toHub`, `toAgent`, `connected` | the orchestrator's `_pending_tasks`, its connection |
| `stage` | `pending_approvals`, and where an accepted task is: not delivered, with its executor, begun, its end sent |
| `accepted`, `trips` | history, with times; a retained task counts as accepted when it is submitted |

TASK_SUBMIT is one of `RefuseByGuardrail`, `RefuseBySaturation`, `RetainTask`,
`RefuseByEscrow`, `AcceptTask`, in the order of the code: the engine counts a task before
the gate may refuse it. A task a rule retains is answered with nothing; `Approve` delivers
it past the limits, `Deny` and `Cancel` tell the orchestrator nothing. A delivery may find
the executor offline, and `Resume` sends pending tasks again when it registers. An approval
whose hold is refused leaves everything as it was. The administrator's `task.retry` is
`Hub`'s. A refusal by backpressure names its task; the others do not, and `Concerned`
fails every pending future, as the SDK does. A tick is the time of one token; one FIFO
connection, not taken up again after `Drop`. One agent's limits, so the key of the maps
is left out.

### Snapshots

| State | Code |
|---|---|
| `ids`, `status`, `keys`, escrow | the registries in memory |
| `idRows`, `taskRows`, `keyFile`, `auditRows` | the tables and the file of keys |
| `files` | the snapshot directory: a document, none, or one cut short |
| `job` | what the handler of a command has still to do |
| `ending` | TASK_UPDATE handlers between saving an end and settling its hold |
| `chain`, `logged` | the audit log; a hash is the number of its entry |
| `undo` | history: the state each safety snapshot was relied on to keep |

`Restore` is the safety snapshot (`WriteTmp`, `Rename`), then `RestoreMemory`,
`ReplaceIdentities`, `ReplaceTasks`, `ImportKeys`, `ImportEscrow`, `Finish`, each of
which may be the last: `Crash`, `FileFault`, `TableFault`. Neither command awaits, so
`Work` and they exclude each other. `Submit` makes the hold, and remembers the task unless
it is malformed, as `Hub.Finalize` does. Entries that one handler logs together are one
entry; failed tasks are left out (a refund is `Hub`'s); the escrow is the one in memory.
The clock moves only between commands.

### Federation

| State | Code |
|---|---|
| `peered`, `dial` | `peered_hubs` with the peer's key; the link `connect_peer` is at |
| `side`, `wire`, `cut` | each hub's handler of each link, what is on its way, links that carry nothing |
| `registry`, `fate`, `working`, `present` | the task at its hub; what the asking agent knows; what the asked agent does |
| `sent`, `replied`, `taken`, `delivered` | history: the links used, what arrived |

`Dial`, `Accept`, `Joined` make a link; `End` is the end of its handler, with
`connect_peer`'s own forgetting; `Drop` cuts it and delivers a prefix of what it
carried. `Ask`, `Answer`, `ReadRelayed`, `ReadIdentity` carry tasks, requests and
identities; a rule of egress is a set of exchanges. One agent per side, on a reliable
connection to its hub while there; one key per organisation; the three seconds between
two dials are longer than a delivery (`LateConnect`); hubs do not restart.

## 3. Runs

| Run | Question | Bounds | Result |
|---|---|---|---|
| `assurance` | authorisation, single use, one chain, evidence before the answer, grants honoured | 2 threads, 3 requests, 3 actions, 1 grant per approval, 1 stop, TTL 0 with 1 tick | holds |
| `assurance_faults` | a journal that verifies is complete; every request ends | 2 threads, 2 requests, 5 actions, disk faults, cut writes, 1 stop | holds |
| `assurance_cli_once` | an approval is used once, with `approve` beside a live proxy | 1 thread, 4 requests, 2 stops | violated |
| `hub` | money, retained tasks, settlement before announcement | 2 paid tasks (one retained, one malformed), 1 agent, 2 connections, 1 loss, 1 retry, limits of 1 | holds |
| `hub_liveness` | pending tasks are taken up, agents are reachable | 1 task, 5 connections, 2 losses, 1 restart | holds |
| `hub_stale` | the same, when a reconnection overlaps the previous connection | 3 connections, 1 loss | violated |
| `payments` | served is on file, once, within budget and credit; the file is an account book; calls end | 2 requests of one agent, budget 1 and credit 1, overlapping threads, 1 settlement, 1 save that fails, 1 restart, 1 mishap: a call given up, a replay or an expiry | holds |
| `cluster` | the connected are found, orphans reattach, assignments are answered | 2 hubs, 2 agents, 1 task, 1 loss, 1 death | holds |
| `cluster_result` | what the owner was told is on record | the same, no fault | violated |
| `admission` | rates, bursts, isolation; no branch is forgotten | 6 tasks in two fans of 5 and 4, one of them retained, quota 2 in a window of 2, bucket 1, threshold 2, cooldown 2, depth 1, limits 2 and 1, 3 ticks, 1 timeout, 1 loss | holds |
| `snapshot` | money, reversible restores, tables follow memory, holds are known, rows are only added | 1 paid task, 1 malformed one, 1 agent, 1 key, 2 restores, 1 crash, 1 refusal of the disk, 1 of the database, 4 entries before the commands' own, 2 seconds | holds |
| `federation` | links heal, what a link carries arrives | a task, a request and an identity, one of them blocked on its way back, 2 links, 1 cut, 1 agent that leaves | holds |

Why the bounds suffice. Three requests make the shortest history in which a token is
created (a pending record), granted, and presented twice at once; a stop and a restart
in the middle make it a crash during the burn. TTL 0 with one tick puts both sides of
the deadline in reach. `assurance_cli_once` needs four requests and two stops because
the command must hold a copy across a burn and the proxy must start from it. On the
hub, two connections of one agent are what an overlap needs; one malformed task puts a
hold without a task next to the ordinary one; `MaxInFlight`, `MaxQueue` and `MaxAgents`
are 1, so each limit is reached. `hub_liveness` has five connections for at most three
that two losses and a restart consume, so that running out of them is never what stops
an agent. In `payments` a credit of one for two calls puts the second charge on both
sides of the limit, depending on the settlement, and a budget of one puts the second
signature beyond it, unless two threads are in `authorize` at once; the failed save, the
restart and one mishap may all meet. In `cluster` a loss and a death together let an agent go
from one hub to the other and back while its old handler ends. In `admission` the first
fan trips the breaker (a child too deep, a forbidden payload) and the second meets the
bucket, the quota and the want of funds; a task both contain is retained, and may be
approved, refused, cancelled, or left so; three ticks go past a whole window and a whole
cooldown. In `snapshot` two restores are what it takes for the second to endanger the
safety snapshot of the first, and both are taken with and without a hold whose task the
hub does not know. In `federation` the second link can only be dialled once
the first is cut, which is when the end of one and the beginning of the other cross.

`CHECK_DEADLOCK FALSE` everywhere: requests, tasks, connections, time and failures are
bounded, and a behaviour that has used them up stops.

Symmetry over the handler threads is used in `assurance` only, which checks no
liveness property.

The constants `CliWhileUp`, `CutWrites`, `DiskFaults`, `Overlap`, `LateRegister`,
`LateConnect`, `OnePerSecond` and `ShortWrites` say which environment a run is about:
each stands for one cause, so that what fails when it is set is attributed to it.
`RegisteredIsReachable` is checked without an administrator: after `agent.disconnect`,
as after an overlap, the previous connection's `finally` may come after the new
registration, and it fails for the reason `hub_stale` shows.

### What the violations say

- `assurance_cli_once`: the command saves the whole file from the copy it loaded. A
  token burned in between is fresh again at the proxy's next start.
- `hub_stale`: `finally` deletes the agent's name whichever connection it points to.
  The agent, connected and content, is sent nothing any more.
- `cluster_result`: a task executed on the sibling ends for its owner and stays in
  flight for ever in the hub that took it, which is what backpressure counts.

## 4. Fairness

Every fairness condition is weak, on steps the code takes without being asked.

- `Assurance`: each handler thread (`WorkerStep` or `Save`) and each granter's save.
  The operating system schedules every thread; a lock is released by steps that are
  themselves fair, and the number of competitors is bounded.
- `Hub`: each handler (the event loop is FIFO), `Notice` (the library's keepalive gives
  up on a lost connection), each agent's connect, read and listen (`auto_reconnect`
  retries with a bounded backoff), `Deliver` and `Begin` (asyncio tasks). Not `Finish`:
  a task handler may never return. `DiligentSpec` adds it.
- `Payments`: the callers' own steps, the server's event loop, the charge under way,
  the relay thread that holds the lock. Not the faults, nor `Send`.
- `Cluster`: dialling (the reconnection loop never stops), registration and the end of
  a handler, reads, relays, the steps of an executor. Not heartbeats, nor `Start`: an
  orphan finds a hub that runs without them. `Finish` is fair there, since the question
  is whether an answer that exists gets back.
- `Admission`: the hub's handler of submissions and the orchestrator's listen loop. Not the
  executors, which may be away or never finish, nor the person who approves, timeouts or
  time: `NoBranchForgotten` asks for an end only where the code answers by itself.
- `Federation`: `connect_peer` (it loops for ever), each handler's reads and its end.

Nothing obliges anyone to send requests, submit, approve, settle, restore, intervene,
or start a process.

## 5. Properties

| Module | Safety | Actions and refinement | Liveness |
|---|---|---|---|
| `Assurance` | `PerformedIsAuthorised`, `ApprovalUsedOnce`, `JournalIsChained`, `AnsweredIsEvidenced`, `VerifiedMeansComplete` | `GrantIsHonoured` | `EveryRequestEnds` |
| `Hub`, `Escrow` | `MoneyConserved`, `NothingHeldWhilePending`, `ToldIsSettled`, `RegisteredIsReachable` | | `PendingIsTakenUp` |
| `Payments`, `Registry` | `ServedIsOnFile`, `ProofHonouredOnce`, `BilledWithinBudget`, `BooksBalance`, `DebtWithinLimit` | `ImplementsAccountBook` | `EveryCallEnds` |
| `Cluster` | `ConnectedIsFound` | | `OrphanReattaches`, `AssignedIsAnswered` |
| `Admission`, `Guardrails` | `RateHolds`, `BurstHolds`, `IsolatedIsSilent` | | `NoBranchForgotten` |
| `Snapshots` | `RestoreIsReversible`, `StoreFollowsMemory`, `HeldIsKnown`, `MoneyConserved` | `AuditOnlyGrows` | |
| `Federation` | `EgressHolds`, `ToldIsRecorded` (proved only) | | `LinksHeal`, `RelayedArrives` |

Each module also has `TypeOK`. Properties the code does not have, defined where they
belong: `OnlyLastLineLost`, `HoldResolvedAtTheEnd`, `OrphanIsResumed`,
`ResultIsRecorded`. Every property of a passing run has a mutation of a modelled
definition that violates it (`SpendNothing`, `ChargeableTwice`, `FinallyClearsAny`,
`RecentOnly`, `SafetyTooLate`, `AnyEntry`, ...), defined next to the definition it
replaces.

## 6. Proofs

For every value of the constants:

| Module | Theorem | Establishes | Assumes, beyond the constants' own assumptions |
|---|---|---|---|
| `AssuranceProofs` | `TypeCorrect` | `TypeOK` | `TornIsNoRecord` |
| | `JournalAlwaysChained` | `JournalIsChained` | the same, `~CutWrites`, `~DiskFaults` |
| | `OnlyAuthorisedIsPerformed` | `PerformedIsAuthorised` | the same, `~CutWrites`, `~DiskFaults` |
| | `AnswersAreEvidenced` | `AnsweredIsEvidenced` | the same, `~CutWrites`, `~DiskFaults` |
| | `VerifiedIsComplete` | `VerifiedMeansComplete` | `TornIsNoRecord` |
| | `ApprovalServesOnce` | `ApprovalUsedOnce` | `~CliWhileUp` |
| | `GrantsAreHonoured` | `GrantIsHonoured` | `NoFileIsNoStore`, `~CliWhileUp`, `~DiskFaults` |
| `HubProofs` | `TypeCorrect` | `TypeOK` | |
| | `RetainedHoldsNothing` | `NothingHeldWhilePending` | |
| | `ToldAreSettled` | `ToldIsSettled` | |
| | `RegisteredAreReachable` | `RegisteredIsReachable` | `~Overlap`, `~AdminActs` |
| | `MoneyIsConserved` | `MoneyConserved` | |
| `PaymentsProofs` | `TypeCorrect` | `TypeOK` | |
| | `ServedStaysOnFile` | `ServedIsOnFile` | |
| | `NoProofHonouredTwice` | `ProofHonouredOnce` | |
| | `BillIsBudgeted` | `BilledWithinBudget` | |
| | `FileIsBalanced` | `BooksBalance` | |
| | `DebtIsBounded` | `DebtWithinLimit` | |
| | `FileIsAccountBook` | `ImplementsAccountBook` | |
| | `NothingOnFileIsLost` | no step removes a charge or a settlement from the file (`NothingLost`) | |
| `AdmissionProofs` | `TypeCorrect` | `TypeOK` | |
| | `RateAlwaysHolds` | `RateHolds` | |
| | `BurstAlwaysHolds` | `BurstHolds` | |
| | `IsolatedStaysSilent` | `IsolatedIsSilent` | |
| `ClusterProofs` | `TypeCorrect` | `TypeOK` | |
| | `ConnectedIsAlwaysFound` | `ConnectedIsFound` | `~LateRegister` |
| `SnapshotsProofs` | `TypeCorrect` | `TypeOK` | `DocumentAssumption` |
| | `RestoresAreReversible` | `RestoreIsReversible` | `OnePerSecond`, `~ShortWrites` |
| | `StoreAlwaysFollows` | `StoreFollowsMemory` | `DocumentAssumption` |
| | `HeldIsAlwaysKnown` | `HeldIsKnown` | `DocumentAssumption` |
| | `AuditRowsAreKept` | `AuditOnlyGrows` | |
| | `MoneyIsConserved` | `MoneyConserved` | |
| `FederationProofs` | `TypeCorrect` | `TypeOK`: the entry a hub relays on is a link it is handling | |
| | `EgressIsRespected` | `EgressHolds` | |
| | `WhatIsToldIsRecorded` | `ToldIsRecorded` | |

The assumptions on constants are in the modules that declare them, and TLC evaluates
them in every run. The hypotheses of the last column are the environments in which the
property is true; section 7 says what happens outside them. The only sets assumed finite
are the tasks and the organisations of `Escrow` (`EscrowFinite`): their balances are added
up over all of them. The requests of `Registry` may be infinitely many; that those signed
and charged so far are finitely many is proved (`FiniteInv`).

Along which arguments:

- *Assurance.* A thread that writes has a request number and one that consumes has a
  token (`TypeInv`). `ChainInv` says where the head of the chain is: with the lock free,
  `last_hash` is the last record of the file; while it is held, `last_hash` is the
  holder's record, signed over the last line and not written yet. A stop then loses a
  record nobody was answered about, and `_resume` finds the last line. `AuthInv` says
  every approval, in any copy of the store (memory, file, temporary file, the command's),
  was granted for a pending record of its action; it needs the journal to keep its
  records, which is why `OnlyAuthorisedIsPerformed` uses `ChainInv`.
  `EvidenceInv` says that requests under way have distinct numbers and that a thread past
  its call carries what its record will say. `CompleteInv` says that a record is lost only
  with a torn line, which no later write repairs and which verification sees.
- *Approvals.* An account of each action: what has left, what threads may still let leave,
  and its approval if unspent, are together no more than was granted. It is kept twice,
  for the store in memory (`MemoryCovered`) and for the file a restart would load
  (`FileCovered`); in between are the two halves of a save (`SaveInv`) and the command,
  which works on the file of a stopped proxy (`CommandInv`). `HonourInv` is the converse:
  outside a save the file is the memory.
- *Hub.* What is queued, executed, settled or told is about a task that has left the
  queue of approvals (`Known`): a set that only grows, in which every queue stays
  (`QueuesInv`). A hold is created only by a task that enters it, so nothing is held for
  one that waits, and no task already told of can be held again (`HoldsInv`).
  Reachability has an invariant of its own (`ReachInv`). An agent has at most one connection
  that it listens to or waits on; the hub is done with each of its others, or nobody has
  ended it; a REGISTER unread on an open connection is that of the connection at hand. So a
  `finally` never runs for an agent that has a newer connection.
- *Payments.* `OrderInv` puts the places a request is in in order: memory before file,
  file before serving, serving before served, and a charge under way before them all.
  `Journalled` counts its entries against its charge. Both survive a save beside a
  charge, because an export copies the charges from memory, and a reload, because the
  nonces are those of the charges on file. Nothing is assumed about overlap: single use
  does not depend on the balances, which do (section 7).
- *Payments, the accounts.* `BooksInv` is about each account that is not raced: its
  balance in memory is what the entries in memory say (`Worth`) and what the charge under
  way has written and not entered yet (`Underway`: minus the price for the payer from the
  debit on, plus the price for the vendor from the credit on). Such an account is never in
  the hands of both threads (`Apart`: the step that would put it there races it), so what a
  thread read of it is what it finds when it writes (`ReadsHold`), a save holds no charge
  of it half written, and the limit tested at the start of a charge holds at its entry
  (`Affordable`). The steps on the other accounts do not disturb it, whatever overlaps, so
  no theorem needs `~Overlap`. `JournalInv`, that the file has no settlement the memory
  lacks, makes each replacement of the file a step of `AccountBook`: the requests it adds
  are those memory has and the file had not, and `PriceUnion` splits the sums over the two.
  `BudgetInv` says that a wallet which is not shared has counted the price of the proofs it
  signed, within its budget, and that what its one thread in `authorize` has tested and
  read still holds (`Counted`); that nothing is charged that was not signed
  (`ChargedIsSigned`); and that no request is signed twice, because an answer to a
  challenge leaves none behind (`SignedOnce`).
- *Admission.* A window that ends at the current time is counted in `events`, one that
  ended earlier gains nothing (`RateInv`); the bucket holds at most the capacity and the
  time gone since any start of an interval, less what was taken in it (`BucketInv`);
  after a trip the breaker stays until it has cooled (`BreakerInv`). Every action is one
  of five steps of the limits (`NextIsLimitStep`), so the proofs do not look at queues;
  only the types of the client's variables go through the actions one by one.
- *Cluster.* An agent is at one hub at a time, which runs (`OneHome`), so the row of a
  connected agent is that of its last registration: an older handler's end clears only a
  row that still names its own hub. The types rest on one fact more (`Settled`): what is on
  a socket goes with it, so an agent that reads a message is at a hub and its answer has one
  to go to.
- *Snapshots.* `JobShape` says what a command may still write, `UndoInv` that a safety
  snapshot relied on is in its file and that no write under way has its name; distinct
  seconds give distinct names. `FollowInv` follows a restore step by step: the tables it has
  written are the memory's, the rest is still to come, and every document is of a moment at
  which each hold of a well-formed task had its task (`Sound`). `AuditInv` says that the rows are the
  chain in memory, numbered from 0, unless the database has refused one; the types
  (`LogTypes`) do without, since a table with holes is read back too.
- *Federation.* `LinkInv` says that the entry a hub relays on is a link it is handling. It
  rests on the wire (`WireInv`): PEER_CONNECT is only ever on its way to a hub that accepted
  the connection, so the side that asks never takes the other's for an answer. What
  crosses is `CrossInv`: a frame on its way, on any link, says what happened before it. A
  question passed its hub's filter; an update, a response or an identity answers something
  that arrived, passed the other filter, and an update is the only answer to a task. The
  lemmas `QueuedWritten`, `QueuedTaken` and `QueuedCut` say what a write, a read and a lost
  link do to what is on its way; the rest follows frame by frame, and does not look at which
  link is the living one.
- *Sums.* `Total` of `Escrow` and `PriceOf` of `Registry` are the fold of the community
  modules, a recursive function over the subsets of a set. That it has a solution on every
  finite set, and that the element it picks first does not matter (`AddsAnyFirst`), is
  proved from the well-foundedness of strict subsets and of `<` on the naturals, with the
  property as a set and a least counterexample, so that no induction theorem with an
  operator for parameter is needed. From it: one element more or less (`SumAdd`,
  `SumRemove`), one value changed (`SumChange`), disjoint unions, monotonicity, and the two
  steps of a hold (`HoldTaken`, `HoldEnded`).
- *Money.* In `Hub` one step moves one amount: from a balance to a hold, from a hold to a
  balance, or from outside to a balance and to `minted`. In `Snapshots` the invariant also
  says that every whole document, in a file, in a job or about to be applied, is balanced
  by itself (`DocumentsBalance`), so that whichever is restored, and wherever the restore
  stops, memory is balanced by its own account of what was minted.

Model-checked only: liveness, that is everything under fairness (`EveryRequestEnds`,
`PendingIsTakenUp`, `EveryCallEnds`, `OrphanReattaches`, `AssignedIsAnswered`,
`NoBranchForgotten`, `LinksHeal`, `RelayedArrives`): it needs `ENABLED`, which the prover
does not handle. Every safety property of a passing run, and the refinement of
`AccountBook`, has a theorem. Three properties are proved without being of a run:
`EgressHolds`, `ToldIsRecorded` and `NothingLost`.

## 7. Other divergences met while modelling

Each can be reproduced with the setting given. Where none is given, the model has the
behaviour and the properties say which states they leave out, or the line is outside the
model.

Assurance and hub:
- `EvidenceStore` documents that a cut write loses the last line only; the next append
  joins the cut line and is lost with it (`OnlyLastLineLost` with `CutWrites`).
- The proxy reads the approvals file once; the command tells the operator to replay at
  once (`GrantIsHonoured` with `CliWhileUp`).
- `docs/SECURITY-AND-ENCRYPTION.md:106-111` resumes pending and running tasks, the code
  pending ones only (`OrphanIsResumed`, with the constants of `hub_stale`).
- `task.cancel` ends a task and leaves its hold, against `escrow.py:117`
  (`HoldResolvedAtTheEnd` under `DiligentSpec`).

Payments:
- `charge` reads and writes balances without the registry's lock (`ledger.py:165-188`): a
  settlement between its reads and its writes is overwritten, and a save may copy a charge
  half written, against `ledger.py:69`. The run includes it (`Overlap`): `BooksBalance` and
  `DebtWithinLimit` over all accounts instead of those not `raced` are violated.
- `authorize` promises "Lève plutôt que de dépasser" (`wallet.py:76`), and tests at line 92
  what it counts at line 98, after signing: two threads of one agent may both pass the
  test and pay beyond the budget, and one of two counts may be lost, so that the wallet
  takes itself to have spent less than it is billed. The run includes it:
  `BilledWithinBudget` over all accounts instead of those not `shared` is violated.
- An account that pays itself gains the price (`ledger.py:172-177`): drop the exclusion
  of `RegistryAssumption` and `BooksBalance` fails.
- A settlement whose save fails is in memory and is answered with an error: retried, it
  counts twice (`relay.py:81`).
- The keyring caches a key it has verified while another thread replaces it
  (`keyring.py:59-66`); keys are not rotated in the model.
- `admit` compares the proof with the retained challenge's amount and recipient and not
  with the resource asked for (`gate.py:113-127`); `http.py:104` pops the caller's
  headers at the first attempt, so the one that pays has none of them. Both are outside the model.

Cluster:
- A REGISTER read after the agent has gone elsewhere takes its presence back
  (`LateRegister`, `MaxDrops = 2`).
- A hub that starts after its siblings' agents registered is not among their candidates
  (`FirstHubs` with one hub: `OrphanReattaches`).
- A pending task is resumed by the hub whose registry has it, and by no other; a
  heartbeat refreshes every row of its hub, those of agents that are gone too
  (`hub.py:1638-1641`).
- Two hubs append audit entries with the same index to one table, and the second
  replaces the first (`store.py:479`).

Admission:
- A task that backpressure or escrow refuses has used up the guardrail's quota
  (`hub.py:1255-1257`).
- An error that names no task fails every pending branch (`agent.py:479-488`), whose
  results then arrive for nobody.
- Nothing tells the orchestrator that its task is retained, refused by the person asked,
  cancelled, or waits for an executor that is offline (`hub.py:1339`, `admin.py:807`,
  `admin.py:336`, `hub.py:311`): its branch ends by its own timeout, and a cancelled task
  may still be executed and answered. `NoBranchForgotten` leaves these out by `InOtherHands`.
- A retained task passes the limits when it is submitted, not when it is approved, so an
  approval may put a task in the registry of a saturated hub, or for an agent isolated
  meanwhile.
- A malformed submission raises in the handler of the orchestrator's connection, which
  ends it with all its branches; `Admission` has well-formed tasks only.

Snapshots:
- Two restores in one second share a safety name, and the second overwrites the only
  copy of what was before the first (`OnePerSecond = FALSE`).
- `os.write` may write less than it is given, and the cut file replaces the good one
  (`ShortWrites = TRUE`).
- An entry the database refuses leaves a hole, and after a restart the next entry takes
  an index that exists (`AuditOnlyGrows` without its first hypothesis).
- A malformed task leaves a hold without a task (`hub.py:285` before `hub.py:302`), which
  snapshots keep and restores bring back. An administrator can release or refund it by hand
  (`admin.py:557-582`); `HeldIsKnown` leaves it out.
- A TASK_UPDATE handler that awaits during a restore settles the hold it finds then: that
  of a task the restore has put back to pending is released before the task is done again
  (`admin.py:703`, `hub.py:1365`). Money is conserved, and no property forbids it.
- A restore stopped half way leaves tables of two states, or holds for unknown tasks
  (`HeldIsKnown` and `StoreFollowsMemory` without theirs). A restore brings back keys
  that were revoked since, and tasks that ended with a hold nobody settles. On a store
  shared by a cluster, `replace_tasks` erases the siblings' tasks. With keys taken from
  the environment, `create` and `revoke` change the memory and then raise.

Federation:
- When both sides dial, each replaces the other's link and `connect_peer` forgets
  whichever is there (`Dialers` both, `MaxLinks = 3`: `RelayedArrives`).
- A PEER_CONNECT that arrives after that of a later link points the hub at a dead one
  (`LateConnect`: `LinksHeal`).
- `task.retry` sends without a token and is refused by the peer (`hub.py:544-547`); the
  ERROR of a relayed message reaches no agent; an assignment that egress blocks, or that
  finds no link, is silent and stays pending.
- A result that arrives by federation ends the task without settling its hold
  (`hub.py:657`). WHO_IS is not filtered by egress, and writes to a peer without a `try`
  (`hub.py:1216`). The hub that relays TASK_SUBMIT to a peer does not exist: the branch
  of `process_relayed` for it is never reached by this program's own messages.

## 8. Not modelled

- Messages, canonical form, signatures, encryption, schemas, secrets: formats and
  cryptography. A signature is taken to hold, a hash to be injective.
- Configuration, logs, metrics, health and hardware description: input and output.
- The bridge and the framework adapters translate calls and keep no state.
- The JavaScript SDK is a second client of the same protocol; the launcher, scripts,
  benchmarks, portal and site are tools.
- Of the hub: observers, local discovery, the health a heartbeat reports. Of the
  administration: read-only listings, scoping by organisation, guardrail policies. Of
  `ratelimit.py`: the instance for registrations, which is the same window.

## 9. Plan

1. `Hub` and `Cluster` in one state space, for a reconnection that overlaps across hubs.
2. Two hubs over one audit table, as a module of its own over `Cluster`'s tables.
3. Rotation of keys in `Registry`, with the cache of the keyring.
4. An abstract task (submitted, ended, settled) that `Hub` implements where it does.
5. `RegisteredIsReachable` and `ConnectedIsFound` with overlapping connections, should the
   `finally` of `handle_agent` come to compare the connection before it forgets a name.
