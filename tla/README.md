# TLA+ verification of the Solana KYC/AML compliance SDK

This directory holds TLA+ models of the parts of the repository that keep
state or decide something, the TLC configurations that check them on small
instances, and proofs, checked by TLAPS, that hold for every value of the
constants. Paths of source files are given relative to the repository, with the
prefix `src/`.

1. [The system](#1-the-system): components, state, operations, hard parts
2. [Modules](#2-modules): what is modelled where, and how it maps to the code
3. [Runs](#3-runs): what TLC checks, the bounds and what they are enough for
4. [Fairness](#4-fairness)
5. [Proofs](#5-proofs)
6. [Where code and words disagree](#6-where-code-and-words-disagree)
7. [Not modelled](#7-not-modelled)
8. [What may come next](#8-what-may-come-next)

To check a model: `tlc -config zk_kyc.cfg MCZkKycSdk` (the table of section 3 names
the module of each configuration). To check the proofs: `tlapm ZkKycSdk_proofs.tla`.

## 1. The system

The repository collects an SDK for KYC and AML compliance on Solana, in Rust
and TypeScript, with on-chain programs, services, scripts and a mobile sample.
Some files are fragments or exist several times under different directories; the
models follow the most complete copy of each. The parts with state or logic of
their own:

| Component | Source | State | Operations | What is hard about it |
|---|---|---|---|---|
| Risk monitoring service | `src/src/risk_engine/service.rs`, `policy/actions.rs` | registered wallets, their attestation keys, a TTL cache of risk profiles (three tokio `RwLock`s), `is_running` | `start`, `stop`, the spawned loop and its cycles, `register_wallet`, `unregister_wallet`, `get_wallet_risk`, `force_risk_check` | guards held over awaits and hours of sleep; collected locks; loops left over from earlier starts; a cycle that works on a copy |
| Risk policies | `src/src/risk_engine/policy/manager.rs`, `config.rs`, `types.rs` | none (the default policies) | `evaluate_policy`, `matches_policy` | unknown values, required sources, the order in which actions of several policies are executed |
| Provider data | `src/scr/risk_engine/providers/aggregator.rs`, `trm_client.rs` | none | `aggregate_wallet_risk` | a provider that fails; weighted averages and a step in the scaling, next to thresholds |
| On-chain risk status | `src/src/risk_engine/policy/actions.rs` (program module) | `RiskStatus` of every attestation account | flag, suspend, revoke | accepted only from the issuer; nothing orders the statuses |
| Attestation consumer | `src/srcconsumer/mod/.rs`, `src/src/consumer/cache.rs`, `webhook.rs` | LRU cache with TTL, subscribers | `verify_wallet_access`, `handle_attestation_update`, `subscribe` | a read that began before a revocation is cached after it; failing subscribers; a lock held over HTTP calls; lost updates |
| Wallet adapters and the gate | `src/interface.ts`, `src/src/consumer/hooks/useKyc.ts` | the account of each adapter; a React state | `connect`, `disconnect`, the effect of `useKyc`, `withKyc` | the wallet changes while a check is awaited |
| Mobile queue | `src/REACT NATIVE .../kycQueue.ts`, `App.tsx` | one value in AsyncStorage | `enqueue`, `processQueue` (background task) | read-modify-write over awaits, kills, retries |
| Merkle tree of identities | `src/proofs.ts` | leaves, tree levels | `insertLeaf`, `insertLeaves`, `getRoot`, `getProof`, `verifyProof` | incremental updates, index arithmetic |
| Proof generator | `src/proofs.ts`, `src/program.ts` | the tree, the proof under way | `addIdentity`, `generateProof`, `verifyProofLocally`, `registerCompliance`, `submitProof` | which leaf a proof is about; places of a list of signals |
| Identity SDK | `src/sdk.ts`, `base.ts`, `manager.ts`, `reporter.ts` | the modules, KYC sessions and timers, DIDs, credentials, an audit log | `initialize`, `verifyIdentity`, webhooks, `issueCredential`, `verifyCredential`, `generateReport` | overlapping calls, a lazy initialisation, timers against webhooks, rejections that are caught |
| Screening | `src/engine.ts`, `src/registry.ts` | thresholds, templates | `assessRisk`, `evaluate`, `registerTemplate` | brackets and weights, dates, missing data, lists kept apart |
| Token clients | `src/compliance-sdk.ts`, `src/transfer-hook-service.ts`, `src/errors.ts`, `src/sdk/typescript/src/tokenManager.ts`, `src/sdk/src/**` | the ledger, transactions on their way | registration, freeze, circuit breaker, mints with a hook, `approveTransfer`, `mintToWallet` | statuses read one after the other; transactions that time out and land; the order of instructions |
| Scripts | `src/deploy-programs.ts`, `src/Health Check Script .../health-check.ts`, `src/scripts/checklist-tracker.js` | the cluster, files, sums | deploy, check, add up | failures half way and restarts; a check beside a deployment; a report that is made three times |
| Compliance programs | `src/programs/**`, `src/Root programs/**` | accounts | register, revoke, freeze, validate transfer | account sizes; only fragments |
| Circuit breaker | `src/circuit-breaker-program.rs - ...` | one account | request, approve, deactivate | a count in place of a set |
| Services | `src/i File: server-signer/server.js`, `src/src/indexer.ts`, `oracle-fetcher.js - ...` | a key, a database | sign, index, fetch | pure I/O |
| Utilities, UI, examples | `crypto.ts`, `env.ts`, `*.jsx`, `src/examples/**` | | wording, views, samples | |

How they interact. The monitoring service calls the aggregator for a profile,
the policies for what to do with it, and sends transactions that change the
on-chain risk status. The consumer reads attestations over RPC, caches its
verdicts, and gets updates about attestations through its webhook server; the
React gate is in front of it and takes its wallet from an adapter. The mobile app
reaches IPFS and the chain only through its queue. The identity SDK composes a KYC
provider, the identity manager, the risk engine, the template registry, the audit log
and the proof generator, in which the Merkle tree is. The token clients share the
ledger with each other and with the program's other authorities. The deployment
and the health check share the cluster.

What makes each of the modelled components correct:

* Monitoring: nobody enforces a profile other than the cached one; locks are
  ordered, so every call returns and loops end; an account is changed only as
  the policies allow without a human, and only by its issuer.
* Policies and aggregation: unanimous critical evidence is revoked, no single
  provider's word revokes, enforcement never queues behind a notification's
  delay, a revocation is not overwritten by a flag of the same plan.
* Consumer: nothing is allowed that was not so when it was read; an allow outlives
  its attestation by a bounded time, whatever the webhook does.
* Gate: what is shown belongs to the wallet that is connected (it need not:
  section 6).
* Queue: nothing is registered before it is uploaded; nothing queued is forgotten.
* Tree and generator: the root commits to the whole list of leaves; proofs lead to it,
  name the wallet they were asked for, and are accepted by their verifiers.
* Identity SDK: every call answers and is in the audit log and its reports exactly
  once; sessions are known, decided in the end, and only by what concerns their
  user.
* Screening: an age is the number of completed years; a full score and a pass are
  the same; stricter templates are stricter; a worse wallet never scores lower.
* Token clients: an approval had two verified wallets behind it, and the circuit
  breaker open (it need not: section 6); the signature of a mint stands for one with its
  hook; no mint without its hook.
* Scripts: what they save and report is so; a deployment that can complete does when it
  is repeated; monitoring goes on.

`PROJECT.json` lists the hazards line by line with the properties aimed at each.

## 2. Modules

| Module | Models | Notes |
|---|---|---|
| `RiskPolicy` | `manager.rs`, `config.rs`, `types.rs` | pure definitions; extended by the two below |
| `RiskAwareAttestation` | the program module of `actions.rs` | the on-chain accounts; instantiated by `RiskMonitor` as `Chain` |
| `RiskMonitor` | `service.rs` with `ActionExecutor` | tasks, three locks, cache, chain |
| `RiskAggregator` | `aggregator.rs`, `trm_client.rs` | provider answers to a profile |
| `AttestationConsumer` | verifier, cache, webhook server | with the registry they read |
| `WalletAdapter`, `KycGate` | `interface.ts`; `useKyc.ts` | the second extends the first |
| `KycQueue` | `kycQueue.ts`, `App.tsx` | with AsyncStorage, IPFS, the chain and the system that kills apps |
| `MerkleTree` | `MerkleTree` in `proofs.ts` | loops turn by turn |
| `LeafCommitment` | what the tree promises | abstract: a list and a root computed from it |
| `ProofGenerator` | `ZKProofGenerator` in `proofs.ts`, `program.ts` | extends the tree |
| `RiskEngine`, `TemplateRegistry` | `engine.ts`; `registry.ts` | pure operators; a registry of templates and a calendar |
| `Screening` | how `sdk.ts` puts them together | extends the registry, instantiates the engine |
| `KycProvider`, `IdentityManager`, `ComplianceReporter` | `base.ts`; `manager.ts`; `reporter.ts` | each with variables of its own |
| `ZkKycSdk` | `sdk.ts` | instantiates these three |
| `SolanaLedger`, `ComplianceErrors` | the cluster as the clients use it; `errors.ts` | pure definitions |
| `ComplianceSdk` | `compliance-sdk.ts`, `transfer-hook-service.ts`, `tokenManager.ts`, `sdk/src` | calls over the ledger |
| `Deployment`, `HealthCheck`, `ChecklistTracker` | the three scripts | each with variables of its own |
| `Operations` | how an operator uses them | instantiates the three, two of them over one cluster |
| `MC*` | | constants and predicates for TLC |
| `*_proofs` | | theorems, TLAPS |

Definitions called *mutant* in a comment are variants of the definition after them
with a bug that could have been written there. They are used to see that a property
notices, and are no part of a specification.

### RiskMonitor

The tasks are the loops that `start` may spawn (`Loop`) and concurrent callers
(`Caller`). `pc` says at which `.await` a task is, `job` holds its locals; a
step runs from one await to the next. The state of the struct is
`is_running`, `active_wallets`, `wallet_attestations`, `risk_cache`; the
accounts are `risk_status`. The locks are explicit (`rd`, `wr`, `queue`): tokio
serves waiters strictly in order, so a reader waits behind an earlier writer.
Guards follow their scopes in the source. Two are not where one would look for
them: the `if let` of the lookup (service.rs:226) keeps its read guard to
the end of its block, as temporaries do in edition 2021, and so over
`evaluate_and_execute`; the write guard of line 243 is never dropped
before the function's end.

Time is a `Tick`; `Ticks` maps the delays of the policies to ticks. Ages
saturate where nothing compares them any more. `aggregate_wallet_risk` never
returns `Err` (a failing provider is missing from the sources), so `fetch_risk` takes
any member of `Profiles`. A transaction lands if the program accepts it, or is
lost: the error is only logged. Abstracted: a loop's tick may come at any time
(the interval fires in bursts when a cycle was late), the pause of one second
between batches, wallets of a batch are taken in any order, and actions that only
log or send a message.

`RiskAwareAttestation` has the three instructions; they check the issuer and
write the status. `EngineKey` is one key in the life of the model because
`RiskMonitoringService::new` draws a fresh `Keypair` (service.rs:77): a restart
makes earlier accounts foreign, which the run has as an attestation of
another issuer.

### RiskPolicy, RiskAggregator

`RiskPolicy` transcribes the five default policies as records, `matches_policy`
as `meets` and `has_sources`, the merged and sorted list of actions as a set
with the order `Before`, and what runs without approval as
`executable_actions`. A profile is a score, the categories of its indicators and
its sources; age and volume are never filled in by the aggregator, and a
condition on an unknown value does not match.

`RiskAggregator` has the answers of two providers, or their failures; a step is
another aggregation, for which one of them answers differently. It computes the
profile in integers: the overall score is kept as a fraction and compared
by cross-multiplication, so no rounding is introduced; the code's
`f64` rounding is not modelled. Chainalysis scores are taken to be 0..100.

### AttestationConsumer

Callers run `verify_wallet_access`, handlers serve webhook requests. `cache` is a
function on the keys it holds; a full cache drops some entry, which one (the LRU
victim) is left open. The lock of the cache is taken and dropped inside `get`,
`set` and `invalidate`, so each is a step; the lock on the subscribers is held
over HTTP calls and is explicit. `batch_verify` is the same as concurrent
callers. On the chain, requirements of a wallet are met and lost at any time, and
an update is sent that may arrive late, twice or never. `since`, `flight` and
`lost` are history: how old the data behind an entry is, how long the call that
stored it took, and how long ago a requirement was lost. `update_cache` is
called but not in the sources: the model lets it drop, keep or refresh the
entries of its wallet.

### KycQueue

`stored` is the value under `QUEUE_KEY`. `enqueue` and `processQueue` read it,
await, and write back. A failing upload or transaction may have had its effect;
storage may reject; `Kill` may strike at any await. Items are kept as a set:
neither order nor repetition changes a step.

### MerkleTree, LeafCommitment

`insertLeaf` appends and starts `updateTree`, whose loop is one step per level,
as is the loop of `getProof`. The class is synchronous, so no call begins before
the last has returned. `Hash` is any operator of two arguments. A `null` node is
absent from its level's domain. `climbed` is history: where the siblings
collected so far lead. `Climb` follows the siblings of a proof; `ProofIsRight`
takes the sides from the leaf's index, and `verifyProof`, in `MCMerkleTree`, from
the parity of the level, as the code does.

`LeafCommitment` is the promise: leaves are appended, and the root is the hash
of all of them padded with zero leaves, computed layer by layer for the whole list. `Commits` instantiates it with the last
leaf hidden while its path is being updated, and the root as the tree has it at
that moment; every step of the tree is then an append or a stutter.

### ProofGenerator

`addIdentity` inserts a digest, `generateProof` looks for the first leaf in which
the wallet's address occurs. A digest has 16 digits and an address at least 32
characters, so no identity that was added is ever found: only leaves inserted as
they are, through `getMerkleTree`, can name a wallet (`IdentityAssumption`). Two
identities may have one digest (it has 32 bits). The mock proof is the places of its
signals, because those decide what a proof is accepted for: `registerCompliance`
accepts it, `submitProof` takes the second signal, the nullifier, for a key and
throws, since it begins with zeros, which base58 does not have (section 6). Only the first
four elements of a path are in a proof. `ProofServes` says what a proof is to be worth when
it is made: its root is the commitment to all leaves, its siblings lead there, and its leaf is
the first that names the wallet.

### RiskEngine, TemplateRegistry, Screening

`RiskEngine` has the six brackets and the thresholds; weights are
hundredths, and the rounding of the quotient is exact (it was compared with double
arithmetic for all combinations of brackets). `engine.ts` does not parse (line 78: `Math * 100.floor(Math.random()0)`) and is read with the
evident repair. A profile is the caller's, each indicator on its own; the one that
`analyzeWalletHistory` makes up for a caller without one, with the quotient of volume and count
as its average, is among them. `TemplateRegistry` transcribes the five
default templates and the evaluation of a user; a date is a day number in a
calendar of `Months` times `Days`, since what `calculateAge` could get wrong is the
correction at the two borders, and `WestOfGreenwich` says that the host reads a
date of birth as the evening before. `Screening` puts both together as
`verifyIdentity` does. A wallet gets worse in one indicator or in several at once: more volume
in as many transactions raises their average too.

### KycProvider, IdentityManager, ComplianceReporter, ZkKycSdk

`KycProvider` is Persona, SumSub and Google with one cache, timers and webhooks; `kind`
chooses where they differ. `IdentityManager` is the DIDs, the credentials and the
clock; `resolveDID` makes a document for whatever it does not find, so an
issuer of Solana is always found. `revokeCredential` removes a credential from a registry
that `verifyCredential` does not consult. `ComplianceReporter` is the audit log and the
reports about it as sets of events.

`ZkKycSdk` instantiates the three and interleaves calls of `verifyIdentity` at
their awaits: `initialize`, the session, the risk, the proof. Nobody adds a leaf to the
private tree, so `generateProof` always rejects and the call goes on without a proof;
`createKYCProvider` is called without a `clientSecret`, so that a configuration with
Google fails in `initialize`. What follows the proof is one step, as there is no
await in it. Ids stand for the calls that drew them; without a provider a session
has a mock id from the clock, which two calls may share. What the code does and
no text contradicts is modelled without comment by a property: the result says
`VERIFIED` before the session is decided, a timer approves what a webhook has
declined, and events have no `riskLevel`, so AML reports of them count nothing. What
`revokeCredential` promises and does not do is in section 6.

### SolanaLedger, ComplianceErrors, ComplianceSdk

A transaction is a sequence of instructions, executed one on the ledger that the one
before leaves, all or none. What the cluster has when the clients come to it is any
of `Launches`, in which mints are complete and hooked (`LaunchAssumption`). The
ledger has what the clients read: statuses, the circuit breaker, the phases of a
mint with extensions, token accounts. `kycStatus` is what the clients' code compares
with, and the account that `registerUser` creates is signed for by the wallet itself.
`ComplianceErrors` has the codes, which of them `isRetryable` accepts, and how a
program's log becomes a code.

In `ComplianceSdk` a call has one request and goes from read to send to
confirmation. A transaction may land after its caller was told of a timeout, and a
caller may make any call that failed again, as `retry` of `sdk/src/utils` does: it asks nothing
of the error. `transactions` keeps every attempt. `Execute` runs a transaction on the ledger,
which accepts or refuses its instructions by what the clients can read there; `Refuse` is the
cluster's refusal for any other reason (fees, blockhash, an authority), and marks the
transaction `invalid` instead of `rejected`. `seen`, `halted` and `before` are history: the
wallets verified at some moment of an approval, whether the circuit breaker was active
all through it, and which transactions had created accounts when this one was made. Three
files do not compile as they are, and are read with the evident repair:
`compliance-sdk.ts` (308-309), `errors.ts` (125) and `transfer-hook-service.ts`, which
lacks an import; `tokenManager.ts` calls `getAssociatedTokenAddress` on the connection.
Facts that the model has from the code: `createMintWithTransferHook` is always rejected
(its account has room for a plain mint only and is initialised before the hook);
`updateTransferHookProgramId` always throws after its read (it takes the authority from a field
that a parsed mint has elsewhere); the hook client of `sdk/src` sends a transaction without
instructions, and takes every balance for zero; `approveTransfer` does not read the circuit
breaker.

### Deployment, HealthCheck, ChecklistTracker, Operations

`Deployment` is the loop over the programs: id, binary, look-up, deployment, and the
file at the end; each step may fail, and a failed deployment may have arrived. `ids` says what
the configured id of a program is worth: none at all, so that `new PublicKey` at
line 146, outside the `try` of the program, ends the whole run through the `catch` of `main`
(`IdFails`); a key; or one with which the command of lines 183-192 can deploy. Whether it can
is not up to the script, and so is given from outside: the CLI cannot make a first deployment
at an address for which it is given the public key only, and may not know `--skip-upgrade`.
A look-up that fails is taken for a program that is missing, and any account at the id
for one that is deployed. `HealthCheck` reads one program after the other.
`ChecklistTracker` is the parser, the sums and the three reports; the script is embedded in
a markdown file in the repository and read without the surrounding text. In
`Operations` the first two share `chain`, so that a check runs beside a deployment,
and an operator starts the script again while its file is missing.

### WalletAdapter, KycGate

The fields of the two adapters and what they emit; the effect of `useKyc`, the answers of
its checks, and what `withKyc` shows. That `useWallet` shows the adapter that the user
has selected (`Select`, `emit`) is an assumption about `wallet-adapter-react`, which is not in
the repository; `useKyc` has nothing of the SDK's adapters but that. `interface.ts` imports
`PublicKey` as a type only, so that the `new PublicKey` of its lines 88, 164, 198 and 266 would
not work; it is read with the import that they need.

## 3. Runs

| Run | Checks | Instance |
|---|---|---|
| `monitor_safety` | `EnforcedProfileIsCached`, `EnforcementJustified` | two wallets, two attestations (one of another issuer), one caller, one loop, profiles that revoke or flag |
| `monitor_liveness` | `LockDiscipline`, `LockOrder`, `CallsReturn`, `LoopsEnd` | one wallet, one caller, two loops, weak fairness |
| `scoring` | `UnanimousIsRevoked`, `RevocationIsCorroborated`, `EnforceBeforeSleeping`, `NoFlagAfterRevoke`; `AgeIsCompletedYears`, `PassedIsFullScore`, `ExchangeIsStrictest`, `WorseNeverLowers` | up to two indicators per provider, four categories with all weights, three severities, scores around the thresholds; twelve customers, years of two months of two days, births around the 18th birthday, two thresholds, custom templates |
| `consumer_safety` | `Honest`, `StaleAllowIsBounded` | one wallet with two requirements, a cache of one entry, one caller, one handler, TTL 2, ages to 4 |
| `consumer_liveness` | `RevokedIsRefused`, `HandlersReturn` | one requirement, one caller, two handlers, two subscribers |
| `kyc_queue` | `RegisteredWasUploaded`, `QueuedIsUploaded` | two documents, one app call and one run at a time, overlapping |
| `merkle_tree` | `Consistent`, `ProofIsRight`, `Commits`, `ProofServes` | depth 3: up to eight leaves, raw or digests; free hash; two wallets, proofs asked for at any time |
| `zk_kyc` | `AuditTrail`, `SessionsKnown`, `WebhookIsLocal`, `SessionsGetDecided`, `CallsAnswer` | two wallets, two calls, five configurations, credentials that expire at once, two days |
| `transfers` | `ApprovalIsGrounded`, `SignatureMeansMint`, `MintHasHook`, `RejectedMintHadRival` | two calls of any method, two wallets, each call up to twice; an empty cluster and one in use |
| `operations` | `SavedMeansDeployed`, `HealthyIsDeployed`, `SummaryCountsOnce`, `DeploymentCompletes`, `MonitoringGoesOn` | two programs, each with an id of any worth, two failures, an environment with one id missing; up to two checklists of three contents |
| `kyc_gate` | `GateMatchesWallet`, violated | two wallets, one key that an adapter makes up, two checks of a wallet at once |
| `breaker` | `BreakerStopsApprovals`, violated | the instance of `transfers` |

Why the bounds are enough for what is asked:

* Monitoring. The hazards are between two tasks and one entry; a caller and a
  loop on two wallets show them, with a swap of the attestation under a running
  cycle. A second loop matters for liveness only (a start after a stop), where
  safety of any number of tasks is proved. Delays of up to five minutes are no
  ticks and longer ones one tick.
* Aggregation. Weights, severities and thresholds are the code's own. Two
  indicators are the fewest that can dilute or reinforce each other on each side;
  the scores 49, 50, 86, 87 lie on both sides of what the thresholds make of them. Any
  number of indicators with any scores is covered by the proofs.
* Consumer. TTL 2 is the least with a tick inside the entry's life; ages to 4
  distinguish TTL plus a flight of two ticks. A cache of one entry makes every second
  key an eviction. Larger TTLs, caches and numbers of tasks are covered by the proof.
* Queue. The loss of updates needs two tasks; two documents keep a failed one
  apart from a fresh one. Any number of overlapping calls is covered by the proof.
* Tree. Depth 3 has an inner level that is neither leaf nor root, and eight
  leaves fill it. Any depth is covered by the proofs. Of the two leaves one is the
  digest of an identity and one names a wallet; it may be inserted several times, so that the first
  must be found, and the other wallet is in no leaf.
* Screening. The age's correction has four cases (month before, same, after; day before
  or not), and a year of two by two days has them all. Customers differ in one or
  two answers from one who passes everything, so that each rule decides a verdict. Of each
  indicator there are values in two or three brackets; the monotony of a bracket does not
  depend on the others, but the normalisation does, hence all combinations, and every step
  to one that is worse in any of them. Any customers, rules and calendars are covered by
  the proofs. Aggregation and screening share nothing: a behaviour of `MCScoring` is one of
  either.
* Identity SDK. Two calls of one wallet and of two wallets meet at every pair of awaits.
  `Year` is 0 and there are two days, so a credential is good on the day of its issue
  only, and can expire while another call is under way. A foreign DID shares its
  identifier with a wallet, and one issuer is no DID at all. Any number of calls, wallets and days
  is covered by the proofs.
* Token clients. Each hazard is between two calls, or between two attempts of one. Calls and
  wallets are symmetric: no definition tells two of them apart. Any number is covered by
  the proofs.
* Scripts. Two programs are a first and a last one, and the ids cover every pair of a valid, an
  invalid and a deployable one; of two failures one can happen on the
  way and one in the repetition. The checklists have items before any phase, phases out of
  order or without items, a phase that two files share, and an unreadable file. Any number
  of programs, and any files, are covered by the proofs.

Deadlock is checked in the runs of the monitor, the consumer, the queue and the tree: these models always have a caller
who may call or time that may pass (`merkle_tree` stops growing when full, but proofs can
still be asked for). The other models may stop, as the programs do: every call has
answered and the last day is over, the scripts have exited, every check has its answer.

## 4. Fairness

* `RiskMonitor!FairSpec`: weak fairness of each task once it is in the code, and
  of time. tokio polls every ready task again; its `RwLock` serves waiters in the
  order in which they came, so a task at the head of a queue stays enabled until
  it moves and weak fairness is enough. Nothing makes a caller call, or anyone start or
  stop the service: `CallsReturn` and `LoopsEnd` hold whatever they do.
* `AttestationConsumer!FairSpec`: weak fairness of each call and request (RPC
  and HTTP calls end, with a result or an error) and of time. No update has to
  arrive.
* `KycQueue!FairSpec`: weak fairness of runs (`BackgroundFetch` with
  `startOnBoot` starts one every now and then) and of storage calls; strong fairness
  of the upload of a document, for a network that fails but not forever. Kills are
  unconstrained.
* `ZkKycSdk!FairSpec`: weak fairness of the continuation of every call (the promises it
  awaits are the SDK's own mocks, which resolve or reject, and the event loop runs
  what is ready) and of every timer. No webhook has to come, no call has to be made,
  and no day has to pass.
* `Operations!FairSpec`: weak fairness of each script, and with the first of the operator who
  starts the deployment again while it is not done. Failures and kills are unconstrained up to
  `MaxFaults`, without which a network that always fails would be a counterexample to anything;
  the checker's are not bounded.

## 5. Proofs

All of them are for every value of the constants under the assumptions named in the
modules (disjoint sets of tasks, a `None` outside the data, shapes of tables).

**RiskMonitor_proofs.** `IInv` is `TypeOK`, `JobOK` (locals a task needs are
there, and its plan is what the policies say of its profile), `LockDiscipline`
(guards are exactly those of the task's place in the code, and a writer is alone) and
`EnforcedProfileIsCached`. The last is not inductive alone: that nobody replaces an
entry while its profile is enforced follows from the guards of the enforcing task,
so from `GuardsMatch` and `Exclusion` together; who writes the cache holds the write
guard (or has just been served with it), so nobody else is executing.
`LockOrder` follows from `LockDiscipline`; `EnforcementJustified` from `JobOK` and
the definition of the policies, by going through what they let execute.

**AttestationConsumer_proofs.** `IInv` is `TypeOK`, `Arguments`, `Honest` and
`AgeOfData`. `StaleAllowIsBounded` is not inductive: it follows from `Honest` (a lost
requirement was lost after it was read) and `AgeOfData` (a fresh entry's data is no
older than its age and flight), with saturation of the ages taken care of.

**KycQueue_proofs.** `RegisteredWasUploaded` is stated over the stored queue and every
task's copy of it, and is inductive together with `TypeOK` and `HasItem`. The
number of app calls and runs that overlap is any.

**ProofGenerator_proofs.** The first half is about `MerkleTree`. `IInv` is `TypeOK`,
`LoopOK`, `Consistent`, `Rooted` and `OnPath`. Between two turns of the loop of
`updateTree` exactly one node may be stale, the parent of the node just written:
`Consistent` excepts it, and each turn moves the exception one level up. The index
arithmetic (`Indices`, `Halves`, `Family`) is in lemmas of its own. Nothing is assumed of
`Hash`. `ProofsLeadToRoot` shows that what `getProof` collects leads to the root.
`HandedProofsAreRight` needs `ClimbOK` as well: the siblings collected so far, climbed by
the leaf's index, arrive at the node above the leaf at that level; a sibling
more takes a climb one level further (`ClimbOn`), and there is one climb only (`ClimbIsUnique`).
`TreeCommits` is the refinement of `LeafCommitment`:
the initial states map to initial states, the last turn of `updateTree` is an append,
every other step a stutter. What it takes is that a tree whose leaves are the list and whose
nodes are the hashes of their children has every node of the layers over the list
(`RootOfTree`, level by level), so that its top is the commitment.

The second half is about the generator. `ImplementsTree`: every step of the generator is one
of its tree or leaves the tree alone, so the tree's invariants hold of the generator without a
second proof, and `TreeOfGenerator` says that its tree commits to its list.
`GeneratedProofsServe` needs beside it that the proof under way is for the first leaf that names
the wallet of the request (`RequestOK`), which insertions cannot change because leaves are only
appended; that the climb over the siblings ends at the root (`ClimbOK`, in `HandsOut`); and that
the root is the commitment to the leaves (`RootCommits`). `MockProof` is about the proof
itself: its own checks accept every one, and `submitProof` none.

**Scoring_proofs.** Both scores are sums over a finite set, by a function that is recursive on
its subsets. No induction theorem of the library can be instantiated here, since they take
an operator; what is used instead is that among finite subsets some counterexample is smallest
(`SmallestMember`, from the well-foundedness of strict inclusion), from which
follow the existence of the sum (`PartialSumsExist`), which the library's sum is
(`SumIsPartialSum`), and that it is positive or large if its terms are
(`SumPositive`, `SumAtLeast`). For the aggregator: `AggregatedProfile`, whose `ProfileOfEvidence` compares the score with
the evidence (it is not below what every indicator says, and not above it unless the scaling
of scores over 60 raised it) and the categories with those of the answers; `UnanimousRevocation`, that a weighted average
of scores of 87 and more is 87 or more, and what the scaling makes of it is critical;
it has the hypothesis `Critical <= 90`, which is the default of `RiskThresholds`, since a service
that is given a higher one need not revoke at 90. The order and exclusion of actions
are proved for every total. For the screening, `ScreeningIInv` says that the
templates and what the user is judged by keep their shapes. `WorseNeverLowers` goes from
brackets (each is monotone) to the weighted sum to the rounded quotient;
`AgeIsCompletedYears` is about quotients and remainders of any calendar
(`CalendarAssumption`); `PassedIsFullScore` about a sum that is the whole
only if nothing is missing; `ExchangeIsStrictest` goes through the rules of the templates.

**ZkKycSdk_proofs.** `IInv` is `TypeOK`, `CallsOK` (the locals a call has at each await),
`ModulesOK` (a call past `initialize` finds the modules of its configuration), `TimersOK`
(a timer is of a session in the cache) and `SessionsKnown`. `SessionsKnown` is inductive only with `ModulesOK`, which
says that no initialisation is still to come that would empty the cache. `AuditTrail` compares
cardinalities: the step that answers adds one event at the end of the log and one call to
`Answered`, for the same wallet, and every other step leaves both sets as they are
(`NothingAnswered`, `NotYetAnswered`); that reports count the trail is a lemma about
their filters (`ReportsCountTheTrail`). `WebhookIsLocal` is an action property of the same
invariant.

**ComplianceSdk_proofs.** `IInv` is `TypeOK` and `CallOK`: what each call has seen, sent and
returned at each place. `ProgramErrorsAreFinal` is
about the errors alone: whatever the log of a failed transaction holds, the first line that says
anything decides its error, and `isRetryable` refuses every error made of what a program
answered. (`NotRetryable` adds that it refuses every code that the SDK wraps its own failures
in; nothing asks it, section 6.)

The properties of mints need what a transaction does to the ledger. `LedgerInv` says that every mint
that can be used is complete with its hook (`Good`), and of each transaction that it is one that
its call may send, and what is on the ledger if it landed or was refused (`AttemptOK`,
`SentOK`, `AccountOK`). `ExecutedRuns` turns the recursive definition of `Executed` into a chain of ledgers,
one per instruction, and `Chain` is induction along it: a property that every accepted instruction
keeps holds of the ledger after. `HookComesFirst` is the order of the instructions of
the token manager's mint, from which with `AttemptOK` follows `SignaturesMeanMint`: the signature
of a mint stands for one that can be used, hook and delegate included, and keeps doing so since nothing
takes them away. `MintToExecuted` says that the instructions of `mintToWallet` do not find what they
expect only if the mint cannot be used or the account they mean to create is there by then, which
`AccountOK` traces to another transaction that landed, and that was not among those that had
created accounts when this one was made. Refusals for reasons that the ledger does not show
(`Refuse`) are `invalid` and not meant. `SdkMintsFail` is a result of the same invariant (section 6).

**Operations_proofs.** `IInv` is `TypeOK`, `IdsOK` (what is no valid id has no account), `ScriptOK`
(the results so far are of the programs so far, and true), `CheckerOK` (what a running check noted is true),
`SavedMeansDeployed` and `ReportOK`. Both scripts note things down and save them later; their
notes stay true because nothing disappears from the cluster (`NothingDisappears`). What
`SavedIsDeployed` says of a program that was found there already is that its id is valid and
has an account; the script asks no more.
`ReportCountsItems` is about the tracker: `TrackerOK` says that a report shows what the analysis of
the files gives, and the analysis counts each item once because the lines with an item under a phase and
the items of that phase in the loaded checklists correspond one to one (`LoadedOnce`, a bijection: the
files that can be read are numbered by their rank, without gaps, and `currentPhase` at a line
is the last heading above it, `PhaseIsAbove`).

Every invariant, action property and refinement that a passing run checks is stated by a
theorem. Only model-checked is liveness (`CallsReturn`, `LoopsEnd`, `RevokedIsRefused`,
`HandlersReturn`, `QueuedIsUploaded`, `SessionsGetDecided`, `CallsAnswer`,
`DeploymentCompletes`, `MonitoringGoesOn`): TLAPS has no proof rules here for `ENABLED`, which
fairness needs. The modules that theorems are about have no `RECURSIVE` operator; where the code
adds up or climbs, they have recursive functions on numbers or on finite sets.

## 6. Where code and words disagree

`kyc_gate` ends in a counterexample. The effect of `useKyc` starts a check whenever the wallet
changes, and neither clears the last verdict nor discards the answer of an earlier
check (`src/src/consumer/hooks/useKyc.ts:46`); after a switch of wallets `withKyc` shows the
content to a wallet whose own check is still open, on the strength of the other wallet's answer.
The file calls `withKyc` a component "for KYC-gated components" (76) and has it tell a wallet
without KYC that it needs one (96).

`breaker` ends in another. `approveTransfer` (`src/compliance-sdk.ts:205-241`) reads the two wallets
and nothing else, so it approves while the circuit breaker is active from the beginning of the call
to its end. `src/complete-workflow.test.ts` activates the breaker, says "Attempt transfer (should be
blocked)" (236) and expects `approved` to be false (243).

Three further configurations end in a counterexample, each of what a comment, a document or the code's
own check says; they are not among the runs of `PROJECT.json`:

* `monitor_deadline` (`MCRiskMonitor`, `CriticalDeadlineMet`): a critical wallet waits for the
  cache behind another wallet's sleeping notification, past the hour that its
  recommendation gives. Its ticks keep the order of 5, 15 (the TTL), 30, 60 (the deadline), 120 and
  240 minutes.
* `kyc_register` (`MCKycQueue`, `UploadedIsPending`): a run uploads a document, enqueues its
  registration and then overwrites the queue without it.
* `merkle_verify` (`MCMerkleTree`, `OwnProofsVerify`): `verifyProof` refuses the proof that
  `getProof` made.

Two disagreements are theorems and not counterexamples:

* `SdkMintsFail`: `createCompliantMint` of the SDK never returns a signature, for it makes room for a
  plain mint in which the hook does not fit (`src/transfer-hook-service.ts`), while
  `src/complete-workflow.test.ts:106-111` expects one.
* `MockProof`: `submitProof` (`src/sdk.ts:304-312`), documented as "Submit proof to blockchain" that
  returns a transaction signature (299-303), throws for every proof that the generator makes:
  it takes the second public signal, which is the nullifier, for the key of a wallet.

The following are read off the code that the models translate. The models do what the code does,
and no property calls it right:

* `revokeCredential` (`src/manager.ts:292-297`, "Revoke a credential") removes the credential from a
  registry that `verifyCredential` does not consult: a credential that was handed out verifies
  until it expires.
* The default configuration of `src/deploy-programs.ts` never completes: its second id (78) decodes to
  fewer bytes than a key has, and the exception of line 146 ends each run. With valid ids the command
  of 183-192 still cannot make a first deployment, which has to be signed with the key of the
  program's address. `DeploymentCompletes` is about configurations that can be delivered.
* `initializeCompliantMint` of `src/sdk/src` (`services/transfer-hook-service.ts`, "Creates a compliant
  mint", 29-60) sends a transaction without instructions; its signature means that an empty transaction
  landed. `SignatureMeansMint` is about the token manager.
* `isRetryable` of `src/errors.ts` is asked by nobody, and would refuse every code that the SDK wraps
  its failures in. The only `retry` (`src/sdk/src/utils/index.ts:80-91`) repeats any call after any
  error, so an administrative call that timed out may act several times.
* `updateTransferHookProgramId` (`src/transfer-hook-service.ts:197-198`) throws before it sends.
* The timer of a KYC session (`src/base.ts:107`) approves five seconds later what a webhook has declined
  by then. Nothing says which of the two should win.
* A wallet that is unregistered, or registered with another attestation, during a monitoring cycle may
  still be acted upon once under the key it had (`src/src/risk_engine/service.rs:158`): the cycle works
  on a copy. `EnforcementJustified` speaks of the key that was planned for.
* The exchange template, the strictest but for this, does not bar a country that the DeFi template
  bars (`VN`, `src/registry.ts:556` and `638`), which is why `ExchangeIsStrictest` leaves the DeFi
  template's rule on countries out.

Two more facts are visible in the models and worth knowing: with one provider down, a
critical sanctions profile matches no policy; and after a revocation has been handled the
consumer's cache still allows the wallet until its TTL, since nothing in the sources evicts it
when a subscriber cannot be reached.

## 7. Not modelled

* Scoring models (`risk_engine/scoring`): floating-point functions over histories, called by nothing in
  the service. `anomaly_detection_loop` is an empty loop; the escalation ladder of
  `manager.rs` and `clearQueue` of the mobile queue have no callers.
* `kyc-compliance`: accounts smaller than what is serialized into them, so what the program does
  when it runs is not decided by its source. The registry programs are single handlers and
  fragments that do not compile together. What the clients expect of a program is in
  `SolanaLedger`.
* The transfer hook: it checks what its caller passes and keeps no state, and it can never accept:
  it looks for an attestation among accounts of its own with seeds of another program, and reads a
  list of accounts that nothing initialises.
* Circuit breaker: the program and its client disagree on layout and instructions, and no modelled client
  calls either.
* `access-control.rs` and the middleware: wrappers of the verifier whose log and renderer are not
  in the sources.
* Identity providers in Rust, signer, indexer, oracle fetcher, daemons: requests without state of
  their own. HTTP retries and rate limits inside provider clients.
* Dashboards, wording, key handling, the project generator, the protocol sample under
  `src/examples`: no protocol of the SDK.
* `sdk/typescript/src/offline/queue.ts`: the same read-modify-write as the mobile queue, which is
  modelled. `getVerificationStatus` of the identity SDK: a function of a hash of the address.
* Cryptography: hashes and signatures are opaque, and so is the circom circuit, a combinational
  comparison in a field.

## 8. What may come next

1. `DefiProtocol` (`src/examples`) as a client of the token clients, if it becomes part of the SDK.
2. The bounded-stale view as an abstract specification that `AttestationConsumer` implements.
3. What the tracker's report says per owner and in total, next to the count of its items.
4. The on-chain programs, once their sources compile together.
