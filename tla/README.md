# A verification of the dARK deployer

dark-deployer takes an inventory of machines and services and brings a dARK
deployment up on them: Besu validators, IPFS, a contracts job, the Minter, the
Resolver, the dashboard. `deployment_v3/` holds the controller that does this.
It has no daemon and no database. What it knows is in files of the run directory
(`bundle/`, `revisions/`, `current-revision.json`, `status.json`), in
directories on each machine and in Docker; each command of the operator reads
those, acts, and writes them back a step at a time. Commands fail, are killed,
and overlap. Two programs edit inventories, a web workbench and a terminal editor,
and a console operates what is deployed. This directory specifies what must hold
of those files, drafts and containers all the same.

- [Inventory](#inventory): the parts of the system
- [Deployment](#deployment), [BundleStore](#bundlestore), [ContractsJob](#contractsjob), [Provision](#provision): the modules of the controller, and how they correspond to the code
- [Inventories](#inventories) (Topology, Resolver, Planner, Wizard), [Drafts](#drafts), [Console](#console): those of the programs around it
- [Runs](#runs): what TLC checks, bounds, fairness, and the disagreements found
- [Proofs](#proofs): what TLAPS proves, and the argument
- [Not modelled](#not-modelled), [Plan](#plan)

## Inventory

| Component (files under `src/`) | State it keeps | Operations | Interacts with |
|---|---|---|---|
| Controller (`deployment_v3/runner.py`, `state.py`, `verify.py`, `readiness.py`) | `status.json`; `controller.lock`; the staged directory of each machine; containers, data directories and `contracts.env` through Docker and shell commands | `prepare`, `push`, `apply` (`--resume`, `--revision`, `--clean-chain-data`), `services start/stop/restart/recreate/build/remove`, `verify`, `list` | the bundle store; executors; the planner's steps |
| Bundle store (`_prepare_bundle`, `_write_revision`, `_stage` of `runner.py`; `staging_manifest.py`; `render.py`; `_install` of `cli.py`) | `bundle/`, `bundle.prepare/`, `bundle.previous/`, `revisions/<id>/`, `current-revision.json`; on SSH machines `bundles/<id>/` and the `current` symlink | build and swap a bundle, record a revision, point at it, transfer, check the manifest, activate, discard | used by `prepare`, `apply`, `push`, `install` |
| Contracts job (`contracts.py`, the retry loop of `_apply_service`, `_distribute_contract_runtime`) | `contracts.json` (the handoff), `contracts.env`, the signer's transactions on the chain | deploy two contracts once, verify an earlier handoff, write the environment file, copy it to the consumers | started by the controller, retried for 120 s |
| Secrets and chain artifacts (`secrets.py`, `artifacts.py`, `_install` of `cli.py`) | `controller/secrets/`, `controller/chain-artifact/` with its manifest, `private-inputs.json`; each machine's secrets and node files | generate, seal, check, distribute, replace with `--new-chain`, clean old data | install, apply |
| Inventory validation (`inventory.py`, `catalogs.py`) | none | accept or reject a resolved document; find each service's group | resolver, planner |
| Resolver (`inventory_resolver.py`) | none | expand an operator's inventory into a document | every command, wizard, editor |
| Planner and availability (`planner.py`, `model.py`, `availability.py`) | none | layers, phases and gates; quorum arithmetic and failure scenarios | apply walks the plan; wizard shows both |
| Web wizard, drafts (`web-wizard/webwizard/session.py`, `server.py`, `operations.py`) | one draft with an undo stack per session | 44 operations, undo, reset, save, read | resolver as a gate |
| Inventory editor (`inventory_editor/`) | an open document | edit, save with a backup | inventory files; resolver as a gate |
| Operations console (`operations_tui.py`, `console.py`, `manage_service` of `runner.py`) | selected deployment and row, pending confirmation, rows read earlier, open logs | refresh, select, choose, confirm, cancel, follow logs | the controller's lifecycle operations |
| Networks (`network.py`, `_ensure_network` of `runner.py`) | Docker networks | create, detect a conflict, remove an empty conflicting one | apply, per machine |
| Executors (`executor.py`) | none | run, stream, transfer; a timeout is returncode 124 | everything that touches a machine |
| Renderer (`render.py`, `services.py`, `service_logging.py`, `private_rpc.py`) | none | Compose files, environments, mounted files | the bundle |
| Sources (`sources.py`, `acquire.py`) | checkouts | clone, check out a pinned commit, hash | prepare |
| Command line (`cli.py`) | none | arguments and prompts; `install` composes secrets, artifact, prepare, apply, verify | controller |
| Metrics (`metrics/`) | last sample and history per machine | sample in threads, show | read-only |
| Web wizard, drawing (`graph.py`, `loader.py`, `canvas.js`) | view state | project a plan to a drawing | read-only |
| Scripts, `local-infra/`, `blockchain/`, `infrastructure/aws` | | one-shot preparation and monitoring | none of the above |

### What is hard

*Order and interruption.* An apply makes dozens of remote changes and one
status write after each. A failure or a kill leaves every prefix of that
sequence behind, and the next command decides from the prefix. The decision that
hurts is reuse: a service whose recorded fingerprint equals the bundle's is not
touched again, so a fingerprint that is ahead of the container is never
repaired.

*Two clocks.* `bundle/`, the pointer, the staged directories, the containers and
`status.json` each move at their own moment. `push` moves the directories
without the containers; `prepare` moves the bundle without the directories;
`recreate` moves one container; people move containers by hand.

*One lock, not taken by all.* `deployment_lock` covers prepare, apply and the
lifecycle commands. push and verify do not take it, and `install` renames the
bundle away before it does.

*Partial writes.* Half an rsync, half an rmtree, a rename without its second
half, two transactions of which one is mined, half an artifact.

*Meaning in the order of a file.* Validators and observers are numbered through
their groups in the order of the inventory, and everything else refers to them by
number: an edit in one place renames what is deployed in another.

*What a person was shown.* A question is asked about one state and answered in
another: the cleanup that was agreed to, the service named in a confirmation, the
inventory that was validated and the one that is written.

### What makes each part correct

| Component | Properties |
|---|---|
| Controller | no fingerprint ahead of its container; consumers after the contracts' environment; gates include reused services; an apply that says applied covers its plan; no foreign data unless vouched for; services are not forgotten; resuming ends |
| Bundle store | one-step replacement; never half a tree in `bundle/`; the pointer names a complete record; what is active passed its manifest; a named revision is what becomes active; a bundle once there is not lost |
| Contracts job | one pair of contracts per handoff; the environment file says what the handoff says; a retry ends |
| Secrets and chain artifacts | a sealed artifact is of one chain; nodes that start know each other's keys; machines share their secrets; no identity and no signing key is replaced unasked; an install that was killed can be finished |
| Resolver | who is called listens where it is called, and nobody else listens |
| Planner and availability | providers before consumers; one gate per phase, after its last service; the report agrees with the objectives that the resolver checks |
| Wizard | every draft resolves and has a plan; an edit leaves other instances on their machines |
| Drafts and editor | nothing that does not resolve is stored or written; nothing is overwritten without a backup |
| Console | buttons fit the row; an operation is done to the service it was asked for; the log panel shows the service that is open |

`PROJECT.json` lists the hazards at their lines, with the properties that cover
each.

## Deployment

`Deployment.tla` is the controller of one deployment: its commands' steps over the
prepared bundle, the staged directories, the containers and `status.json`.

| Variable | In the code |
|---|---|
| `bundle` | what `bundle/machines/<m>/` defines for each service (replaced in one step; see BundleStore) |
| `staged` | what the Compose files of the staged directory define |
| `container`, `up` | what each container was created from and with which file contents it was started; whether it runs |
| `data` | the service's data directory: none, of this deployment, or left by another |
| `contractsEnv` | `<data_root>/<deployment>/contracts/contracts.env` on each machine: absent, empty (the `touch` of `_apply_service`) or filled |
| `status` | `status.json`: state, services, fingerprints |
| `run` | the command that holds the lock: plan, status in memory, changed set, what it has yet to stage, start and distribute |
| `verifier`, `pusher` | verify and push, which hold no lock |
| `vouched` | no code: an operator ran `--resume`, saying the data that is there is this deployment's |

A `Version` is a pair: the rendered definition (`spec`), which Compose compares,
and the contents of mounted files (`file`), which it does not. The fingerprint
of `_service_fingerprint_inputs` covers both; a fingerprint is taken to be the
version itself, SHA-256 being without collisions for this purpose. `Upped` is
`docker compose up -d`: it recreates a container whose definition changed, starts
a stopped one, and leaves a running one alone.

| Actions | Code |
|---|---|
| `Prepare` | `prepare` |
| `StartApply` | `apply` up to the classification into changed and reused services |
| `Reconcile` | the runtime check of reused services (`docker compose ps -a`, which may not answer) and the check for old data |
| `CleanData`, `CleanContracts` | the `--clean` removal, one directory at a time, the contracts' last |
| `BeginApply` | the first status write |
| `Stage`, `StartSteps` | `_stage` of each machine with a changed service |
| `Reuse`, `Up`, `Distribute`, `Record` | one service of the plan; `_apply_service`; `_distribute_contract_runtime`, one machine at a time; the status write |
| `PassGate`, `GateTimeout` | the readiness step of a phase |
| `FinishApply`, `Abort` | the end of apply; an exception or the controller's death, both of which leave the files and drop the lock (`flock`) |
| `Lifecycle`, `RecordLifecycle` | `manage_service`: the docker command, then `_write_lifecycle_state` |
| `VerifyProbe`, `VerifyRead`, `VerifyWrite`, `VerifyAbort` | `verify`: probes, read of `status.json`, write |
| `PushStart`, `PushStage`, `PushFinish`, `PushAbort` | `push` |
| `OutsideRemove`, `OutsideStop` | docker commands given by hand |

`Commands` says which commands operators use, `Environment` what happens around
them:

- `"overlap"`: push and verify start during other commands and the reverse;
- `"push fails"`: a push may stop between two machines;
- `"removes"`, `"stops"`: containers are removed and stopped by hand;
- `"old data"`: data directories of an earlier deployment are there at the start;
- `"probe fails"`: the command that looks into a data directory may fail, which
  `persistent_data_inventory` takes for an empty one.

`OneCommandAtATime` excludes the first two.

Abstractions. One-shot jobs run with `run --rm` and leave no container, so
`_service_exists_in_runtime` is false of them and every apply runs them again;
the model has this as it is. A container that is stopped is there for it, and one
whose `ps` fails is not. The dependency layers of a phase appear as phases
without probes. `rpc-probe`, which the lifecycle commands accept although it is a
job, is left out, as are runtime log levels and the texts of readiness evidence.
`InventoryAssumption` is what `inventory.py` and `planner.py` guarantee of a
plan: a consumer's inventory has the producer, and the producer's phase is
earlier. `ContractsFirst` of `PlannerProofs.tla` proves it of every document that
passes the checks of `inventory.py`, as Topology has them.

## BundleStore

`BundleStore.tla` opens up what Deployment takes as one step: `_prepare_bundle`
and `_write_revision`, a file operation at a time, and `_stage` over SSH as
transfer, manifest check and symlink. A revision id is a hash over all of the
bundle, so a `Content` is its own id.

| Variable | In the code |
|---|---|
| `bundle`, `pending`, `previous` | `bundle/`, `bundle.prepare/`, `bundle.previous/`: nothing, a whole content, or `Torn` |
| `revisions`, `recording`, `pointer` | `revisions/<id>/`, `revisions/.<id>.prepare/`, `current-revision.json` |
| `locker` | the prepare, or the head of an apply, that holds the lock: where it is and what it builds |
| `remote`, `link` | on each machine, `bundles/<name>/` (what it holds, which files it has) and `current` |
| `ship` | what apply and push have yet to stage |
| `promised` | no code: the `--revision` of the command that last activated the machine |
| `mixed` | no code: machines that were sent a bundle under another one's name |

`Clear`, `Render`, `Build`, `SwapOut`, `SwapIn`, `Drop`, `BeginRecord`,
`EndRecord`, `Point` follow the function line by line. `Raise` then `Undo` is its
`except` clause; `Crash` is a kill, which runs no `except` and can leave an
rmtree half done; `Discard` is `install`, which renames the bundle away without
the lock. `Transfer` is rsync without `--delete`: it adds to what the directory
already has, `TransferFails` leaves part of that, and `Activate` requires the
directory to be exactly a bundle, as the remote manifest check does.

A directory on a machine is named after `current-revision.json` and filled from
`bundle/` (`_stage`). After an exception between the swap and the pointer the two
are not of the same revision, and what is sent then goes into the directory of the
other (`Mixing`), over what may be running from it. Nothing later in the code can
tell. `ActiveIsPromised` and `ActiveVerified` are said of the machines that this never
happened to; `NothingMixed` says it of all, and `MixedBundle.cfg` violates it.

`BundlePromise.tla` is the abstract specification: one variable, one action that
replaces the bundle. `PromiseKept` is BundleStore's refinement of it, under the
mapping of `Kept`: `bundle/`, or while the swap is between its two renames,
`bundle.previous/`.

The two modules meet at `bundle`: Deployment assumes it is replaced in one step
and stays whole, which `PromiseKept` and `BundleWhole` say of BundleStore.

## ContractsJob

`ContractsJob.tla` opens up the other step of Deployment: the job that fills
`contracts.env`. The job deploys an Authority and then a dARK contract built on
it, waits for each receipt, and writes `contracts.json` and `contracts.env`. The
address of a contract is a function of its signer and the transaction's nonce, so
here an address is a position in the signer's transactions, and 0 is no address.

| Variable | In the code |
|---|---|
| `chain`, `pool` | the signer's mined transactions, and the one that waits; what `get_transaction_count`, `get_code` and receipts are read from |
| `handoff` | `contracts.json` on the producer's machine |
| `env` | `contracts.env` on each machine, nothing (absent or empty), `Torn`, or a pair of addresses |
| `jobs` | the containers of the job: where each is in `main`, and the nonce and addresses it holds |
| `control` | apply at the `contracts-deploy` step: which attempt it waits for, what it has read and has yet to copy |
| `failures` | no code: how often something has gone wrong, at most `MaxFailures` |

`Attempt`, `GiveUp`, `Abandon` and `Returns` are the loop of `_apply_service`;
`ReadEnv`, `Copy`, `GoOn` the distribution; the rest is `main`, with `write_text`
in two steps, since it truncates before it writes. A job that finds a handoff
either verifies it (`Existing`: there is code at both addresses) and writes
`contracts.env` again, or refuses (`Refuse`). `Environment` says what may happen:

- `"kills"`: the job stops at any step, which stands also for an RPC that does
  not answer and a receipt that takes longer than its 180 seconds;
- `"reverts"`: a transaction is mined and fails;
- `"abandons"`: an SSH connection breaks, which the loop takes for a failed
  attempt while the container runs on; an apply stops at a later step; and a copy
  to a consumer's machine breaks, which leaves it cut;
- `"unwritten"`: such a write fails and the shell does not say so, since the
  `chmod` after it succeeds (`runner.py:123-127`);
- `"overlap"`: the loop's next attempt does not wait for a container that runs on.

The chain ID and the balance are taken to be right, or the job fails where it
looks (`Dies`). Deployment's `Distribute` takes the copying as a step per
machine, where ContractsJob has the file cut as well (`CopyFails`); `ConsumersAgree`
is what lets Deployment take the file as one value.

`Publication.tla` is the abstract specification: a pair that is published once,
machines that take it or lose their copy, and consumers that are served once every
machine has it, and during which none loses it. `PublicationKept` says that
ContractsJob implements it, under the mapping in which a file that is absent or
cut says nothing (`Said`) and the consumers are served while `control` is at
`"done"`. The attempts, the chain, what the controller carries and `contracts.json`
while it is being written are stutters.

## Provision

`Provision.tla` is the private material of a deployment, on its way from the
operator's wallet file to the machines. Deployment takes a machine's files as
given; this module is about how they come to fit each other.

| Variable | In the code |
|---|---|
| `wallet` | the operator's wallet file, which the operator may exchange |
| `secret`, `made` | `controller/secrets/`: the password's own file, the runtime file with a copy of it and the wallet's key, the storage secret, the signing key; `made` numbers generations |
| `artifact`, `manifest` | `controller/chain-artifact/` (context, node keys, static-nodes lists, genesis), and `manifest.json`, which has a digest of each of its files and so is equal to the artifact that was sealed |
| `inputs` | `private-inputs.json`, the digest of the wallet that was installed |
| `held` | what each machine has of secrets, and each node of chain files |
| `data` | the chain in a node's data directory, left by an earlier deployment or begun by this one |
| `status`, `applied` | `status.json`: whether it exists, and the nodes that it has as applied |
| `run` | the command at work: what it was asked, and the files it has yet to handle |

A chain is a number, and its genesis and node keys are files of that number. One
step writes one file, and `Kill` may come before any of them.

| Actions | Code |
|---|---|
| `Install`, `Resume`, `ChainInit`, `StaticNodes`, `SecretsInit` | the commands, up to their first file |
| `Secrets`, `MakePassword`, `MakeRuntime`, `MakeSwarm` | the choice of `_install`, `initialize_greenfield_secrets` file by file |
| `Artifact`, `Wipe`, `Bootstrap`, `Generate`, `MakeKey`, `CopyGenesis` | the choice of `_install`, the removal for `--new-chain`, `bootstrap_chain`, `initialize_chain` |
| `Refresh`, `WriteList`, `Seal`, `Verify` | `write_static_nodes`, `seal_chain_artifact`, `verify_chain_artifact` |
| `WriteSigner`, `AppendKey`, `WriteInputs`, `AskToClean` | `_write_managed_key`, the runtime file, the digest of the wallet, the question about old data |
| `Distribute`, `CheckArtifact`, `DeliverGenesis`, `DeliverKey`, `DeliverStatic` | `apply`: secrets per machine, the artifact again, the three files of each node |
| `Reject`, `WriteStatus`, `Reuse`, `Start`, `Finish` | `_reject_existing_chain_data` with its cleaning, the first status, the nodes |
| `ChangeWallet`, `Again`, `Kill` | the operator: another wallet file; install again, with `--new-chain` only when the artifact is of no inventory's nodes; control-C |

Abstractions: a copy over SSH is one step (each is read back and compared);
machines have one order; supplied artifacts, `chain-export` and the second seal of
`initialize_chain` are left out, and so is the apply command on its own, which does
not write the managed key. Old data is looked for, and removed, where the plan at
hand has nodes (`HasData`), as `persistent_data_inventory` does. A service reads its
secrets from the runtime file, the storage secret and the signer; the password's own
file is the database's. That Besu refuses a genesis that is not that of its
data is external.

## Inventories

Four modules, of which three are functions of their input, as the code is.

**Topology** is the resolved document and the checks of `inventory.py`: `Valid`
is `validate_inventory`, which everybody calls, and `GroupsHold` is
`groups_for_inventory`, which only the planner calls.

**Resolver** is `inventory_resolver.py`, in its order: chain, bindings, storage,
readers, instances, explorer, groups and machines, proxies, edge, transport,
exposure, peerings, publication, availability. Each stage is an operator
`With...` on the services as the stage before leaves them, with its checks beside
it as `...Hold`; `Resolve(raw)` is a document or `Rejected`. Proxies are a
sequence, as in the file: a route leads to a service without a proxy's name or to an
earlier proxy. Identifiers are strings
here, as the resolver makes some of its own and they may meet the operator's.

**Planner** is `planner.py` and `availability.py`: layers, phases and gates
(`PlanOf`), and what the loss of each part takes away (`Analyze`). Preflights
and the verify step are the same in all plans and left out.

**Wizard** is the workbench on these, one request at a time.

| Variable | In the code (`DraftSession`) |
|---|---|
| `raw` | the operator's inventory as edited |
| `original` | as it was opened |
| `undo_stack` | as it was before each edit |
| `resolution` | the document it resolves to, from which the drawing and the plan are made |

Every operation of `operations.py` is an action of the same name (44 functions;
their table has 46 names, two being aliases). Each checks its parameters
against the draft, changes a copy and hands it to `Commit`, which is `session.apply`:
resolve, or leave everything as it was. A rejected operation changes nothing and is
not a step. Five that set a value no check relates to another (chain identifier,
permitted lag, artifact path, QBFT timing, label) are one action, `SetValue`.

Left out of the document: images, components, settings overrides, digests and
the hosts document; and the type checks of JSON. Addresses are members of the
list that a network's block has (`Hosts`), in place of arithmetic on them.

## Drafts

`Drafts.tla` is the same session when requests overlap, and the files beside it.
What operations do to an inventory is Wizard's; an edit is any other inventory
here, and `Resolving` says which of them the resolver accepts.

| Variable | In the code |
|---|---|
| `original`, `raw`, `undo_stack`, `resolution` | `DraftSession`, as above; of a resolution, the inventory it is of |
| `original_bytes` | the file as it is read a second time, which an unchanged draft is saved from |
| `request` | a request in `server.py`: the statement it is at, and its locals |
| `files`, `backup`, `second` | inventory files, who wrote them, their timestamped backups, and the clock that names those |
| `editor` | an `InventoryDocument` of `inventory_editor/` and where its save is |
| `raced` | no code: undo or reset has run beside another request |

The operation and save handlers are `async`, without an `await` after they have read the
request's body, so the loop runs them from start to end (`LoopFree`). Undo and reset are
plain functions, which the framework runs in threads: their statements fall
anywhere between the others'. `Operate`, `Remember`, `Push`, `Commit`, `Show` are
`session.apply`; `Undo` to `Redraw` undo and reset; `Save` to `Write` a copy.
`ReadInventory` and `ReadBytes` open the session: what is edited and what is kept as
the file's bytes are two readings, and only the first is resolved. `Load`,
`CommitSection`, `SaveInventory`, `ReadFile`, `CutBackup`, `FillBackup`, `Replace`,
`Close` are the terminal editor, which may be killed at any of these. A backup is
named by the second and written as any file: what it is to hold is read, it is cut to
nothing if another save of that second has made it, and it is filled. What is
changed is compared as dictionaries are, without their order (`SameDict`), so an edit
that only reorders is not saved.

## Console

`Console.tla` is the operations console: one loop that handles an event at a time,
threads that read logs, and the lifecycle operations, while containers, run
directories, hosts and locks change outside.

| Variable | In the code |
|---|---|
| `directory`, `container`, `reachable`, `locked` | run directories, containers, hosts, `controller.lock` of others |
| `deployment_id`, `table`, `rows`, `cursor` | the selected deployment, the two tables, the row |
| `confirm`, `question` | `pending_confirmation`, and no code: the row its text names |
| `buttons` | the actions that are not disabled |
| `work` | the operation that the loop is in: `manage_service`, as far as `Lock`, `Inspect`, `Command`, and the refresh after it |
| `logs`, `pane`, `reads` | the service whose logs are open, what the panel shows, workers not finished yet |

`Refreshed` is `refresh_dashboard` with everything it calls: the tables are
filled, the cursor goes to the first row, the buttons follow. Textual handles
the events of a loop in order and `work` keeps it busy, so `Awake` guards what an
operator does. `pc = "dead"` is the end of the console by `StateLockError`, which
is not an `ApplyError` and is caught neither here nor in the command line.
Deployment has lifecycle commands with their effect on fingerprints; here they
have what the console needs of them, the state of the container.

## Runs

### Passing

| Run | Environment | Shows |
|---|---|---|
| `deployment` | push, verify, lifecycle; containers removed and stopped by hand; any command fails or dies at any step | `FingerprintsSound` (definitions of containers; definitions and mounted files of staged directories), `HandoffFirst`, `CompleteApply`, and that `ControllerInvariant`, which the proof uses, is reached by real behaviours |
| `local_install` | local machines, data of an earlier deployment, `--clean`, verify, lifecycle, no push | `GateOrder`, `NoForeignData`, `ManagedRemembered` |
| `recovery` | pushes that end and that fail, lifecycle commands, containers removed and stopped by hand, `ps` that does not answer; any command fails or dies at any step | `ResumeConverges` |
| `bundle_store` | builds, transfers, and writes after the swap that fail; nothing is killed | `PromiseKept`; `ActiveVerified`, `ActiveIsPromised` of machines that were never sent one bundle under another's name |
| `bundle_crash` | kills, full disks, overlapping installs | `BundleWhole`, `PointerRecorded` |
| `provision` | two machines, kills at any file, wallets exchanged, any command after any other | `SealedIsOneChain`, `PeersKnowEachOther`, `SecretsAgree`, `IdentityKept`, `SignerKept`, `Completes` |
| `inventory` | every pair of operations, undo and reset on an inventory of two sites | `InstancesStay`, `PlanInOrder`, `AvailabilityAgrees`, `StoreReachesKubo`, `MinimalExposure` |
| `drafts` | a file that is replaced while a session is opened, two requests and two editors at a time, a write that fails, an editor that is killed | `DraftResolves`, `DrawnIsDraft`, `BackedUp`, `NeverOverwrites` |
| `console` | containers, directories, hosts and locks that change, log reads that overlap | `ButtonsFit`, `OffersAreTaken`, `LogsOfShown`, `LogsArrive` |
| `contracts` | three failures: kills, reverted transactions, broken connections, copies cut short, applies that stop | `PublishedIsLive`, `ConsumersAgree`, `PublicationKept`, `StraysExplained`, `JobSucceeds` |

*Bounds.* MCDeployment has three services on two machines, one staged by copy
and one over SSH: a validator with data and a probe, the contracts job, and an
API on the other machine that needs the job's output. It is the smallest
deployment with a changed and a reused service at the same time, a
distribution between machines and a gate with something to wait for. Three
inventories (without the API, with it, with new definitions of two services) give
services that come, change and stay. In `deployment` one of the new definitions is the
old one with another mounted file, so that the two parts of a fingerprint come
apart; `recovery` has one content of files. Nothing counts, so the state space is finite
without further bounds. MCBundleStore has two contents, of which one has a file
the other lacks, so that a directory left by one can fail the manifest of the
other. `bundle_store`, where every write after the swap may raise, has one machine;
`bundle_crash` is about the controller's own directories.

ContractsJob has one container at a time, two consumers' machines, so that a
distribution can stop between them, and three failures, enough for one between
the transactions, one between the files and one during the distribution of the
same behaviour.

Provision has two nodes on two machines, an inventory with both and a smaller one, two
wallets, three chains, three wishes of the operator and one kill: old data, one
chain replaced by another, and a third that is never used. With two wishes and two
kills (and four chains) it also passes. MCWizard is cut from `local-two-site.json` of
the examples, with every kind of part twice or once, and one more identifier for
what is new; with an undo stack of two each pair of operations occurs. MCDrafts has
two requests and two editors at once, three requests in all, and as inventories
two groups in either order with either of two labels. MCConsole has two deployments
of a node and a job, two changes and two reads in flight; with three changes it
also passes (several million states, too long to repeat each time).

*Fairness*, only in `recovery`, `contracts`, `provision` and `console`. In `Recovery`,
weak fairness of `ApplyStep`: a command in progress goes on, since each remote command has a timeout and the gates give up.
Of `Resume`: an operator who wants the deployment runs `apply --resume` again. Of
`PushEnds` and `RecordLifecycle`: a push and a lifecycle command end. Nothing is
assumed of success: `ResumeConverges` asks that from some point on no step other
than those of resumed applies happens, which leaves out `Abort`, and promises
nothing otherwise. `GateTimeout` remains allowed. `Converged` asks that every service
of the bundle is up and of its definition, and two exceptions are named: a service
recorded as applied whose container was stopped by hand (`LeftStopped`). `docker
compose ps -a` lists it, so every resume reuses it, nothing starts it, and the gate of
its phase times out each time. A service stopped by `services stop` is recorded as
stopped and is started again. The other is a fingerprint that is wrong
(`Misrecorded`), which only a push that failed can bring about: `FingerprintsAreSound`
says that there is none where pushes end. In `ContractsJob`, weak fairness
of `Apply` (an operator repeats it), of `ControlStep` (the loop and the copying
go on; `GiveUp`, the deadline of the loop, stays possible at any time), of each
container's `JobStep` (its calls have timeouts) and of `Mine` (a chain with a
quorum includes what it is sent). Failures end because they are bounded.
`JobSucceeds` makes one exception, half a `contracts.json`, which nothing repairs.

In `Provision`, weak fairness of `Step` (each file and remote command is done or
times out) and of `Again` (an operator who has not got through installs again);
kills are bounded. Its liveness property names what an operator has to repair by
hand, four cases in which the code refuses for good. In `Console`, weak fairness
of `Operation`, and strong fairness of `Tick` and `ShowLogs`: they wait in the queue
of a loop that takes other events between them, so they are not enabled all the
time, but each gets its turn.

*Deadlock* is checked in all runs but `provision`, where an operator who has
finished may do nothing more, the runs of Drafts, where requests and edits are counted
and run out, and those of Console, which ends when it dies.

### Disagreements between the code and what it says

Each of these runs checks one property, quoted from a comment or a document of
the repository, and TLC finds it violated.

| Run | What happens |
|---|---|
| `sorted_save` | the editor validates an inventory and writes it with its keys sorted (`document.py`); groups are numbered in the order of keys, so what is read next is another deployment, and need not resolve. `dark2-prod-tailscale-eight-host.json` is one that does not after an unrelated change |
| `confirmed_other` | "Confirm remove for SERVICE?" is asked, the cursor moves, or a refresh puts it on the first row, and yes is for the row under the cursor |

Sixteen more configurations lie beside these and are not in `PROJECT.json`.
`OrdinaryDrafts` (MCWizard) holds, and is what the [proofs](#proofs) about the resolver
suppose. TLC finds the property of each of the others violated:

| Configuration (module) | What happens |
|---|---|
| `OverlappingVerify` (MCDeployment) | verify reads `status.json`, an apply replaces it, verify writes the old one back with a new state: fingerprints of containers that no longer exist. The next apply with that bundle reuses them |
| `PushedOldData` (MCDeployment) | push writes a `status.json`; a status of any kind makes apply skip the check for old data |
| `MountedFile` (MCDeployment) | only a mounted file changed: `up -d` leaves the container running with the old one, and the new fingerprint is recorded |
| `StoppedService` (MCDeployment) | a container is stopped by hand: every resume counts it as existing, reuses it without starting it, and fails at its gate. Starting it takes `services start`, or a remove |
| `FailedPush` (MCDeployment) | a push moves one machine's directory and fails: `status.json` keeps the fingerprints of what was staged before |
| `UnansweredProbe` (MCDeployment) | the look into a data directory fails, which counts as empty, and a first install starts a service on another deployment's data |
| `MixedBundle` (MCBundleStore) | an exception after the swap leaves the new bundle beside the old pointer; the next push or resume sends it into `bundles/<old>`, which `current` may already lead to |
| `LostBundle` (MCBundleStore) | killed between its renames, prepare leaves the last bundle in `bundle.previous/`; the next prepare removes it before it builds, and fails |
| `CrashedPrepare` (MCBundleStore) | killed between the swap and the pointer, prepare leaves a new bundle beside the old pointer; `apply --revision <old>` finds the pointer right and stages the new bundle under the old name |
| `StalePush` (MCBundleStore) | push compares digests once, without the lock; a prepare replaces the bundle before the transfer |
| `UnplannableDraft` (MCWizard) | a draft that resolves need not have a plan, since only the planner checks groups: add an RPC node to the resolver's group, remove the one it had, and the page of the workbench fails until undo |
| `SameSecond` (MCDrafts) | two editors save one file in the same second: the later cuts the backup of the earlier and fills it with what the earlier has written, and the inventory that was there is in no backup |
| `TwiceRead` (MCDrafts) | an editor replaces the file between the two readings of a session that is opened; an unchanged draft is then saved as the second reading, which nobody has resolved |
| `UnwrittenCopy` (ContractsJob) | the write of `contracts.env` on a consumer's machine fails, `chmod` succeeds, and apply goes on with the file cut |
| `Uncleaned` (MCProvision) | "EXISTS - will be deleted" is answered with yes, and nothing is deleted, since a status of an earlier run is there |

Known and not run, of the controller: `persistent_data_inventory` does not list
`besu-observer`, so observers are installed on old data too (an instance with
`Guarded = {}`); after a push that failed half way, `recreate` starts the pushed
definition while `status.json` keeps the fingerprint of the applied one (the
`deployment` instance with `"push fails"`); after a push that ends, `recreate` also
moves a container to the pushed definition, changed environment files and ports
included, which `docs/deployer.md` says that it does not propagate (the status has
no fingerprints then, so the next apply repairs it). A lifecycle command records a
removed service as applied. `persistent_data_inventory` looks at a directory named
after the contracts job's service (`contracts-deploy` in the catalogue), while the job
writes to `contracts/`, so the data of the contracts never counts as old; and a kill
between the removal of data and that of the contracts' runtime (`CleanContracts`) leaves
the old `contracts.env`, which no later clean removes, since no data is left to ask
about.

Of the contracts job: the comment at `runner.py:664` calls it idempotent "once it
has written its handoff file", and before that it is not, so a job that dies
between its transactions and the file leaves an Authority nobody uses
(`StraysExplained` counts them). With `"overlap"` and two containers, the job that
runs on and its retry both find no handoff, and the later one overwrites the file
of the other, so consumers may have another pair than `contracts.json`:
`PublicationKept`, `ConsumersAgree` and `StraysExplained` fail there, and
`PublishedIsLive` still holds. A `contracts.json` that was cut makes each retry
fail until somebody removes it.

Of secrets and the chain (each is in Provision as it is): `secrets-init` that was
killed leaves files that the next install takes for a whole set, and apply stops
for the missing one each time (`cli.py:360`); a wallet exchanged before
`install --new-chain` has the old chain removed before the key is refused; secrets
made anew reach the machines, but services that were applied before are reused with
the old ones; a declined `install --new-chain` has replaced the artifact by then,
and `--resume` distributes the new one.

Of the resolver: an RPC node named like a service of the catalogue replaces it or
stands beside it; an advertised address is dropped when listeners take the place
of an exposure; a count that changes in an earlier group renumbers all later
instances. Of drafts: undo beside an operation can lose the edit or draw another
inventory (`raced` is for this); a save that fails leaves half a file under the name
that is suggested again, and refused. Of the console: a build is offered for jobs
and always refused; selecting a deployment that cannot be read keeps the rows of
the one before; an older read may replace a newer one in the log panel.

## Proofs

`DeploymentProofs.tla`, `BundleStoreProofs.tla`, `ContractsJobProofs.tla`,
`DraftsProofs.tla`, `ProvisionProofs.tla`, `ConsoleProofs.tla`, `PlannerProofs.tla` and
`WizardProofs.tla` hold theorems for any services, machines, inventories, contents,
jobs, requests, editors, nodes, wallets and numbers of failures.

**Deployment** (`TypeCorrect`, `InvariantHolds`, `FingerprintsAreSound`,
`ApplyInvariantHolds`, `HandoffComesFirst`, `AppliesAreComplete`, `GatesAreInOrder`,
`ManagedIsRemembered`, `DataIsOwn`).
`FingerprintsSound` says two things of a fingerprint in `status.json`: the container, if
there is one, was created from that definition (`DefinedAs`), and, unless a push is
moving the directories, what is staged is that version, its mounted files included.
Which files the container has read it does not say, since the code does not see to it
(`FilesSound`, `MountedFile.cfg`). It is not inductive: a step that reads `status.json`
or relies on the staged directory needs to know what commands at work hold.
`ControllerInvariant` is the conjunction of it and

- `Alone`: a locked command, verify and push are not at work together;
- `MemoryClaims`: the same of the status that apply holds in memory;
- `ReuseClaims`: every service of the plan that is not going to be applied already
  has the bundle's version staged, and a container of its definition if any;
- `StagingClaims`: while apply stages, no fingerprint is on record, and what is
  staged so far is the bundle's;
- `VerifierCopy`: what verify has read is what is there;
- `JobsLeaveNothing`: jobs have no containers.

Each step preserves it, one case per action; the assumption is
`OneCommandAtATime`, the theorem's only hypothesis beyond the constants'
types. `OverlappingVerify.cfg` shows that without it the theorem is false.
The proof explains one line of apply that looks redundant: emptying the
fingerprints before staging begins. Without it (`BegunKeeping`, a mutant) a kill
while staging leaves old fingerprints beside new directories.

A second inductive invariant, `ApplyInvariant`, is about the plan that an apply
works through, and holds in every environment: what is left to do is in the
current phase or later, and the job of the contracts is never reused if it is planned
(`PlanClaims`); once the job is done, `contracts.env` is filled for every planned
consumer, and while the distribution goes on, for those it has been to
(`HandoffClaims`); what is done is recorded with the bundle's fingerprint
(`DoneClaims`). `HandoffFirst` follows at once and needs no assumption, since a
consumer is only planned when the job is. `CompleteApply` needs both invariants
and so `OneCommandAtATime`: `ReuseClaims` is what says that a reused service was
recorded with the bundle's fingerprint. `GateOrder` is preserved because a phase is
left only when its probed services run, if nobody stops or removes containers by
hand. `ManagedRemembered` is proved for one command at a time and no push, by
`MemoryAgrees` (the status that apply holds in memory lists the services of the
file): a push writes a status of its own and is not bound by it.

`DataIsOwn` is `NoForeignData` where push is not used, probes of data directories
answer and `OneStateful` holds: all
inventories have the same services with data, and apply looks at each of them
(`Guarded`, which in the code leaves observers out). The check for old data is made
once, when there is no status, and of the services of one inventory; everything
after it trusts what it found. So `ForeignClaims` says: whatever makes a later
command trust the data that is there (`Trusting`: a status, a staged directory, a
verify or an apply at work) is there only when no service of any inventory has
foreign data, or an operator vouched for it (`Safe`). The three hypotheses are needed.
`PushedOldData.cfg` has a push that writes the status, `UnansweredProbe.cfg` a
directory that counts as empty, and a service with data that a later inventory adds
is started on whatever is there. The removal of `--clean` goes directory by directory;
a kill in between leaves data and no status, and the next install looks again.

**BundleStore** (`TypeCorrect`, `BundleIsWhole`, `PointerIsRecorded`,
`PrepareKeepsPromise`, `ActiveStaysVerified`, `ActiveIsAsPromised`). The first three hold in every environment, kills and
overlap included, by `PrepareInvariant`: what a prepare has at hand at each of
its steps, in particular that `bundle.prepare/` is whole when it is renamed
and that the record is complete when the pointer moves. `PrepareKeepsPromise` is
the refinement, by `SwapInvariant` (where the last bundle is when `bundle/` is
missing), and assumes no kill and no `Discard`; `LostBundle.cfg` shows the need.
What is behind a machine's `current` involves both commands. `Staged` says that
a command that asks for a revision has the one that `bundle/` and the pointer are of
(`Shipping`), that neither changes while it is staged (`Aligned`), and that a machine's
`current` leads to the directory of what was promised (`Promised`); it holds when
nothing is killed, discarded or overlaps, and exceptions may be raised anywhere. What
that directory holds is `Activated`: it has at most its own revision's files and is
complete once it is active, on every machine that is not `mixed`, and in every
environment. `CrashedPrepare.cfg` and `StalePush.cfg` show that a kill and an
overlap break `ActiveIsPromised`, and `MixedBundle.cfg` that the exception of
`mixed` is needed.

**ContractsJob** (`TypeCorrect`, `InvariantHolds`, `PublishedStaysLive`,
`ConsumersHaveOnePair`, `JobKeepsPublication`, `StraysAreExplained`).
`PublishedIsLive` says of every published pair that the first is a deployed
Authority and the second a dARK contract given that Authority. It holds in
every environment, `"overlap"` included. `JobInvariant` adds what makes it
inductive: of the controller, that what it is copying is live; of each job
(`Knows`), that the Authority it holds is deployed, that the transaction it waits
for is its own, in the pool or at its nonce on the chain, and that what it is about
to write is live. The second clause is why overlapping jobs cannot mix their
addresses: two jobs may count the same nonce, but the node accepts one
transaction for it, and the other job fails at `send_raw_transaction`.

The other three assume that attempts do not overlap, and two of them, about what
consumers hold, that a copy that fails is noticed (no `"unwritten"`); kills, broken connections and
reverted transactions may be any number. `SoloInvariant` says that one container is
at work at most, that `contracts.json` is what this one has made of it so far
(`Wrote`), and what the controller has read, copied or finished (`Handed`).
`StraysInvariant` counts: the Authorities on the chain, and one in the pool, are at
most the failures so far and one more, and not even that one more until the
handoff is written or a container at work has one of its own (`HasOne`). `InStep` ties
what a container waits for to the end of the chain. With `"overlap"` two jobs deploy
an Authority each and nothing has failed.

`JobKeepsPublication` is the refinement, one abstract step or a stutter for each
step of the job (`JobPromise`) and of the controller (`ControlPromise`). It needs of
`SoloInvariant` that a job that writes `contracts.json` has found none, and that
nobody is at work while consumers are served; and `OnePair`, that a `contracts.env`
that can be read is the pair of `contracts.json`, without which the distribution could
take a machine from one pair to another.

**Drafts** (`Invariant`, `DraftsResolve`, `InventoriesBackedUp`,
`CopiesNeverOverwrite`, `DraftsAreDrawn`). That everything in a session and every saved copy resolves,
the file's own bytes aside, holds for any number of requests in any interleaving, the
ones of `raced` included.
The gate is passed once, when a request begins; what a request stores several
statements later, undo brings back or save writes has to be known to have passed it.
The invariant adds to the types

- `Gated`: what each request holds at a statement from which it will be stored
  resolves, and so does the copy for undo it is about to push;
- `Writing`: a file that a save is writing is half and its own, so that nobody else
  has it open;
- `OneOnLoop`: at most one request is at a statement of the event loop;
- `Open`: an editor that is open is open on a whole file, and holds an inventory;
- `Kept`: what an editor has read is what the file holds, and its backup is cut or
  filled as far as the editor has got, as long as it is alone. The steps of one
  editor end that for another: a replacement of the file, or a backup of the same
  second that is cut or filled meanwhile (`Disturb`).

`CopiesNeverOverwrite` is the action property `NeverOverwrites` from `Writing`. The
assumption is `DocsAssumption`: in particular that requests are not named like
programs. Nothing is assumed of `Sorted`, which is how `SavedSafely` fails while all
this holds. `DraftsAreDrawn` is about the sessions where undo and reset overlapped
nothing: `Drawing` says that then at most one request is at work, that what it is
about to draw is the draft it has stored, and that the drawing is the draft's unless
it is at one of the statements that redraw.

**Planner** (`ValidPlanned`, `ContractsFirst`). The checks of `inventory.py` look at one
connection at a time; that the whole document can be deployed is a consequence,
which `build_plan` does not rely on: it looks for a cycle at every layer. A document
that has passed the checks has none, so that it can only be refused for its groups,
and its plan is in order. The argument:

- `ValidOrdered`: every connection and every job that contracts are taken from leads
  to an earlier phase, or to a service of the same phase whose type has a lower
  rank. The phases and ranks of the types are `PhaseIs` and `Ranks`.
- `LayersLayered`: the weight 7 * phase + rank falls along every dependency and is
  less than 56, so `Layers` has taken every service within 56 layers,
  however many services there are, and never stops at a circle. Layers are disjoint,
  hold every service, and each has its providers in earlier phases or layers.
- `PlanWaves`, `LastExists`, `InOrderIs`: the waves of the plan are the layers in
  their order, and what `InOrder` says of positions in the plan follows.

Layers and `FlattenSeq` are recursive functions. The library's induction takes an
operator, so `Induction` is stated for the members of a set that has 0 and the
successor of each of its members, and `LayersDefined` and `FlattenDefined` show that
the functions are what their definitions say, by building them up in the same way.

**Wizard** (`DraftResolved`, `DraftsPlanned`, `NumbersStay`, `Minimal`, `Reached`,
`Agreed`). `Resolved` is the
inductive invariant: the document in hand is what the draft resolves to, and
everything that undo and reset bring back resolves. So what is true of every
document that the resolver makes is true of every draft, whatever the inventories
and the edits, and the rest of `WizardProofs.tla` is about the resolver as a
function. `Plain` says that no service has listeners before `WithExposure`, a lemma
for each stage. `Documents` puts the stages together: a document that is not a
rejection is some plain services with what the last four stages publish, and has
passed `Valid`. `DraftsPlanned` (the property `PlanInOrder`) is that and `ValidPlanned`. `ExposureIs`, `LoopbackIs`, `NetworkingIs` and `ListenersIs` say what
each of the four adds and takes away, `CalledListens` that they leave a service
every network it is called on. `MinimalExposure` follows for every draft. A network
that a Kubo is published on because a Store API calls it needs `Valid` as well, for
the Cluster in between (`KuboBehind`).

`StoreReachesKubo` and `AvailabilityAgrees` are proved of documents that are
`Ordinary`, as every one is that is made from a file: finite, with numbers for its
replication factors, with validators that are each listed under a group, and with
Kubos that have not taken the name of an application or of the primary RPC node. The
resolver makes the Kubos' names itself (`ipfs-storage-...`), as strings, which the
provers take as values without parts. TLC finds every draft of the `inventory`
instance ordinary (`OrdinaryDrafts.cfg`). The hypotheses are where the proofs need
them: WithExposure takes the one network of a service that has one, which is the
right one only if there are finitely many; a loopback endpoint would hide a Kubo with
the primary's name; without validators the report has no scenarios, and the
objectives have no quorum. `AnalyzeIs` and `SatisfiedIs` spell out the report and the
objectives, and the agreement is counting: what is left is what there was less what
is lost, machines and groups without validators lose nothing, and a quorum is never
more than all.

**Provision** (`Invariant`, `SealsAreOfOneChain`, `PeersKnow`, `SecretsAreAgreed`,
`SignerIsKept`, `IdentityIsKept`). Of a sealed artifact nothing can be said from the
step that seals it alone: the keys were written by other steps, perhaps by another
command, and a kill may have come between any two. The invariant adds

- `Signing`: a machine's signer and the key in the runtime file are the managed
  signer, which is why replacing the signer is the only way to break
  `SignerKept`, and why `Distribute` cannot;
- `OneChain`: whatever is in the artifact, also in one that was left half made or
  half removed, is of one chain, so that finishing it cannot mix two;
- `Vouched`: a manifest is of an artifact that was whole, even when the artifact has
  changed under it since;
- `Ready`, what a command holds at each of its steps: a new directory before the
  keys (`Generating`), keys of the run's chain only, for every node that is not left
  to do (`Keying`), lists of these keys (`Listing`), secrets on every machine that
  is not left to do (`Sending`), and nodes whose three files are those of the
  artifact, which stays sealed meanwhile (`Supplying`).

`IdentityKept` is an action property from `Keying` and from `Ready` at `"wipe"`. The
only assumption is `ProvisionAssumption`: what the constants are. Kills,
commands and changes of the wallet may be any number, in any order.

**Console** (`ButtonsAlwaysFit`, `OffersAreHonoured`, `LogsShownAreOpen`). `Drawn`
says what `ButtonsFit` says also while the loop is busy in an action, which is what
has to hold for it to be true afterwards. `OffersAreTaken` compares the two tables,
of the console's buttons and of the states that the lifecycle command takes, for
every state of a container. Neither it nor `LogsOfShown` needs an
invariant: a read carries its service with it and is compared when it arrives.

Only model-checked: `ResumeConverges`, `JobSucceeds`, `Completes` and `LogsArrive`,
which are liveness under fairness and out of the prover's reach; and `InstancesStay`.
It is not true of any identifiers: an RPC node that an operator adds under the name of
a service of the catalogue, say `explorer`, takes that service's place on another
machine, and the edit is accepted. The run gives new things new names; as a theorem
the property would need an assumption on names that the resolver puts together as
strings. What it rests on is proved: `NumbersStay` says that a group added at the end
of the file leaves every instance its number and its group. Of `AvailabilityAgrees` and
`StoreReachesKubo`, that drafts are `Ordinary` is model-checked.

## Not modelled

Text (rendering, parsing, messages), address allocation, key generation, git, the
drawing of the workbench, prompts and arguments: no state that the properties above
speak of. Metrics and the monitoring scripts read and show; what could go wrong, an
older sample over a newer one, is what `LogsOfShown` is about in the console.
`local-infra/`, `blockchain/` and `infrastructure/aws` are one-shot preparation by
other tools. Time: deadlines are nondeterministic give-ups. Docker, rsync and SSH
are modelled by what the code relies on them for, and those definitions are marked
external. Two deployments on one machine share nothing but Docker and are not
composed, which leaves out Docker networks: a conflicting network without running
containers is removed, also when it is that of a stopped deployment.

## Plan

1. Done: Deployment, BundlePromise, BundleStore, ContractsJob, Publication, with proofs.
2. Done: Drafts with proofs; Topology, Resolver, Planner, Wizard; Provision; Console.
3. Done: proofs about Provision and Console.
4. Done: the inductive invariants of apply's plan, of what is active on the machines,
   of attempts of the contracts job, of foreign data and of what is drawn; the
   resolver's stages, what every resolved document is therefore like, and that
   each has a plan in order if its groups hold. Left: that
   Kubos keep out of the other services' names, so that `Ordinary` asks less.
5. Done: the abstract publication (one pair, once) that ContractsJob implements
   while attempts do not overlap. Left: an abstract deployment (a service runs a
   version or does not, an operator asks) that Deployment implements.
6. Networks, with two deployments on a machine; Metrics; Console composed with
   the lifecycle actions of Deployment.
