# TLA+ models of trinci-core

These TLA+ modules and TLC configurations model the block pipeline of a
TRINCI node (`src/blockchain`) and check it with TLC. This file says what is
modelled, how it maps onto the code, what each run shows, and what is left.

## The system

A node runs three long-lived tasks. They share one `Pool` and one store (db):

| Task | Code | Role |
|---|---|---|
| Dispatcher | `dispatcher.rs` | Admits transactions (`put_transaction_internal`) from clients (`PutTransactionRequest`) and from peers (`GetTransactionResponse`). Ingests blocks (`get_block_res_handler`): a block that follows the tip goes straight into `pool.confirmed`; one further ahead starts the aligner or is forwarded to it. |
| Executor | `executor.rs` | `can_run`/`run`: takes the `BlockInfo` at tip+1 out of `pool.confirmed` once every body is in `pool.txs`, executes it (`exec_block`), merges the fork into the store, and removes the slot and the bodies from the pool. |
| Aligner | `aligner.rs` | Woken when the dispatcher clears the status flag. Collects the peers' last blocks, picks a trusted chain, fetches the missing blocks backwards and then their transactions, writes the blocks into `pool.confirmed`, and resets. |

Shared state:
- `pool.txs`: hash → `None` or `Some(body)`.
- `pool.unconfirmed`: hashes admitted but not in any known block.
- `pool.confirmed`: height → `BlockInfo`, whose `txs_hashes` may be `None`.
- The store's last block and its transactions.
- The aligner's status flag, with its condvar.

Every task takes the pool and db locks for short critical sections. A
handler that takes several locks is therefore *not* atomic with respect to
the other tasks. This is the main source of the hazards the models look at.

`p2p/behaviour.rs` delivers gossip (new blocks with `origin: None`, and
transactions) and request-response messages to the dispatcher.
`base/schema.rs` holds the transaction formats and their
`verify`/`check_integrity`, which the dispatcher runs on every admission.
`consensus/raft.rs` is a stub used nowhere.

The files under `src/` come from more than one version of the code. For
example, the dispatcher's `BlockInfo` has a `timestamp` and the aligner's
does not. Each module follows the file it models.

Lock semantics: `crate::base::Mutex` is taken to be non-reentrant, like
parking_lot's. Rust keeps the temporaries of an `if let` scrutinee or a
`for` iterator expression alive for the whole statement. Re-locking the same
mutex inside the body therefore blocks forever.

## Modules

### `Node.tla` (with `MC_Node.tla`)

One node: the store, the pool, the dispatcher, the executor, and the aligner
seen only through the shared state it writes.

Data abstraction:
- A transaction is its hash, a model value in `Tx`.
- A block is its height on the fleet's chain. `BlockTxs[h]` names its
  hashes.
- A `BlockInfo` keeps only whether `txs_hashes` is `Some`, and its hashes.

| Variable | Code |
|---|---|
| `tip`, `dbTxs` | the store's last height and stored transactions |
| `poolTxs` | `pool.txs` (`absent`, `none` = `None` body, `some`) |
| `unconfirmed`, `confirmed` | `pool.unconfirmed`, `pool.confirmed` (a partial function) |
| `status` | the aligner status flag (`TRUE` = idle) |
| `dpc` | the dispatcher handler in progress, with what it read |
| `epc`, `eInfo` | the executor's position in `run` and the `BlockInfo` it took |
| `apc` | whether the aligner is waiting on the flag (`idle`) or in a round (`active`) |
| `fleetTip` | how far the fleet's chain has grown |

Each action is one critical section of the code:

- **`PutTransactionCheck` / `PutTransactionPool`**: `put_transaction_internal`,
  split at the store lookup (line 163) and the pool write lock (line 167).
- **`GetBlockResRead` / `GetBlockResApply`**: `get_block_res_handler`, split
  between the tip read (line 378) and the pool write, aligner start or
  forward (lines 405-452).
- **`ExecCheck`, `ExecTake`, `ExecTakeBreak`, `ExecBlockOk`, `ExecBlockFail`,
  `ExecCleanup`**: one round of `Executor::run`.
  - `ExecCheck` is `can_run` under the pool read lock. The caller runs it
    before `run`, and `run` runs it at the end of every round (line 1181).
  - `ExecTake` is the next step, under the pool write lock. It takes the
    slot with `mem::take`, without looking at the bodies again, and leaves
    an empty hash list. `ExecTakeBreak` is the `break` when the slot has no
    hashes by then: the dispatcher can rewrite it with `txs: None` in
    between.
  - `ExecBlockOk` and `ExecBlockFail` are the two outcomes of `exec_block`.
    It fails when the hash is unexpected or `fork_merge` fails.
  - `ExecCleanup` is the cleanup under the pool write lock.
- **`AlignerWake`, `AlignerCommitBlock`, `AlignerReset`**: the aligner's
  effect on the shared state.
  - `AlignerWake`: it wakes on the flag.
  - `AlignerCommitBlock(h)`: it writes one fetched block per pool lock; any
    produced block, any number of times, in any order.
  - `AlignerReset`: it sets the flag back to idle, which is also the path
    taken when the round gives up.
- **`Produce`**: the fleet's validators extend the chain.
  - Blocks reach the dispatcher through `GetBlockResRead(h, withTxs)`, for
    any produced height, any number of times. This covers gossip, the
    unicast last-block sent to new subscribers (`txs: None`), and late
    responses.
  - Transactions arrive from clients or peers at any time.

### Runs

| Run | cfg | Expect | What it shows |
|---|---|---|---|
| `node_safety` | `MC_Node.cfg` | pass | `UnconfirmedHaveBodies`: every unconfirmed hash has its body. `PendingTxsNotUnconfirmed`: no hash of a block still to be executed is unconfirmed. `TakenBodiesPresent`: the block the executor holds has all its bodies, so `exec_transactions` never panics on a missing one (`executor.rs:872`), although `can_run` and the take are separate lock scopes. All hold under every interleaving of the three tasks. On a fork they would not, see *Not modelled*. |
| `node_executed_tx_readmitted` | `MC_Node_ExecutedTxsNotUnconfirmed.cfg` | violation | An admission racing the execution of its block puts the executed hash back into `unconfirmed`. The store lookup (`dispatcher.rs:163`) and the pool write are not one critical section. The spec, section 8, says this cannot happen. |
| `node_stale_block_noted` | `MC_Node_ExecutedBlocksLeavePool.cfg` | violation | The aligner writes a block computed from a `local_last` it read before the executor advanced (`aligner.rs:223`). A slot and `None` placeholders come back for an executed height, and nothing removes them. |
| `node_next_block` | `MC_Node_NextBlockGoesToPool.cfg` | violation | The dispatcher inserts a block only at tip+2 (`start + 1 == height`, `dispatcher.rs:405`). A block at tip+1 starts the aligner instead of going into the pool, as spec section 4.3 says it should. |

Bounds: three hashes and a fleet chain of two blocks with one transaction
each. The third hash is in no block, so it stays unconfirmed. These bounds
are enough for:
- each race to happen: an admission against an execution, the aligner's
  stale tip against two executions, and the dispatcher's tip+2 insert;
- two blocks to be pending at once.

The constant `CheckApart` is `TRUE` in every `Node` cfg, so `can_run` and
the take of the slot are separate steps. The passing run reaches about
26,000 distinct states and fires every action.

Node assumes no fairness and has only safety properties.

### `AlignerNode.tla` (with `MC_AlignerNode.tla`)

This is the node of `Node` with the aligner's peer protocol modelled step by
step. It covers `Aligner::run_async`, the aligner's channel `rx_chan`, and the
network between the node and its peers.

Composition:
- It uses `N == INSTANCE Node WITH apc <- AbsApc, CheckApart <- FALSE`.
  `AbsApc` is `idle` while the aligner waits on the flag (`aph = "wait"`),
  and `active` otherwise.
- With `CheckApart` `FALSE`, the executor's `can_run` and take are one
  step. `Node`'s own run checks the window between them, which no aligner
  step reads. Splitting them here adds a million states.
- The dispatcher and the executor are Node's actions, taken through `N!`.
  Each is conjoined with its effect on the network and the channel.
  - `DeliverBlock` and `DeliverTx` take a message off the network and start
    Node's handler.
  - `DispatchApply` is Node's pool write. While the aligner runs, it also
    appends what the handler forwards (`N!ToAligner`) to the channel: a block
    at or above tip + 1 with its origin, or a transaction ack.
- Every detailed aligner step is a step of Node's aligner:
  - `AlignerWake` is `N!AlignerWake`;
  - `CommitMissing` and `ReplayUnexpected` are `N!AlignerCommitBlock`;
  - `AlignerReset` is `N!AlignerReset`;
  - every other step leaves Node's variables unchanged.
- No refinement property is checked. Each detailed step that moves Node's
  variables is written as the Node action it stands for, so `N!Spec` would
  hold by the shape of the definitions, whatever the aligner code does. The
  composition is there so that Node's dispatcher and executor run beside the
  detailed aligner while its invariants are checked.

| Variable | Code (`aligner.rs`) |
|---|---|
| `chan` | `rx_chan`, a FIFO of block responses and transaction acks |
| `net` | responses and gossip in flight from the peers |
| `bReqs`, `tReqs` | outstanding `GetBlockRequest`s and `GetTransactionRequest`s |
| `aph` | the position in `run_async` |
| `votes` | the heights of the last blocks in `trusted_peers` |
| `maxH`, `local` | `max_block_height`, and the height of `local_last` |
| `mblocks` | `missing_blocks`, most recent first |
| `mtxs`, `todo` | `missing_txs` (a set), and the hashes not yet requested |
| `unexpected` | `unexpected_blocks` |
| `attempt`, `over`, `req` | the gather loop's attempt counter, completion flag and current request |
| `cidx` | the commit cursor |
| `rounds` | the number of alignment rounds started (a bound) |

Aligner actions, in code order:
- `CollectReceive`, `CollectPanic`, `CollectEnd`: the peer collection.
- `AlignerFilter` and `FilterDeadlock`: the trusted-peer selection.
- `BlocksStart`, `BlockReceive`, `BlockReceiveDebugPanic`, `BlockTimeout`:
  the backward block gather.
- `BlockGatherEnd` and `BlockGatherDeadlock`: the chain check.
- `TxsStart`, `TxReceive`, `TxReceiveDebugPanic`, `TxTimeout`,
  `TxGatherEnd`: the transaction gather.
- `CommitMissing`, `CommitMissingEnd`, `ReplayUnexpected`, `ReplayEnd`: the
  commit.
- `AlignerReset`.

A re-lock of a held mutex (lines 204 and 359) moves to the halting phase
`deadlock`. An `unwrap` of a `None` origin moves to `panicked`. Either way
the thread never runs again. The `debug!` arguments at lines 279 and 435
unwrap the origin only when debug logging is on. Those panics are separate
actions, `*DebugPanic`, which the model may or may not take.

The peers follow the fleet's chain, possibly lagging. They:
- announce their last block without hashes (`PeerAnnounce`);
- answer outstanding requests (`PeerRespondBlock`, `PeerRespondTx`);
- gossip transactions (`GossipTx`).

`Produce` gossips each new block with its hashes and origin `None`. Any
message may be lost (`LoseMessage`). A request no peer answers is the same as
a lost one.

#### Bounds (`MC_AlignerNode.cfg`)

| Constant | Value | Why |
|---|---|---|
| `Tx` | `{t1}` | One transaction is enough for the transaction gather, its acks and its timeout to happen. |
| `BlockTxs` | block 1 = `{t1}`, block 2 = `{}` | An empty block is legal. With it, a gap of two blocks costs one transaction gather. |
| `MaxHeight` | 2 | A gap of two blocks is the least that needs a backward request. |
| `MAX_ATTEMPTS` | 2 (3 in the violation cfgs) | One retry in the passing run; the code's value, 3, where a finding depends on it. |
| `NetCap` | 1 | At most one peer message is in flight. The gossip of a produced block is exempt, so gossip can overlap a response. |
| `ChanCap` | 1 | At most one message is queued for the aligner. |
| `MaxRounds` | 1 | One alignment round. |

`MC_AlignerNode.cfg` sets `MAX_ATTEMPTS` to 2, which still allows one retry
of a timed-out request. That is enough for late and duplicate answers, and
for the attempts to run out. The passing run reaches about 4 million
distinct states in about 2 minutes, and every action of the module fires.
With the code's value, 3, it reaches 6.2 million states, and that run
takes longer than a run may. The violation cfgs use 3; the
chain-check deadlock is shown with the code's value.
Two rounds, which would show
what the reset keeps (`missing_txs`, `unexpected_blocks`, stale channel
messages), are beyond a 5-minute run with this environment.

#### Fairness

`FairSpec` adds:
- weak fairness of the aligner's steps (`AlignerNext`);
- weak fairness of the collection window's end and of the two gather
  timeouts.

The aligner is a dedicated thread. It polls its channel with a timeout and
checks the clock, so each of these steps stays enabled until it is taken.

Nothing is assumed of the peers, the network, the dispatcher or the
executor. Peers need not answer, and messages may be lost. The liveness
properties ask what the aligner guarantees in spite of that.

#### Runs

| Run | cfg | Expect | What it shows |
|---|---|---|---|
| `aligner_safety` | `MC_AlignerNode.cfg` | pass | `TypeOK` includes the attempt counter's bound `MAX_ATTEMPTS`. `TxsGatheredBeforeCommit` holds: blocks are committed only after every missing transaction has been acked into the pool or is in the store. |
| `aligner_alignment_ends` | `MC_AlignerNode_AlignmentEnds.cfg` | violation | A gossiped block forwarded during the peer collection reaches `origin.unwrap()` (line 153). The aligner panics, so the status flag is never set back. |
| `aligner_filter_deadlock` | `MC_AlignerNode_FilterEnds.cfg` | violation | Two honest peers one block apart are enough. The filter removes the lagging peer while its `for` iterator still holds `trusted_peers` (line 204), and blocks forever. |
| `aligner_gather_skips_blocks` | `MC_AlignerNode_CommitCoversGap.cfg` | violation | A gossiped block 1 arrives while block 2 is awaited. The gather takes it as the missing block and stops, so block 2 is never fetched. |

The model also reaches the second re-lock, in the chain check
(`BlockGatherDeadlock`, line 359). It needs a request left unanswered
`MAX_ATTEMPTS` times with an unlinked oldest block, and it halts the
aligner like the filter's. `AlignmentEnds` would catch it, but the run of
that property stops at the shallower panic, so no run shows this trace on
its own.

### `ExecutorTx.tla` (with `MC_ExecutorTx.tla`)

This module models one call of `exec_block` at the transaction level. The
`Node` module takes that call as one step with two outcomes; this module
opens it up.

What it covers:
- the fork created from the store;
- `exec_transactions`' loop over the block's transactions;
- `exec_transaction`: the flush, `handle_unit_transaction` or
  `handle_bulk_transaction`, `try_burn_fuel`, and the re-burn after a
  failure;
- storing each receipt;
- the block's final merge or abort.

Each call into the contract host is one action. Its answer is chosen from
what the host may return, because the host lives outside `src/`:
- `app_hash_check` succeeds or fails;
- `call` succeeds or fails, uses fuel or not, and pushes events into the
  buffer or not.

The burn-fuel method errs, refuses, or debits the units it is asked for.

Data abstraction:
- A contract's writes are one write tagged with its sub-transaction.
- Its events are that sub-transaction's name.
- Fuel is counted in units, with `FUEL_LIMIT = 2`, so that a limit can be
  below it, equal to it, or twice it.
- The fork is a pair. `Flush` copies the current contents to the
  checkpoint, and `Rollback` goes back to it. This is the contract of the
  store's fork, which is not under `src/`.

| Variable | Code |
|---|---|
| `fork` | the `DbFork` of `exec_block` |
| `db` | the store |
| `i` | the loop index of `exec_transactions` |
| `k` | the node loop of `handle_bulk_transaction` |
| `fail` | `execution_fail` |
| `results` | the bulk's `results` |
| `events` | the receipt's event buffer |
| `toBurn` | `burn_fuel_args.fuel_to_burn` |
| `burned` | what `try_burn_fuel` reported |
| `published` | the events `emit_events` sent to `CONTRACT_EVENTS` |

Bounds (`MC_ExecutorTx.cfg`). There are two blocks. Each holds a bulk and
then a unit transaction:
- In the first, the bulk has a root and two nodes. Three fuel-using steps
  exceed every limit.
- In the second, the bulk has an empty root and one node.

Each transaction's `fuel_limit` is 1, 2 or 4. The burn-fuel method is
either configured or not. The run explores every answer of the host, about
85,000 distinct states.

`CHECK_DEADLOCK FALSE` is set because one call of `exec_block` returns.

No fairness and no termination property: the model's control graph of
`exec_block` has no cycle, so under weak fairness it would end by its shape,
whatever the code does. The code's one way not to end, the panic on a
missing body at `executor.rs:872-878`, is not modelled.

| Run | cfg | Expect | What it shows |
|---|---|---|---|
| `executor_tx_safety` | `MC_ExecutorTx.cfg` | pass | `ExecutedTxsAtomic`: every executed transaction keeps its receipt, and its writes survive exactly when the receipt says success. The flush at `exec_transaction`'s start is what keeps a later rollback from reaching back. `OneDebitPerTx`: a failed burn is rolled back before the re-burn. The re-burn after a rollback is a single call whose answer is ignored, not a retry loop. |
| `executor_bulk_short_circuit` | `MC_ExecutorTx_BulkShortCircuits.cfg` | violation | A bulk node's `app_hash_check` failure does not `break` (line 724). The next node is executed and charged. The spec says the remaining nodes are short-circuited. |

Not checked by a run: events whose writes were rolled back reach the
subscribers, in two ways.
- A failed unit call keeps its event buffer (line 402).
- A bulk whose root succeeded with events keeps them when a later node
  fails and the bulk is rolled back.

In both cases, a successful burn then publishes the events (line 819). The
spec's execution step 2 merges a call's buffers into the receipt only on
success, and step 5 preserves only the events produced before a burn
failure, so this is a divergence from the spec. The invariant "every
published event's sub-transaction has its writes in the fork" fails on
`MC_ExecutorTx`. The first trace is `ExecTransactionStart`, `RootCall`
(success, with events), `NodeCall` (failure), `BulkEnd`, then the burn.

### `Schema.tla` (with `MC_Schema.tla`)

This module models the admission checks of a transaction:
- `sign`, `verify` and `check_integrity` of every `TransactionData`
  variant (`base/schema.rs`), reached through `Transaction`;
- the getters those checks use (`get_caller`, `get_network`,
  `get_dependency`);
- the order in which `put_transaction_internal` chains them
  (`dispatcher.rs:147-160`): verify with the transaction's own caller and
  signature, then integrity, then the network.

The lookups in the store and the pool that follow are modelled in `Node`.

Data abstraction:
- A transaction is a record of the fields the checks read. A string field
  is only empty or not, so `empty` is the set of the fields schema,
  account, nonce and method that are empty. The network is a name, and
  `""` is the empty one.
- The encoding is abstracted to an injective map, so a hash or a signature
  is a record holding what it was computed over:
  - the hash is collision-free;
  - a signature verifies only for the key and the data it was made with.
- `sign` and `verify` serialize the inner struct without the enum's variant
  tag. A `BulkRootV1` therefore encodes like a `V1` with the same fields
  (`Encode`). The hash of a `TransactionData` keeps the tag.
- Option `nodes` is the pair `hasNodes`, `nodes`.

The state is the submitted transaction `tx` and the dispatcher's answer
`res`:
- `Init` picks any unsigned transaction of the bounded set. This includes a
  unit envelope with bulk data and the reverse, since `Transaction` does
  not tie the envelope to the variant.
- `SignTx(k)` signs it with any key.
- `ReuseRootSignature(k)` attaches the signature of a `V1` that carries a
  bulk root's fields.
- `Submit` computes `PutTransactionInternal`.

The spec's rules (section 3) are written separately, as `SpecShape`,
`SpecIntegrity` and `SpecAdmissible`, and the runs compare the two.

Bounds (`MC_Schema.cfg`):
- two keys;
- the networks `"skynet"` (the node's), `"other"` and `""`;
- an optional empty method;
- up to two nodes per bulk, each one of the following:
  - a `BulkNodeV1` depending on its root or on another bulk's root;
  - a `V1`;
  - a nested bulk.

That is 4,656 unsigned transactions and 46,176 states. Every rule's
failure and every check's error path is reached. `CHECK_DEADLOCK FALSE` is
set because one request is handled and answered.

| Run | cfg | Expect | What it shows |
|---|---|---|---|
| `schema_admission` | `MC_Schema.cfg` | pass | `IntegrityAgrees`: `check_integrity` accepts exactly what the spec's integrity rules accept, and a `BrokenIntegrity` context names a rule a node really breaks. A bulk whose nodes are None is accepted, by the code (`schema.rs:363`) and by the spec, whose `nodes` is optional. The repository's disabled dispatcher test `put_bulk_transaction_without_nodes` (`dispatcher.rs:826-845`) expects that request to be refused with `BrokenIntegrity` "The bulk has no nodes", an error the code never raises. This is recorded as a finding (spec gap): the test is stale, or the rule it states was dropped from both spec and code. |
| `schema_bulk_nodes_rejected` | `MC_Schema_ValidTxsAdmitted.cfg` | violation | A bulk with one coherent node, signed by its root's caller, is refused with `InvalidSignature`. `TransactionDataBulkV1::verify` checks each node's data against the bulk's signature (line 297), which never verifies, so no bulk with nodes is ever admitted. The tests only build bulks with `nodes: None`. |

Not checked as a property: the executor's comment at `executor.rs:750`
says admission keeps non-`BulkV1` data out of a bulk envelope. `Schema`
admits such an envelope whenever its `V1` data is signed by its caller. The
executor would then give it a successful receipt with no call and no fuel
burned.

## Plan

1. **`AlignerNode`, further checks:**
   - Two rounds, to check what the reset keeps. One round already takes
     about 4 million states.
   - Peers on a fork. A forked block at a height could replace the slot
     between `can_run` and the take (`executor.rs:1181`), or be overwritten
     by a failed block's re-insert (`executor.rs:1175`). `TakenBodiesPresent`
     is the property that would then fail.
   - The dispatcher's three reads of the status flag as separate steps
     (`dispatcher.rs:405, 431, 434`). Only the aligner's reset can change
     the flag between them. That restarts the aligner instead of forwarding
     the block, and the next round fetches the block again.
2. **`ExecutorTx`**: compose it with `Node`, so that `Node`'s `ExecBlockOk` and `ExecBlockFail` are refined by this module's merge and abort.
3. **`Schema`**: compose it with `Node`'s admission, so that a refused body
   reaches the dispatcher's unconditional ack to the aligner
   (`dispatcher.rs:337`).

Not modelled:
- libp2p discovery and the codec (plumbing);
- the store's fork/merge internals and the WASM machine (outside `src/`);
- PubSub internals;
- read-only dispatcher handlers, which change no state;
- `packed_message_handler` and `message_handler`'s routing. They decode
  the envelope, dispatch to the handlers above, and re-pack the answers up
  to `MAX_PACK_LEVEL` deep. None of this changes state, and `Node`'s inputs
  already include every sequence of requests the routing can produce;
- the MessagePack encoding and the schema's setters and accessors, which
  `Schema` abstracts to an injective encoding and record fields;
- `consensus/raft.rs`, draft code that nothing calls. Reading it shows
  two things. A node that gets its own stale `VoteRequest` resets
  `voted_for` and lowers its term, so it can vote twice in one term. And
  `handle_message` serializes the request, not the reply.

Also not checked: contract events are published before the block is checked
and merged (`executor.rs:821`). A block that fails has therefore already
published its events, and publishes them again when it is retried.
`ExecutorTx` reaches this state. The spec says too little about it for a
run.
