----------------------------- MODULE ExecutorTx -----------------------------
(***************************************************************************)
(* The execution of one block's transactions by the Executor               *)
(* (src/blockchain/executor.rs): exec_block's fork, exec_transactions'     *)
(* loop, exec_transaction with handle_unit_transaction and                 *)
(* handle_bulk_transaction, the fuel burning of try_burn_fuel and the      *)
(* re-burn after a failure, and the final fork_merge.                      *)
(*                                                                         *)
(* Every call into the contract host (app_hash_check, call, the burn-fuel  *)
(* method) is a step whose outcome is chosen from what the host may        *)
(* return: the host lives outside this repository.  A contract's writes   *)
(* are abstracted to one write tagged with its sub-transaction, its        *)
(* events to that sub-transaction's name, fuel to multiples of a unit.     *)
(*                                                                         *)
(* The fork (Db::fork_create) is a staged write buffer: flush records a   *)
(* checkpoint and rollback returns to the last checkpoint.                 *)
(***************************************************************************)
EXTENDS Naturals, Sequences, FiniteSets

CONSTANTS
    SubTx,       \* sub-transaction data hashes (a unit tx, a bulk root or node)
    EmptyRoot,   \* a bulk root of kind BulkEmpyRoot
    Blocks,      \* the transaction lists a block may carry
    Limits,      \* fuel_limit values a transaction may carry
    FUEL_LIMIT,  \* calculate_burned_fuel's charge for a call that used fuel
    ErrorFuel    \* get_fuel_consumed_for_error()

Unit == [kind : {"unit"}, id : SubTx]
Bulk == [kind : {"bulk"}, root : SubTx \cup {EmptyRoot}, nodes : Seq(SubTx)]

\* The sub-transactions of a transaction that call a contract.
Calls(t) ==
    IF t.kind = "unit" THEN {t.id}
    ELSE ({t.root} \ {EmptyRoot}) \cup {t.nodes[n] : n \in DOMAIN t.nodes}

ASSUME Blocks \subseteq Seq(Unit \cup Bulk)
ASSUME \A b \in Blocks : \A x, y \in DOMAIN b :
           x # y => Calls(b[x]) \cap Calls(b[y]) = {}

\* What the fork and the store hold.  A contract's writes; a debit by the
\* burn-fuel method for a transaction (the first or the second call); a
\* stored receipt.
Write == [k : {"state"}, s : SubTx]
Debit == [k : {"debit"}, i : Nat, n : {1, 2}]
Rx == [k : {"rx"}, i : Nat, success : BOOLEAN, burned : Nat,
       events : SUBSET SubTx]

State(s) == [k |-> "state", s |-> s]
Receipts(S) == {w \in S : w.k = "rx"}

VARIABLES
    blk,        \* txs_hashes of the block, resolved to the transactions
    lim,        \* lim[j]: fuel_limit of the j-th transaction
    burnOn,     \* burn_fuel_method is not empty
    db,         \* the store
    fork,       \* the fork: [ckpt |-> last flush, cur |-> current contents]
    pc,         \* position in exec_block
    i,          \* exec_transactions: index of the transaction executing
    k,          \* handle_bulk_transaction: index of the next node
    fail,       \* handle_bulk_transaction: execution_fail
    results,    \* handle_bulk_transaction: results, [s, ok] per sub-step
    events,     \* the events gathered for the receipt
    success,    \* the receipt's success before burning
    toBurn,     \* burn_fuel_args.fuel_to_burn
    burned,     \* the fuel try_burn_fuel reported burned
    published   \* events published to the CONTRACT_EVENTS subscribers

vars == <<blk, lim, burnOn, db, fork, pc, i, k, fail, results, events,
          success, toBurn, burned, published>>
txVars == <<k, fail, results, events, success, toBurn, burned>>

Cur == blk[i]

\* The host's answers to a contract call: ok, whether it used fuel, whether
\* it pushed events into the buffer before returning.
CallOutcomes == BOOLEAN \X BOOLEAN \X BOOLEAN

\* calculate_burned_fuel (executor.rs:221-230).
BurnedFuel(used) == IF used THEN FUEL_LIMIT ELSE 0

\* The contract writes (possibly partial when it fails) of a call.
Wrote(s) == [fork EXCEPT !.cur = @ \cup {State(s)}]
Rollback(f) == [f EXCEPT !.cur = f.ckpt]
Flush(f) == [f EXCEPT !.ckpt = f.cur]

-----------------------------------------------------------------------------
(* exec_transaction (executor.rs:789-857) *)

\* Seeded fault: the fork is not flushed before the transaction.
ExecTransactionStartNoFlush ==
    /\ pc = "tx"
    /\ pc' = IF Cur.kind = "unit" THEN "unit" ELSE "root"
    /\ k' = 1
    /\ fail' = FALSE
    /\ results' = <<>>
    /\ events' = {}
    /\ toBurn' = 0
    /\ UNCHANGED <<blk, lim, burnOn, db, fork, i, success, burned,
                   published>>

\* The fork is flushed and the transaction dispatched on its kind.
ExecTransactionStart ==
    /\ pc = "tx"
    /\ fork' = Flush(fork)
    /\ pc' = IF Cur.kind = "unit" THEN "unit" ELSE "root"
    /\ k' = 1
    /\ fail' = FALSE
    /\ results' = <<>>
    /\ events' = {}
    /\ toBurn' = 0
    /\ UNCHANGED <<blk, lim, burnOn, db, i, success, burned,
                   published>>

\* handle_unit_transaction: app_hash_check fails; no call, the error
\* charge is to be burned (executor.rs:449-466).
UnitAppHashErr ==
    /\ pc = "unit"
    /\ success' = FALSE
    /\ toBurn' = ErrorFuel
    /\ pc' = "burn"
    /\ UNCHANGED <<blk, lim, burnOn, db, fork, i, k, fail, results, events,
                   burned, published>>

\* handle_unit_transaction: the call.  The event buffer is kept whatever
\* the result; the fork is rolled back on an error (executor.rs:356-447).
UnitCall(ok, used, ev) ==
    /\ pc = "unit"
    /\ fork' = IF ok THEN Wrote(Cur.id) ELSE Rollback(Wrote(Cur.id))
    /\ events' = IF ev THEN {Cur.id} ELSE {}
    /\ success' = ok
    /\ toBurn' = BurnedFuel(used)
    /\ pc' = "burn"
    /\ UNCHANGED <<blk, lim, burnOn, db, i, k, fail, results, burned,
                   published>>

\* The step after a bulk sub-step: the next node, or the end of the bulk.
AfterStep(ok, n) ==
    IF ok /\ n <= Len(Cur.nodes) THEN "node" ELSE "bulkEnd"

\* handle_bulk_transaction, root: app_hash_check fails and the bulk
\* returns at once with the error charge (executor.rs:513-542).
RootAppHashErr ==
    /\ pc = "root"
    /\ Cur.root # EmptyRoot
    /\ success' = FALSE
    /\ toBurn' = ErrorFuel
    /\ pc' = "burn"
    /\ UNCHANGED <<blk, lim, burnOn, db, fork, i, k, fail, results, events,
                   burned, published>>

\* handle_bulk_transaction, root BulkEmpyRoot: success, no call, no fuel
\* (executor.rs:562, 588-609).
RootEmpty ==
    /\ pc = "root"
    /\ Cur.root = EmptyRoot
    /\ results' = <<[s |-> EmptyRoot, ok |-> TRUE]>>
    /\ pc' = AfterStep(TRUE, 1)
    /\ UNCHANGED <<blk, lim, burnOn, db, fork, i, k, fail, events, success,
                   toBurn, burned, published>>

\* handle_bulk_transaction, root call: its fuel is added; on success its
\* events are appended, on failure the bulk is failed and no node runs
\* (executor.rs:544-630).
RootCall(ok, used, ev) ==
    /\ pc = "root"
    /\ Cur.root # EmptyRoot
    /\ fork' = Wrote(Cur.root)
    /\ toBurn' = toBurn + BurnedFuel(used)
    /\ results' = <<[s |-> Cur.root, ok |-> ok]>>
    /\ events' = IF ok /\ ev THEN {Cur.root} ELSE events
    /\ fail' = ~ok
    /\ pc' = AfterStep(ok, 1)
    /\ UNCHANGED <<blk, lim, burnOn, db, i, k, success, burned, published>>

\* handle_bulk_transaction, a node whose app_hash_check fails: its result
\* is recorded and the bulk failed, and the loop goes on with the next node
\* (executor.rs:724-735).
NodeAppHashErr ==
    /\ pc = "node"
    /\ results' = Append(results, [s |-> Cur.nodes[k], ok |-> FALSE])
    /\ fail' = TRUE
    /\ k' = k + 1
    /\ pc' = AfterStep(TRUE, k + 1)
    /\ UNCHANGED <<blk, lim, burnOn, db, fork, i, events, success, toBurn,
                   burned, published>>

\* handle_bulk_transaction, a node's call: its fuel is added; on success
\* its events are appended, on failure the bulk is failed and the loop
\* breaks (executor.rs:631-723).
NodeCall(ok, used, ev) ==
    /\ pc = "node"
    /\ fork' = Wrote(Cur.nodes[k])
    /\ toBurn' = toBurn + BurnedFuel(used)
    /\ results' = Append(results, [s |-> Cur.nodes[k], ok |-> ok])
    /\ events' = IF ok /\ ev THEN events \cup {Cur.nodes[k]} ELSE events
    /\ fail' = (fail \/ ~ok)
    /\ k' = k + 1
    /\ pc' = AfterStep(ok, k + 1)
    /\ UNCHANGED <<blk, lim, burnOn, db, i, success, burned, published>>

\* handle_bulk_transaction, end: a failed bulk rolls the fork back; the
\* receipt's success is the negation of execution_fail
\* (executor.rs:739-774).
BulkEnd ==
    /\ pc = "bulkEnd"
    /\ fork' = IF fail THEN Rollback(fork) ELSE fork
    /\ success' = ~fail
    /\ pc' = "burn"
    /\ UNCHANGED <<blk, lim, burnOn, db, i, k, fail, results, events, toBurn,
                   burned, published>>

\* Store the receipt in the fork and go on with the next transaction
\* (exec_transactions, executor.rs:868-895).
StoreReceipt(f, ok, fuel) ==
    /\ fork' = [f EXCEPT !.cur = @ \cup {[k |-> "rx", i |-> i, success |-> ok,
                                          burned |-> fuel, events |-> events]}]
    /\ i' = i + 1
    /\ pc' = IF i + 1 <= Len(blk) THEN "tx" ELSE "block"

\* try_burn_fuel: no burn-fuel method configured (executor.rs:308-310).
\* The events are published and the receipt's burned fuel is 0
\* (executor.rs:817-829).
BurnSkip ==
    /\ pc = "burn"
    /\ ~burnOn
    /\ published' = published \cup events
    /\ StoreReceipt(fork, success, 0)
    /\ UNCHANGED <<blk, lim, burnOn, db, txVars>>

\* Seeded fault: the amount is not capped at the fuel limit.
BurnUnitsUncapped(toburn, limit) == toburn

\* The amount try_burn_fuel asks the burn-fuel method for: the fuel to
\* burn, capped at the transaction's fuel_limit (executor.rs:314-319).
BurnUnits(toburn, limit) == IF toburn > limit THEN limit ELSE toburn

\* The burn-fuel method's answers: an error (no service account, no
\* contract, a host error, undecodable returns), success = false with no
\* units, or the debit of the units asked for.
BurnOutcomes == {"err", "refused", "burned"}

\* Seeded fault: a failed burn is not rolled back before the second call.
BurnCallNoRollback(out) ==
    LET units == BurnUnits(toBurn, lim[i])
        f == IF out = "burned"
             THEN [fork EXCEPT !.cur = @ \cup {[k |-> "debit", i |-> i,
                                                n |-> 1]}]
             ELSE fork
        done == out = "burned" /\ toBurn <= lim[i]
    IN
    /\ pc = "burn"
    /\ burnOn
    /\ burned' = IF out = "burned" THEN units ELSE 0
    /\ IF done
       THEN /\ published' = published \cup events
            /\ StoreReceipt(f, success, units)
       ELSE /\ fork' = f
            /\ pc' = "reburn"
            /\ UNCHANGED <<i, published>>
    /\ UNCHANGED <<blk, lim, burnOn, db, k, fail, results, events, success,
                   toBurn>>

\* try_burn_fuel calls the burn-fuel method (executor.rs:298-344).  When it
\* burned and the fuel to burn was within the limit, the events are
\* published and the receipt takes the burned units (executor.rs:817-829);
\* otherwise the fork is rolled back and the method called again
\* (executor.rs:830-856).
BurnCall(out) ==
    LET units == BurnUnits(toBurn, lim[i])
        f == IF out = "burned"
             THEN [fork EXCEPT !.cur = @ \cup {[k |-> "debit", i |-> i,
                                                n |-> 1]}]
             ELSE fork
        done == out = "burned" /\ toBurn <= lim[i]
    IN
    /\ pc = "burn"
    /\ burnOn
    /\ burned' = IF out = "burned" THEN units ELSE 0
    /\ IF done
       THEN /\ published' = published \cup events
            /\ StoreReceipt(f, success, units)
       ELSE /\ fork' = Rollback(f)
            /\ pc' = "reburn"
            /\ UNCHANGED <<i, published>>
    /\ UNCHANGED <<blk, lim, burnOn, db, k, fail, results, events, success,
                   toBurn>>

\* The burn-fuel method is called again for the fuel burned before the
\* rollback, its answer ignored but for an error, which sets the burned
\* fuel to 0.  The receipt fails and keeps its events, which are not
\* published (executor.rs:833-856).
ReBurn(out) ==
    /\ pc = "reburn"
    /\ LET f == IF out = "burned"
                THEN [fork EXCEPT !.cur = @ \cup {[k |-> "debit", i |-> i,
                                                   n |-> 2]}]
                ELSE fork
       IN StoreReceipt(f, FALSE, IF out = "err" THEN 0 ELSE burned)
    /\ UNCHANGED <<blk, lim, burnOn, db, txVars, published>>

-----------------------------------------------------------------------------
(* exec_block (executor.rs:901-1057) *)

\* The block is built and checked, and the fork merged into the store
\* (executor.rs:916-999).
BlockMerge ==
    /\ pc = "block"
    /\ db' = fork.cur
    /\ pc' = "merged"
    /\ UNCHANGED <<blk, lim, burnOn, fork, i, txVars, published>>

\* A bad block signature, an unexpected validator or block hash, or a
\* fork_merge error: exec_block returns the error and the fork is dropped
\* (executor.rs:941-999).
BlockAbort ==
    /\ pc = "block"
    /\ pc' = "aborted"
    /\ UNCHANGED <<blk, lim, burnOn, db, fork, i, txVars, published>>

-----------------------------------------------------------------------------

\* A block with at least one transaction, each with its fuel limit, and the
\* node's burn-fuel configuration; the fork is created from the store.
Init ==
    /\ blk \in {b \in Blocks : b # <<>>}
    /\ lim \in [1..Len(blk) -> Limits]
    /\ burnOn \in BOOLEAN
    /\ db = {}
    /\ fork = [ckpt |-> {}, cur |-> {}]
    /\ pc = "tx"
    /\ i = 1
    /\ k = 1
    /\ fail = FALSE
    /\ results = <<>>
    /\ events = {}
    /\ success = FALSE
    /\ toBurn = 0
    /\ burned = 0
    /\ published = {}

Next ==
    \/ ExecTransactionStart
    \/ UnitAppHashErr
    \/ \E o \in CallOutcomes : UnitCall(o[1], o[2], o[3])
    \/ RootAppHashErr
    \/ RootEmpty
    \/ \E o \in CallOutcomes : RootCall(o[1], o[2], o[3])
    \/ NodeAppHashErr
    \/ \E o \in CallOutcomes : NodeCall(o[1], o[2], o[3])
    \/ BulkEnd
    \/ BurnSkip
    \/ \E out \in BurnOutcomes : BurnCall(out)
    \/ \E out \in BurnOutcomes : ReBurn(out)
    \/ BlockMerge
    \/ BlockAbort

Spec == Init /\ [][Next]_vars

-----------------------------------------------------------------------------
(* Properties *)

Pcs == {"tx", "unit", "root", "node", "bulkEnd", "burn", "reburn", "block",
        "merged", "aborted"}
MaxLimit == CHOOSE l \in Limits : \A m \in Limits : m <= l

TypeOK ==
    /\ blk \in Blocks /\ lim \in [1..Len(blk) -> Limits] /\ burnOn \in BOOLEAN
    /\ db \subseteq Write \cup Debit \cup Rx
    /\ fork.ckpt \subseteq Write \cup Debit \cup Rx
    /\ fork.cur \subseteq Write \cup Debit \cup Rx
    /\ pc \in Pcs
    /\ i \in 1..Len(blk) + 1
    /\ k \in Nat \ {0}
    /\ fail \in BOOLEAN /\ success \in BOOLEAN
    /\ results \in Seq([s : SubTx \cup {EmptyRoot}, ok : BOOLEAN])
    /\ events \subseteq SubTx /\ published \subseteq SubTx
    /\ toBurn \in Nat
    /\ burned \in 0..MaxLimit

\* Every transaction exec_transactions has executed keeps its receipt in
\* the fork, and the fork holds the contract writes of all its
\* sub-transactions when the receipt says success, and none of them when
\* it says failure: the rollbacks of handle_unit_transaction,
\* handle_bulk_transaction and of a failed burn undo exactly the
\* transaction's own writes, thanks to the flush at the start of
\* exec_transaction (executor.rs:798), and never an earlier one's.
ExecutedTxsAtomic ==
    /\ \A j \in 1..i - 1 : \E r \in Receipts(fork.cur) : r.i = j
    /\ \A r \in Receipts(fork.cur) :
           IF r.success THEN \A s \in Calls(blk[r.i]) : State(s) \in fork.cur
           ELSE \A s \in Calls(blk[r.i]) : State(s) \notin fork.cur

\* The caller of a transaction is debited at most once: when the burn-fuel
\* method debited more than the fuel limit allows, the debit is rolled back
\* before the method is called again (executor.rs:830-846).
OneDebitPerTx ==
    \A j \in 1..Len(blk) :
        Cardinality({w \in fork.cur : w.k = "debit" /\ w.i = j}) <= 1

\* Spec section "Bulk-transaction execution": any node failure fails the
\* bulk and short-circuits the remaining nodes, so no sub-step of a bulk
\* runs after a failed one (handle_bulk_transaction, executor.rs:630-748).
BulkShortCircuits ==
    \A n \in 1..Len(results) - 1 : results[n].ok

====
