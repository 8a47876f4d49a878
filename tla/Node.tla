-------------------------------- MODULE Node --------------------------------
(***************************************************************************)
(* One TRINCI node: the shared Pool and store, the Dispatcher task that    *)
(* admits transactions and ingests blocks, the Executor task that drains   *)
(* the confirmed pool, and the Aligner seen from the shared state it       *)
(* writes (its internal peer protocol is refined in module AlignerNode).   *)
(*                                                                         *)
(* Sources: src/blockchain/dispatcher.rs, src/blockchain/executor.rs,      *)
(* src/blockchain/aligner.rs (pool writes and status flag).                *)
(*                                                                         *)
(* Data abstraction: a transaction is its hash (a model value); a block is *)
(* identified by its height on the fleet's chain, whose transactions are   *)
(* fixed by BlockTxs.  A BlockInfo keeps only its txs_hashes option.       *)
(* Every step below is one critical section of the code: the steps of one  *)
(* handler that take different locks are separate actions.                 *)
(***************************************************************************)
EXTENDS Naturals, FiniteSets, Functions, TLC

CONSTANTS
    Tx,          \* transaction hashes
    MaxHeight,   \* last height the fleet produces (bounds the model)
    BlockTxs,    \* BlockTxs[h]: hashes named by the fleet's block at height h
    CheckApart   \* TRUE: can_run and the take of the slot are separate steps

ASSUME MaxHeight \in Nat \ {0}
ASSUME CheckApart \in BOOLEAN
ASSUME BlockTxs \in [1..MaxHeight -> SUBSET Tx]
ASSUME \A h, k \in 1..MaxHeight : h # k => BlockTxs[h] \cap BlockTxs[k] = {}

Heights == 1..MaxHeight


\* pool.txs value for a hash: no key, key with None body, key with Some body
Absent == "absent"
Placeholder == "none"
Body == "some"

\* hashed: txs_hashes is Some; txs: its hashes (empty when None)
BlockInfo == [hashed : BOOLEAN, txs : SUBSET Tx]
NoInfo == [hashed |-> FALSE, txs |-> {}]

\* Messages the dispatcher forwards to the aligner over its channel
\* (dispatcher.rs:336-343, 446-451): a block response, with or without its
\* hashes, and a transaction ack; origin is FALSE for gossip (origin None).
BlockMsg == [kind : {"block"}, h : Heights, txs : BOOLEAN, origin : BOOLEAN]
TxMsg == [kind : {"tx"}, t : Tx, origin : BOOLEAN]

VARIABLES
    \* store (db)
    tip,          \* height of the last block in the store
    dbTxs,        \* hashes of the transactions stored in the store
    \* pool
    poolTxs,      \* pool.txs: hash -> Absent | Placeholder | Body
    unconfirmed,  \* pool.unconfirmed
    confirmed,    \* pool.confirmed: a map from heights to BlockInfo
    \* aligner status flag: TRUE = idle ("pending"), FALSE = aligning
    status,
    \* dispatcher task
    dpc,          \* dispatcher program counter (a record)
    \* executor task
    epc,          \* "idle" | "checked" | "exec" | "merged"
    eInfo,        \* BlockInfo taken out of the pool by the executor
    \* aligner task, as seen from the shared state: "idle" | "active"
    apc,
    \* environment
    fleetTip      \* height reached by the fleet's chain

storeVars == <<tip, dbTxs>>
poolVars == <<poolTxs, unconfirmed, confirmed>>
vars == <<tip, dbTxs, poolTxs, unconfirmed, confirmed, status, dpc, epc,
          eInfo, apc, fleetTip>>

DIdle == [op |-> "idle"]

-----------------------------------------------------------------------------
(* Pool helpers *)

\* Seeded fault: can_run looks at the slot's txs_hashes only.
CanRunSlotOnly(h) ==
    /\ h \in DOMAIN confirmed
    /\ confirmed[h].hashed

\* Executor::can_run(height): the slot has txs_hashes and every body is in
\* pool.txs (executor.rs:1059-1080).
CanRun(h) ==
    /\ h \in DOMAIN confirmed
    /\ confirmed[h].hashed
    /\ \A t \in confirmed[h].txs : poolTxs[t] = Body

\* Seeded fault: the block's hashes are not removed from unconfirmed.
NoteBlockKeepUnconfirmed(h, info) ==
    /\ UNCHANGED unconfirmed
    /\ poolTxs' = [t \in Tx |-> IF t \in info.txs /\ poolTxs[t] = Absent
                                THEN Placeholder ELSE poolTxs[t]]
    /\ confirmed' = (h :> info) @@ confirmed

\* The block-noting sequence shared by the dispatcher and the aligner: every
\* named hash leaves unconfirmed, gets a body-less entry when it has no key,
\* and the BlockInfo is inserted at its height (dispatcher.rs:405-428,
\* aligner.rs:552-569 and 586-603).
NoteBlock(h, info) ==
    /\ unconfirmed' = unconfirmed \ info.txs
    /\ poolTxs' = [t \in Tx |-> IF t \in info.txs /\ poolTxs[t] = Absent
                                THEN Placeholder ELSE poolTxs[t]]
    /\ confirmed' = (h :> info) @@ confirmed

-----------------------------------------------------------------------------
(* Dispatcher *)

\* put_transaction_internal up to the store lookup (dispatcher.rs:148-165).
\* Size, signature, integrity and network checks do not depend on state and
\* are passed by the hashes of Tx.  src is "client" for a
\* PutTransactionRequest (put_transaction_handler) and "peer" for a
\* GetTransactionResponse (get_transaction_res_handler), gossiped
\* (origin None) or answering a request.
PutTransactionCheck(t, src, origin) ==
    /\ dpc = DIdle
    /\ dpc' = [op |-> "put", tx |-> t, src |-> src, origin |-> origin,
               stored |-> t \in dbTxs]
    /\ UNCHANGED <<storeVars, poolVars, status, epc, eInfo, apc,
                   fleetTip>>

\* The messages the current dispatcher step sends over the aligner's
\* channel (dispatcher_aligner.0).  Module AlignerNode carries the channel.
\* get_transaction_res_handler acks whatever the admission returned, when
\* the aligner is running (dispatcher.rs:336-343); get_block_res_handler
\* forwards a block at or above start while the aligner is running
\* (dispatcher.rs:440-451).
ToAligner ==
    CASE dpc.op = "put" /\ dpc.src = "peer" /\ ~status ->
            {[kind |-> "tx", t |-> dpc.tx, origin |-> dpc.origin]}
      [] dpc.op = "block" /\ dpc.last + 1 <= dpc.h /\ ~status ->
            {[kind |-> "block", h |-> dpc.h, txs |-> dpc.withTxs,
              origin |-> dpc.origin]}
      [] OTHER -> {}

\* Seeded fault: filling a body-less entry also pushes the hash to
\* unconfirmed, as the Absent case does.
PutTransactionPoolPushOnFill ==
    /\ dpc.op = "put"
    /\ LET t == dpc.tx IN
       /\ (~dpc.stored /\ poolTxs[t] # Body) => unconfirmed' = unconfirmed \cup {t}
       /\ (dpc.stored \/ poolTxs[t] = Body) => UNCHANGED unconfirmed
       /\ poolTxs' = IF dpc.stored THEN poolTxs ELSE [poolTxs EXCEPT ![t] = Body]
    /\ dpc' = DIdle
    /\ UNCHANGED <<storeVars, confirmed, status, epc, eInfo, apc, fleetTip>>

\* The rest of put_transaction_internal: a hash found in the store was
\* refused (DuplicatedConfirmedTx); otherwise the pool write lock
\* (dispatcher.rs:167-184).  Then the gossip of put_transaction_handler
\* (no modelled state) or the ack of get_transaction_res_handler.
PutTransactionPool ==
    /\ dpc.op = "put"
    /\ LET t == dpc.tx IN
       CASE dpc.stored ->
                UNCHANGED <<poolTxs, unconfirmed>>
         [] poolTxs[t] = Absent ->
                /\ poolTxs' = [poolTxs EXCEPT ![t] = Body]
                /\ unconfirmed' = unconfirmed \cup {t}
         [] poolTxs[t] = Placeholder ->
                /\ poolTxs' = [poolTxs EXCEPT ![t] = Body]
                /\ UNCHANGED unconfirmed
         [] poolTxs[t] = Body ->
                UNCHANGED <<poolTxs, unconfirmed>>
    /\ dpc' = DIdle
    /\ UNCHANGED <<storeVars, confirmed, status, epc, eInfo, apc, fleetTip>>

\* get_block_res_handler, first step: read the local last block
\* (dispatcher.rs:347-387).  The block is one the fleet has produced,
\* with or without its txs_hashes.
GetBlockResRead(h, withTxs, origin) ==
    /\ dpc = DIdle
    /\ h \in 1..fleetTip
    /\ dpc' = [op |-> "block", h |-> h, withTxs |-> withTxs,
               origin |-> origin, last |-> tip]
    /\ UNCHANGED <<storeVars, poolVars, status, epc, eInfo, apc,
                   fleetTip>>

\* get_block_res_handler, second step, with the height read in the first
\* (dispatcher.rs:388-453): missing_headers.start = last + 1; the block goes
\* to the pool when start + 1 = height and the aligner is idle; otherwise a
\* block at or above start starts the aligner, or is forwarded to it; a
\* block below start is dropped.
GetBlockResApply ==
    /\ dpc.op = "block"
    /\ LET h == dpc.h
           start == dpc.last + 1
           info == [hashed |-> dpc.withTxs,
                    txs |-> IF dpc.withTxs THEN BlockTxs[h] ELSE {}]
       IN \/ /\ start + 1 = h /\ status
             /\ NoteBlock(h, info)
             /\ UNCHANGED status
          \/ /\ ~(start + 1 = h /\ status) /\ start <= h
             /\ status' = FALSE
             /\ UNCHANGED poolVars
          \/ /\ h < start
             /\ UNCHANGED <<poolVars, status>>
    /\ dpc' = DIdle
    /\ UNCHANGED <<storeVars, epc, eInfo, apc, fleetTip>>

-----------------------------------------------------------------------------
(* Executor: one iteration of the Executor::run loop *)

\* can_run(height) under the pool read lock: by the caller before run, and
\* at the end of every round (executor.rs:1181-1183).  When it fails the
\* loop breaks and the executor waits to be run again.
ExecCheck ==
    /\ CheckApart
    /\ epc = "idle"
    /\ CanRun(tip + 1)
    /\ epc' = "checked"
    /\ UNCHANGED <<storeVars, poolVars, status, dpc, eInfo, apc, fleetTip>>

\* Under a later pool write lock, take the BlockInfo of the next height when
\* it has txs_hashes, leaving the slot present with an empty hash list; the
\* bodies are not looked at again (executor.rs:1090-1107).  Without
\* CheckApart the take follows can_run with no other step between them.
ExecTake ==
    /\ \/ epc = "checked"
       \/ ~CheckApart /\ epc = "idle" /\ CanRun(tip + 1)
    /\ tip + 1 \in DOMAIN confirmed
    /\ confirmed[tip + 1].hashed
    /\ eInfo' = confirmed[tip + 1]
    /\ confirmed' = [confirmed EXCEPT ![tip + 1].txs = {}]
    /\ epc' = "exec"
    /\ UNCHANGED <<storeVars, poolTxs, unconfirmed, status, dpc, apc,
                   fleetTip>>

\* The slot has no txs_hashes (any more): the loop breaks
\* (executor.rs:1106).
ExecTakeBreak ==
    /\ epc = "checked"
    /\ ~(tip + 1 \in DOMAIN confirmed /\ confirmed[tip + 1].hashed)
    /\ epc' = "idle"
    /\ UNCHANGED <<storeVars, poolVars, status, dpc, eInfo, apc, fleetTip>>

\* exec_block succeeds: the recomputed block hash equals the expected one,
\* which holds exactly when the executed hash list is the block's, and the
\* fork is merged into the store (executor.rs:916-999).  exec_transactions
\* reads the bodies (executor.rs:865-878); TakenBodiesPresent checks that
\* they are there.
ExecBlockOk ==
    /\ epc = "exec"
    /\ eInfo.txs = BlockTxs[tip + 1]
    /\ tip' = tip + 1
    /\ dbTxs' = dbTxs \cup eInfo.txs
    /\ epc' = "merged"
    /\ UNCHANGED <<poolVars, status, dpc, eInfo, apc, fleetTip>>

\* Seeded fault: the taken BlockInfo is put back one height too low.
ExecBlockFailAtTip ==
    /\ epc = "exec"
    /\ confirmed' = (tip :> eInfo) @@ confirmed
    /\ epc' = "idle"
    /\ UNCHANGED <<storeVars, poolTxs, unconfirmed, status, dpc, eInfo,
                   apc, fleetTip>>

\* exec_block fails (unexpected block hash, or fork_merge error): the taken
\* BlockInfo is put back and the loop stops (executor.rs:989-999, 1167-1177).
ExecBlockFail ==
    /\ epc = "exec"
    /\ confirmed' = (tip + 1 :> eInfo) @@ confirmed
    /\ epc' = "idle"
    /\ UNCHANGED <<storeVars, poolTxs, unconfirmed, status, dpc, eInfo,
                   apc, fleetTip>>

\* After a merge: drop the slot and the executed bodies (executor.rs:1122-1129).
ExecCleanup ==
    /\ epc = "merged"
    /\ confirmed' = Restrict(confirmed, DOMAIN confirmed \ {tip})
    /\ poolTxs' = [t \in Tx |-> IF t \in eInfo.txs THEN Absent ELSE poolTxs[t]]
    /\ epc' = "idle"
    /\ UNCHANGED <<storeVars, unconfirmed, status, dpc, eInfo, apc,
                   fleetTip>>

-----------------------------------------------------------------------------
(* Aligner, by its effect on the shared state.  Module AlignerNode models
   its peer protocol step by step and implements these actions. *)

\* Woken when the dispatcher clears the status flag (aligner.rs:95-114).
AlignerWake ==
    /\ apc = "idle"
    /\ ~status
    /\ apc' = "active"
    /\ UNCHANGED <<storeVars, poolVars, status, dpc, epc, eInfo,
                   fleetTip>>

\* Write a fetched block into the pool, each under its own pool write lock
\* (aligner.rs:538-618).  The gathered blocks are the fleet's blocks whose
\* responses carried their hashes; which heights, how many times and in
\* which order depends on the responses the aligner received.
AlignerCommitBlock(h) ==
    /\ apc = "active"
    /\ h \in 1..fleetTip
    /\ NoteBlock(h, [hashed |-> TRUE, txs |-> BlockTxs[h]])
    /\ UNCHANGED <<storeVars, status, dpc, epc, eInfo, apc, fleetTip>>

\* Reset: the status flag goes back to idle (aligner.rs:619-662).
AlignerReset ==
    /\ apc = "active"
    /\ status' = TRUE
    /\ apc' = "idle"
    /\ UNCHANGED <<storeVars, poolVars, dpc, epc, eInfo, fleetTip>>

-----------------------------------------------------------------------------
(* Environment: the validators extend the fleet's chain *)

Produce ==
    /\ fleetTip < MaxHeight
    /\ fleetTip' = fleetTip + 1
    /\ UNCHANGED <<storeVars, poolVars, status, dpc, epc, eInfo, apc>>

-----------------------------------------------------------------------------

Init ==
    /\ tip = 0
    /\ dbTxs = {}
    /\ poolTxs = [t \in Tx |-> Absent]
    /\ unconfirmed = {}
    /\ confirmed = [h \in {} |-> NoInfo]
    /\ status = TRUE
    /\ dpc = DIdle
    /\ epc = "idle"
    /\ eInfo = NoInfo
    /\ apc = "idle"
    /\ fleetTip = 0

\* The dispatcher's inputs: client submissions, transactions from peers
\* (gossiped or answering a request), and blocks of the fleet's chain.
DispatcherNext ==
    \/ \E t \in Tx : PutTransactionCheck(t, "client", FALSE)
    \/ \E t \in Tx, o \in BOOLEAN : PutTransactionCheck(t, "peer", o)
    \/ PutTransactionPool
    \/ \E h \in Heights, w, o \in BOOLEAN : GetBlockResRead(h, w, o)
    \/ GetBlockResApply

ExecutorNext ==
    \/ ExecCheck
    \/ ExecTake
    \/ ExecTakeBreak
    \/ ExecBlockOk
    \/ ExecBlockFail
    \/ ExecCleanup

AlignerNext ==
    \/ AlignerWake
    \/ \E h \in Heights : AlignerCommitBlock(h)
    \/ AlignerReset

Next ==
    \/ DispatcherNext
    \/ ExecutorNext
    \/ AlignerNext
    \/ Produce

Spec == Init /\ [][Next]_vars

-----------------------------------------------------------------------------
(* Properties *)

TypeOK ==
    /\ tip \in 0..MaxHeight
    /\ dbTxs \subseteq Tx
    /\ poolTxs \in [Tx -> {Absent, Placeholder, Body}]
    /\ unconfirmed \subseteq Tx
    /\ DOMAIN confirmed \subseteq Heights
    /\ \A h \in DOMAIN confirmed : confirmed[h] \in BlockInfo
    /\ status \in BOOLEAN
    /\ dpc \in {DIdle}
              \cup [op : {"put"}, tx : Tx, src : {"client", "peer"},
                    origin : BOOLEAN, stored : BOOLEAN]
              \cup [op : {"block"}, h : Heights, withTxs : BOOLEAN,
                    origin : BOOLEAN, last : 0..MaxHeight]
    /\ epc \in {"idle", "checked", "exec", "merged"}
    /\ eInfo \in BlockInfo
    /\ apc \in {"idle", "active"}
    /\ fleetTip \in 0..MaxHeight
\* Hashes named by a block the node still has to execute: the slots above
\* the store's tip and the BlockInfo the executor holds.
PendingTxs ==
    UNION {confirmed[h].txs : h \in {k \in DOMAIN confirmed : k > tip}}
    \cup (IF epc = "exec" THEN eInfo.txs ELSE {})

\* Every hash in pool.unconfirmed has its body in pool.txs.  The dispatcher
\* pushes a hash only with its body, and a hash named by a block leaves
\* unconfirmed before the executor drops its body (a local proposal built
\* from unconfirmed would otherwise name a body the node cannot execute).
UnconfirmedHaveBodies ==
    \A t \in unconfirmed : poolTxs[t] = Body

\* A hash named by a block still to be executed is never in unconfirmed:
\* the block-noting steps of the dispatcher and the aligner remove it, and a
\* later admission finds its key and does not push it again.
PendingTxsNotUnconfirmed ==
    PendingTxs \cap unconfirmed = {}

\* exec_transactions panics on a hash whose body is not in pool.txs
\* (executor.rs:872-878).  can_run checks the bodies under a read lock and
\* run takes the slot under a later write lock without checking them again
\* (executor.rs:1090, 1181): every body of the block the executor holds is
\* still in the pool, whatever the dispatcher and the aligner wrote in
\* between.
TakenBodiesPresent ==
    epc = "exec" => \A t \in eInfo.txs : poolTxs[t] = Body

\* The spec (section 8): once the executor has committed a block and
\* cleaned up, none of its hashes remains in pool.unconfirmed.  The
\* dispatcher's store lookup and its pool write are two critical sections.
ExecutedTxsNotUnconfirmed ==
    epc # "merged" => dbTxs \cap unconfirmed = {}

\* The spec (section 8): after the executor commits height h, pool.confirmed
\* holds nothing at or below h, and no executed hash is back in pool.txs as
\* a body-less entry.  The dispatcher (dispatcher.rs:378) notes blocks
\* against a tip it read earlier, and the aligner writes the blocks it
\* fetched without looking at the tip (aligner.rs:538-618).
ExecutedBlocksLeavePool ==
    epc # "merged" =>
        /\ \A h \in DOMAIN confirmed : h > tip
        /\ \A t \in dbTxs : poolTxs[t] # Placeholder

\* The spec (section 4.3): a block at exactly local_tip + 1, received while
\* the aligner is idle, is inserted into pool.confirmed by the dispatcher.
NextBlockGoesToPool ==
    [][ (/\ dpc.op = "block" /\ dpc' = DIdle
         /\ dpc.h = dpc.last + 1 /\ status /\ dpc.withTxs)
        => /\ dpc.h \in DOMAIN confirmed'
           /\ confirmed'[dpc.h] = [hashed |-> TRUE, txs |-> BlockTxs[dpc.h]] ]_vars

=============================================================================
