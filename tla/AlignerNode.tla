---------------------------- MODULE AlignerNode ----------------------------
(***************************************************************************)
(* The node of module Node with the aligner's peer protocol modelled step  *)
(* by step (src/blockchain/aligner.rs, Aligner::run_async), the aligner's  *)
(* channel, and the network between the node and its peers.                *)
(*                                                                         *)
(* The dispatcher and the executor are Node's actions, conjoined with      *)
(* their effect on the channel and the network.  Node's aligner actions    *)
(* are replaced by the detailed ones, and Node's apc is mapped from the    *)
(* detailed phase, so Node's invariants can be read on this module.        *)
(*                                                                         *)
(* Peers follow the fleet's chain, possibly lagging: a block is its        *)
(* height, and the hash a peer reports is that of the block at that        *)
(* height.  The order of missing_txs and duplicates in it are abstracted   *)
(* (a set); the blacklist is never written (see BlockGatherDeadlock).        *)
(***************************************************************************)
EXTENDS Naturals, Sequences, SequencesExt, TLC

CONSTANTS
    Tx, MaxHeight, BlockTxs,
    MAX_ATTEMPTS,   \* aligner.rs:44
    NetCap,         \* bound on the messages in flight from the peers
    ChanCap,        \* bound on the messages queued on the aligner's channel
    MaxRounds       \* bound on the alignment rounds

VARIABLES
    tip, dbTxs, poolTxs, unconfirmed, confirmed, status, dpc, epc, eInfo,
    fleetTip,
    chan,       \* the aligner's channel rx_chan, FIFO
    net,        \* messages on their way from the peers to the dispatcher
    bReqs,      \* outstanding GetBlockRequests (heights; LastReq = u64::MAX)
    tReqs,      \* outstanding GetTransactionRequests (hashes)
    aph,        \* aligner phase
    votes,      \* heights of the last blocks in trusted_peers
    maxH,       \* max_block_height
    local,      \* height of local_last (aligner.rs:223)
    mblocks,    \* missing_blocks: heights, most recent first
    mtxs,       \* missing_txs (never cleared)
    unexpected, \* unexpected_blocks: heights (never cleared)
    attempt,    \* attempt counter of the current gather
    over,       \* the current gather is complete
    req,        \* the height or hash currently requested
    todo,       \* hashes of missing_txs not yet requested in this round
    cidx,       \* commit cursor: index into missing_blocks, or last_block
    rounds      \* alignment rounds started

\* Node's view of the aligner: waiting on the status flag, or running.
AbsApc == IF aph = "wait" THEN "idle" ELSE "active"

\* The executor's can_run and take are one step here; Node's own run
\* checks the window between them.
N == INSTANCE Node WITH apc <- AbsApc, CheckApart <- FALSE

\* A GetBlockRequest for height u64::MAX (the peer's last block); heights
\* requested otherwise are at least 1.
LastReq == 0
Heights == 1..MaxHeight
Msg == N!BlockMsg \cup N!TxMsg

\* The gossip of a new block, one per produced block.
Gossiped == {m \in net : m.kind = "block" /\ m.txs /\ ~m.origin}

\* The peers send another message only while fewer than NetCap of theirs
\* are in flight.
Send(m) ==
    /\ Cardinality(net \ Gossiped) < NetCap
    /\ net' = net \cup {m}

nodeVars == <<tip, dbTxs, poolTxs, unconfirmed, confirmed, status, dpc, epc,
              eInfo, fleetTip>>
netVars == <<chan, net, bReqs, tReqs>>
alignerVars == <<aph, votes, maxH, local, mblocks, mtxs, unexpected, attempt,
                 over, req, todo, cidx, rounds>>
vars == <<nodeVars, netVars, alignerVars>>

-----------------------------------------------------------------------------
(* Peers and the network (src/p2p/behaviour.rs).  Every message may be lost;
   none is duplicated by the network. *)

\* A validator of the fleet produces the next block and gossips it with its
\* hashes and origin None (executor.rs:1038-1044).
Produce ==
    /\ net' = net \cup {[kind |-> "block", h |-> fleetTip + 1, txs |-> TRUE,
                         origin |-> FALSE]}
    /\ UNCHANGED <<chan, bReqs, tReqs, alignerVars>>
    /\ N!Produce

\* A peer's last block without hashes, answering a GetBlockRequest(MAX,
\* false): re-published in gossip by every node (behaviour.rs:440-447) or
\* sent to a new subscriber (behaviour.rs:458-477).  Peers may lag.
PeerAnnounce(h) ==
    /\ h \in 1..fleetTip
    /\ Send([kind |-> "block", h |-> h, txs |-> FALSE, origin |-> TRUE])
    /\ UNCHANGED <<nodeVars, chan, bReqs, tReqs, alignerVars>>

\* A trusted peer answers a GetBlockRequest(height, true) with its block and
\* hashes (get_block_handler, dispatcher.rs:264-281); for u64::MAX, with
\* its last block, at least the one it reported in the collection.
PeerRespondBlock(r, h) ==
    /\ r \in bReqs
    /\ h \in 1..fleetTip
    /\ r # LastReq => h = r
    /\ r = LastReq => h >= maxH
    /\ bReqs' = bReqs \ {r}
    /\ Send([kind |-> "block", h |-> h, txs |-> TRUE, origin |-> TRUE])
    /\ UNCHANGED <<nodeVars, chan, tReqs, alignerVars>>

\* A peer answers a GetTransactionRequest (get_transaction_handler).
PeerRespondTx(t) ==
    /\ t \in tReqs
    /\ tReqs' = tReqs \ {t}
    /\ Send([kind |-> "tx", t |-> t, origin |-> TRUE])
    /\ UNCHANGED <<nodeVars, chan, bReqs, alignerVars>>

\* A transaction gossiped by a peer (broadcast_attempt, origin None).
GossipTx(t) ==
    /\ Send([kind |-> "tx", t |-> t, origin |-> FALSE])
    /\ UNCHANGED <<nodeVars, chan, bReqs, tReqs, alignerVars>>

\* A message is lost (OutboundFailure is only logged, behaviour.rs:632-643).
\* A lost request is a request no peer answers: the peers are not obliged
\* to answer.
LoseMessage(m) ==
    /\ m \in net
    /\ net' = net \ {m}
    /\ UNCHANGED <<nodeVars, chan, bReqs, tReqs, alignerVars>>

-----------------------------------------------------------------------------
(* Dispatcher and executor: Node's actions, with what they send to the
   aligner's channel *)

DeliverBlock(m) ==
    /\ m \in net
    /\ m.kind = "block"
    /\ net' = net \ {m}
    /\ UNCHANGED <<chan, bReqs, tReqs, alignerVars>>
    /\ N!GetBlockResRead(m.h, m.txs, m.origin)

DeliverTx(m) ==
    /\ m \in net
    /\ m.kind = "tx"
    /\ net' = net \ {m}
    /\ UNCHANGED <<chan, bReqs, tReqs, alignerVars>>
    /\ N!PutTransactionCheck(m.t, "peer", m.origin)

\* The second step of either handler, and its send_sync to the aligner
\* (dispatcher.rs:336-343, 440-451).  Only ChanCap messages are queued at
\* once; what is sent to a halted aligner is never read and not kept.
DispatchApply ==
    /\ UNCHANGED <<net, bReqs, tReqs, alignerVars>>
    /\ \/ N!PutTransactionPool
       \/ N!GetBlockResApply
    /\ IF aph \in {"deadlock", "panicked"}
       THEN UNCHANGED chan
       ELSE /\ Len(chan) + Cardinality(N!ToAligner) <= ChanCap
            /\ chan' = chan \o SetToSeq(N!ToAligner)

ExecutorStep ==
    /\ UNCHANGED <<netVars, alignerVars>>
    /\ N!ExecutorNext

-----------------------------------------------------------------------------
(* The aligner task, Aligner::run_async.  Every receive takes the head of
   the channel: rx_chan.lock().poll_next_unpin(cx). *)

\* Local state of one alignment round, back to its initial values.
RoundLocals == <<attempt, over, req, todo, cidx>>
ClearRound ==
    /\ attempt' = 0 /\ over' = FALSE /\ req' = LastReq /\ todo' = {}
    /\ cidx' = 0

\* The aligner thread blocked forever or panicked.  Its locals are never
\* read again and nothing reads the channel any more: they are cleared.
Halted == {"deadlock", "panicked"}
Halt(ph) ==
    /\ aph' = ph
    /\ chan' = <<>>
    /\ votes' = {} /\ maxH' = 0 /\ local' = 0 /\ mblocks' = <<>>
    /\ ClearRound
    /\ UNCHANGED <<nodeVars, net, bReqs, tReqs, mtxs, unexpected, rounds>>

\* The receive in progress: the head of the channel is consumed.
Consume(m) ==
    /\ chan # <<>> /\ m = Head(chan)
    /\ chan' = Tail(chan)

\* wait_while on the status flag returns once the dispatcher clears it;
\* then a busy sleep and the broadcast GetBlockRequest(MAX, false), which
\* the peers answer with PeerAnnounce (aligner.rs:95-125).
AlignerWake ==
    /\ aph = "wait"
    /\ rounds < MaxRounds
    /\ rounds' = rounds + 1
    /\ aph' = "collect"
    /\ UNCHANGED <<netVars, votes, maxH, local, mblocks, mtxs, unexpected,
                   RoundLocals>>
    /\ N!AlignerWake

\* Peer collection: every GetBlockResponse is pushed to trusted_peers;
\* other messages are dropped (aligner.rs:131-155).
CollectReceive(m) ==
    /\ aph = "collect"
    /\ Consume(m)
    /\ m.kind = "block" => m.origin
    /\ votes' = IF m.kind = "block" THEN votes \cup {m.h} ELSE votes
    /\ UNCHANGED <<nodeVars, net, bReqs, tReqs, aph, maxH, local, mblocks,
                   mtxs, unexpected, RoundLocals, rounds>>

\* A gossiped block (origin None) forwarded by the dispatcher reaches the
\* collection: origin.unwrap() panics the aligner thread (aligner.rs:153).
CollectPanic(m) ==
    /\ aph = "collect"
    /\ chan # <<>> /\ m = Head(chan)
    /\ m.kind = "block" /\ ~m.origin
    /\ Halt("panicked")

\* The collection window ends; with no peer the round is over
\* (aligner.rs:157-166, 626).
CollectEnd ==
    /\ aph = "collect"
    /\ aph' = IF votes = {} THEN "reset" ELSE "filter"
    /\ UNCHANGED <<nodeVars, netVars, votes, maxH, local, mblocks, mtxs,
                   unexpected, RoundLocals, rounds>>

\* The peer trust_peers keeps: it reports the chosen block, above the
\* local_last read at aligner.rs:199.
Trusted(v, mostCommon) == v = mostCommon /\ v >= tip + 1

\* Choose the most common block and filter the trusted peers
\* (aligner.rs:166-212).  With at most LATEST_WINDOW distinct hashes the
\* choice is the highest block (sorted by height, .last()).
AlignerFilter ==
    /\ aph = "filter"
    /\ \A v \in votes : Trusted(v, Max(votes))
    /\ aph' = "blocksStart"
    /\ maxH' = Max(votes)
    /\ UNCHANGED <<nodeVars, netVars, votes, local, mblocks, mtxs, unexpected,
                   RoundLocals, rounds>>

\* Removing a peer re-locks trusted_peers while the for loop still holds
\* its guard (aligner.rs:200-205): the aligner blocks forever.
FilterDeadlock ==
    /\ aph = "filter"
    /\ \E v \in votes : ~Trusted(v, Max(votes))
    /\ Halt("deadlock")

\* Read local_last and ask a random trusted peer for its last block with
\* hashes (aligner.rs:214-245).
BlocksStart ==
    /\ aph = "blocksStart"
    /\ local' = tip
    /\ bReqs' = bReqs \cup {LastReq}
    /\ req' = LastReq
    /\ attempt' = 0
    /\ over' = FALSE
    /\ aph' = "blocks"
    /\ UNCHANGED <<nodeVars, chan, net, tReqs, votes, maxH, mblocks, mtxs,
                   unexpected, todo, cidx, rounds>>

\* The block gather is still receiving (aligner.rs:247).
Gathering(ph) == aph = ph /\ ~over /\ attempt < MAX_ATTEMPTS

\* Block gather, a message within the timeout (aligner.rs:248-315).  A block
\* with hashes above max_block_height is stashed; any other block with
\* hashes is taken as the next missing block, whatever its height, and the
\* previous height is requested until local_last + 1 is reached.
BlockReceive(m) ==
    /\ Gathering("blocks")
    /\ Consume(m)
    /\ IF m.kind = "block" /\ m.txs
       THEN IF m.h > maxH
            THEN /\ unexpected' = unexpected \cup {m.h}
                 /\ UNCHANGED <<bReqs, mblocks, mtxs, attempt, over, req>>
            ELSE /\ attempt' = 0
                 /\ mblocks' = Append(mblocks, m.h)
                 /\ mtxs' = mtxs \cup BlockTxs[m.h]
                 /\ IF m.h > local + 1
                    THEN /\ req' = m.h - 1
                         /\ bReqs' = bReqs \cup {m.h - 1}
                         /\ UNCHANGED over
                    ELSE over' = TRUE /\ UNCHANGED <<req, bReqs>>
                 /\ UNCHANGED unexpected
       ELSE UNCHANGED <<bReqs, mblocks, mtxs, unexpected, attempt, over, req>>
    /\ UNCHANGED <<nodeVars, net, tReqs, aph, votes, maxH, local, todo, cidx,
                   rounds>>

\* With debug logging enabled, the debug! of an expected block evaluates
\* origin.clone().unwrap() (aligner.rs:276-280): a gossiped block (origin
\* None) at or below max_block_height panics the aligner thread.
BlockReceiveDebugPanic(m) ==
    /\ Gathering("blocks")
    /\ chan # <<>> /\ m = Head(chan)
    /\ m.kind = "block" /\ m.txs /\ m.h <= maxH /\ ~m.origin
    /\ Halt("panicked")

\* Seeded fault: the timeout branch does not check the attempt bound.
BlockTimeoutUnbounded ==
    /\ aph = "blocks" /\ ~over
    /\ attempt' = attempt + 1
    /\ bReqs' = IF attempt + 1 < MAX_ATTEMPTS THEN bReqs \cup {req} ELSE bReqs
    /\ UNCHANGED <<nodeVars, chan, net, tReqs, aph, votes, maxH, local,
                   mblocks, mtxs, unexpected, over, req, todo, cidx, rounds>>

\* Block gather timeout: count the attempt and re-send the request to a
\* random trusted peer (aligner.rs:316-347).
BlockTimeout ==
    /\ Gathering("blocks")
    /\ attempt' = attempt + 1
    /\ bReqs' = IF attempt + 1 < MAX_ATTEMPTS THEN bReqs \cup {req} ELSE bReqs
    /\ UNCHANGED <<nodeVars, chan, net, tReqs, aph, votes, maxH, local,
                   mblocks, mtxs, unexpected, over, req, todo, cidx,
                   rounds>>

\* The oldest gathered block does not link to local_last.
Unlinked == mblocks[Len(mblocks)] - 1 # local

\* End of the block gather (aligner.rs:351-372): on to the transactions,
\* or give up when nothing was gathered or the attempts are used up.
BlockGatherEnd ==
    /\ aph = "blocks"
    /\ over \/ attempt >= MAX_ATTEMPTS
    /\ mblocks # <<>> /\ attempt >= MAX_ATTEMPTS => ~Unlinked
    /\ aph' = IF mblocks = <<>> \/ attempt >= MAX_ATTEMPTS THEN "reset"
              ELSE "txsStart"
    /\ UNCHANGED <<nodeVars, netVars, votes, maxH, local, mblocks, mtxs,
                   unexpected, RoundLocals, rounds>>

\* With the attempts used up and the oldest block unlinked, the code calls
\* missing_blocks.lock().first() inside the if-let that still holds
\* missing_blocks' guard (aligner.rs:352-359): the aligner blocks forever,
\* and the blacklist push at line 361 is never reached.
BlockGatherDeadlock ==
    /\ aph = "blocks"
    /\ attempt >= MAX_ATTEMPTS /\ mblocks # <<>> /\ Unlinked
    /\ Halt("deadlock")

\* Ask for the next hash of missing_txs, or end the gather.
RequestNext(S) ==
    IF S = {}
    THEN over' = TRUE /\ UNCHANGED <<req, todo, tReqs>>
    ELSE \E t \in S : /\ req' = t
                      /\ todo' = S \ {t}
                      /\ tReqs' = tReqs \cup {t}
                      /\ over' = FALSE

\* Transaction gather, first request: every hash of missing_txs, including
\* those left from earlier rounds, is requested in turn (aligner.rs:380-408).
TxsStart ==
    /\ aph = "txsStart"
    /\ attempt' = 0
    /\ aph' = "txs"
    /\ RequestNext(mtxs)
    /\ UNCHANGED <<nodeVars, chan, net, bReqs, votes, maxH, local, mblocks,
                   mtxs, unexpected, cidx, rounds>>

\* Transaction gather, a message within the timeout (aligner.rs:410-480):
\* the dispatcher's ack for the requested hash moves to the next one; a
\* block with hashes above max_block_height is stashed.
TxReceive(m) ==
    /\ Gathering("txs")
    /\ Consume(m)
    /\ CASE m.kind = "tx" /\ m.t = req ->
              /\ attempt' = 0
              /\ RequestNext(todo)
              /\ UNCHANGED unexpected
         [] m.kind = "block" /\ m.txs /\ m.h > maxH ->
              /\ unexpected' = unexpected \cup {m.h}
              /\ UNCHANGED <<attempt, over, req, todo, tReqs>>
         [] OTHER -> UNCHANGED <<unexpected, attempt, over, req, todo, tReqs>>
    /\ UNCHANGED <<nodeVars, net, bReqs, aph, votes, maxH, local, mblocks,
                   mtxs, cidx, rounds>>

\* With debug logging enabled, the debug! of the awaited transaction
\* evaluates origin.unwrap() (aligner.rs:430-435): the dispatcher's
\* forward of a gossiped transaction (origin None) panics the aligner.
TxReceiveDebugPanic(m) ==
    /\ Gathering("txs")
    /\ chan # <<>> /\ m = Head(chan)
    /\ m.kind = "tx" /\ m.t = req /\ ~m.origin
    /\ Halt("panicked")

\* Transaction gather timeout (aligner.rs:481-518).
TxTimeout ==
    /\ Gathering("txs")
    /\ attempt' = attempt + 1
    /\ tReqs' = IF attempt + 1 < MAX_ATTEMPTS THEN tReqs \cup {req} ELSE tReqs
    /\ UNCHANGED <<nodeVars, chan, net, bReqs, aph, votes, maxH, local,
                   mblocks, mtxs, unexpected, over, req, todo, cidx,
                   rounds>>

\* Seeded fault: the blocks are committed whatever the outcome of the
\* transaction gather.
TxGatherEndIgnoreOutcome ==
    /\ aph = "txs"
    /\ over \/ attempt >= MAX_ATTEMPTS
    /\ aph' = "commit" /\ cidx' = Len(mblocks)
    /\ UNCHANGED <<nodeVars, netVars, votes, maxH, local, mblocks, mtxs,
                   unexpected, attempt, over, req, todo, rounds>>

\* The outcome of the transaction gather (aligner.rs:521-538).
TxGatherEnd ==
    /\ aph = "txs"
    /\ over \/ attempt >= MAX_ATTEMPTS
    /\ IF attempt < MAX_ATTEMPTS
       THEN aph' = "commit" /\ cidx' = Len(mblocks)
       ELSE aph' = "reset" /\ UNCHANGED cidx
    /\ UNCHANGED <<nodeVars, netVars, votes, maxH, local, mblocks, mtxs,
                   unexpected, attempt, over, req, todo, rounds>>

\* Write missing_blocks into the pool, oldest first (aligner.rs:544-575).
CommitMissing ==
    /\ aph = "commit"
    /\ cidx >= 1
    /\ cidx' = cidx - 1
    /\ UNCHANGED <<netVars, aph, votes, maxH, local, mblocks, mtxs,
                   unexpected, attempt, over, req, todo, rounds>>
    /\ N!AlignerCommitBlock(mblocks[cidx])

\* Then the stashed blocks from trusted_peers[0] + 1 on, while the next
\* height is among them (aligner.rs:577-618).
CommitMissingEnd ==
    /\ aph = "commit"
    /\ cidx = 0
    /\ aph' = "replay"
    /\ cidx' = maxH + 1
    /\ UNCHANGED <<nodeVars, netVars, votes, maxH, local, mblocks, mtxs,
                   unexpected, attempt, over, req, todo, rounds>>

ReplayUnexpected ==
    /\ aph = "replay"
    /\ cidx \in unexpected
    /\ cidx' = cidx + 1
    /\ UNCHANGED <<netVars, aph, votes, maxH, local, mblocks, mtxs,
                   unexpected, attempt, over, req, todo, rounds>>
    /\ N!AlignerCommitBlock(cidx)

ReplayEnd ==
    /\ aph = "replay"
    /\ cidx \notin unexpected
    /\ aph' = "reset"
    /\ UNCHANGED <<nodeVars, netVars, votes, maxH, local, mblocks, mtxs,
                   unexpected, RoundLocals, rounds>>

\* Reset: trusted_peers and missing_blocks are cleared and the status flag
\* set; missing_txs, unexpected_blocks and the channel are kept
\* (aligner.rs:628-645).  The round's locals go out of scope.
AlignerReset ==
    /\ aph = "reset"
    /\ votes' = {} /\ mblocks' = <<>> /\ maxH' = 0 /\ local' = 0
    /\ aph' = "wait"
    /\ ClearRound
    /\ UNCHANGED <<netVars, mtxs, unexpected, rounds>>
    /\ N!AlignerReset
-----------------------------------------------------------------------------

Init ==
    /\ aph = "wait"
    /\ N!Init
    /\ chan = <<>> /\ net = {} /\ bReqs = {} /\ tReqs = {}
    /\ votes = {} /\ maxH = 0 /\ local = 0
    /\ mblocks = <<>> /\ mtxs = {} /\ unexpected = {}
    /\ attempt = 0 /\ over = FALSE /\ req = LastReq /\ todo = {} /\ cidx = 0
    /\ rounds = 0

EnvNext ==
    \/ Produce
    \/ \E h \in Heights : PeerAnnounce(h)
    \/ \E r \in bReqs, h \in Heights : PeerRespondBlock(r, h)
    \/ \E t \in tReqs : PeerRespondTx(t)
    \/ \E t \in Tx : GossipTx(t)
    \/ \E m \in net : LoseMessage(m)

DispatcherNext ==
    \/ \E m \in net : DeliverBlock(m) \/ DeliverTx(m)
    \/ DispatchApply

AlignerNext ==
    \/ AlignerWake
    \/ CollectReceive(Head(chan))
    \/ CollectPanic(Head(chan))
    \/ CollectEnd
    \/ AlignerFilter
    \/ FilterDeadlock
    \/ BlocksStart
    \/ BlockReceive(Head(chan))
    \/ BlockReceiveDebugPanic(Head(chan))
    \/ BlockTimeout
    \/ BlockGatherEnd
    \/ BlockGatherDeadlock
    \/ TxsStart
    \/ TxReceive(Head(chan))
    \/ TxReceiveDebugPanic(Head(chan))
    \/ TxTimeout
    \/ TxGatherEnd
    \/ CommitMissing
    \/ CommitMissingEnd
    \/ ReplayUnexpected
    \/ ReplayEnd
    \/ AlignerReset

Next ==
    \/ EnvNext
    \/ DispatcherNext
    \/ ExecutorStep
    \/ AlignerNext

Spec == Init /\ [][Next]_vars

\* The aligner is a thread of its own that busy-polls its channel and its
\* clock: every enabled step of it is eventually taken, and the collection
\* window and the gather timeouts eventually expire.
Fairness ==
    /\ WF_vars(AlignerNext)
    /\ WF_vars(CollectEnd)
    /\ WF_vars(BlockTimeout)
    /\ WF_vars(TxTimeout)

FairSpec == Spec /\ Fairness

-----------------------------------------------------------------------------
(* Properties *)

Phases == {"wait", "collect", "filter", "blocksStart", "blocks", "txsStart",
           "txs", "commit", "replay", "reset", "deadlock", "panicked"}

TypeOK ==
    /\ N!TypeOK
    /\ chan \in Seq(Msg) /\ Len(chan) <= ChanCap
    /\ net \subseteq Msg
    /\ bReqs \subseteq {LastReq} \cup Heights
    /\ tReqs \subseteq Tx
    /\ aph \in Phases
    /\ votes \subseteq Heights
    /\ maxH \in 0..MaxHeight
    /\ local \in 0..MaxHeight
    /\ mblocks \in Seq(Heights)
    /\ mtxs \subseteq Tx
    /\ unexpected \subseteq Heights
    /\ attempt \in 0..MAX_ATTEMPTS
    /\ over \in BOOLEAN
    /\ req \in {LastReq} \cup Heights \cup Tx
    /\ todo \subseteq Tx
    /\ cidx \in 0..Len(mblocks) \cup 0..MaxHeight + 1

\* Retries, late answers and duplicates notwithstanding, the blocks the
\* aligner commits (missing_blocks, aligner.rs:542-575) are exactly those
\* from local_last + 1 up to max_block_height: the backward gather
\* (aligner.rs:248-315) stops at local_last + 1 and skips no height.
CommitCoversGap ==
    aph \in {"commit", "replay"} => Range(mblocks) = local + 1..maxH

\* The blocks are committed only once every hash of missing_txs was acked
\* by the dispatcher: its body is in pool.txs, or the transaction is in the
\* store (aligner.rs:521-538 with dispatcher.rs:336-343).
TxsGatheredBeforeCommit ==
    aph \in {"commit", "replay"} =>
        \A t \in mtxs : poolTxs[t] = N!Body \/ t \in dbTxs

\* Every alignment the dispatcher starts ends: the aligner wakes on the
\* cleared status flag and its reset sets the flag back
\* (aligner.rs:98-103, 628-645), whatever the peers and the network do.
\* Rounds the model's bound does not let start are excluded.
AlignmentEnds == (~status /\ rounds < MaxRounds) ~> status

\* Spec section 4.4, step 3: the consensus selection discards the peers
\* that advertise another hash or a height at or below the local tip, and
\* the aligner goes on to the block gather (aligner.rs:166-245).
FilterEnds == (aph = "filter") ~> (aph = "blocksStart")

====
