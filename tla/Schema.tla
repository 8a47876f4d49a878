------------------------------- MODULE Schema -------------------------------
(***************************************************************************)
(* Admission checks of a transaction: the signature verification and the  *)
(* integrity check of src/base/schema.rs, as the dispatcher chains them in *)
(* put_transaction_internal (src/blockchain/dispatcher.rs:147-160).        *)
(*                                                                         *)
(* The transaction data are records whose fields are the ones the checks  *)
(* read.  A string field is abstracted to whether it is empty; networks    *)
(* and public keys are small sets.  The canonical encoding is injective,   *)
(* so a hash or a signature is a record holding what it is computed over:  *)
(* the hash is collision-free and a signature verifies only for the key    *)
(* and the data it was made with.  A client signs a transaction (or does   *)
(* not) and submits it once; the dispatcher's answer is res.               *)
(***************************************************************************)
EXTENDS Naturals, Sequences, SequencesExt

CONSTANTS
    Keys,          \* public keys (and the key pairs behind them)
    Nets,          \* network names; "" is the empty one
    EmptyChoices,  \* sets of the fields schema, account, nonce, method left empty
    MaxNodes,      \* bound on the nodes of a bulk
    NodeNetwork    \* the node's configured network (config.network)

VARIABLES tx, res
vars == <<tx, res>>

(* No signature yet, and no answer yet from the dispatcher.               *)
NoSig == [unsigned |-> TRUE]
Pending == [kind |-> "pending", ctx |-> ""]

(* Hashable::hash of a TransactionData: its encoding carries the variant *)
(* tag, so the hash tells the variants apart.                             *)
Hash(d) == [hashOf |-> d]

(* The sign and verify methods serialize the inner struct, without the    *)
(* variant tag: a BulkRootV1 and a V1 with the same fields encode alike.  *)
Encode(d) == IF d.type = "brv1" THEN [d EXCEPT !.type = "v1"] ELSE d

(* KeyPair::sign and PublicKey::verify over the encoding.                 *)
Sign(k, d) == [by |-> k, over |-> Encode(d)]
PkVerify(pk, d, sig) == sig = Sign(pk, d)

(* Results of the checks: Ok(()) or an Error with its kind and context.   *)
Ok == [kind |-> "ok", ctx |-> ""]
Err(k) == [kind |-> k, ctx |-> ""]
ErrCtx(k, c) == [kind |-> k, ctx |-> c]

(***************************************************************************)
(* The inputs.  TransactionDataV1 and BulkRootV1 share one record shape,   *)
(* TransactionDataBulkNodeV1 adds depends_on; TransactionDataBulkV1 holds  *)
(* a root and an optional list of nodes (hasNodes false for None), each a  *)
(* Transaction (schema.rs:27-105, 370-405).                                *)
(***************************************************************************)
UnitData(types) ==
    [type: types, empty: EmptyChoices, network: Nets, caller: Keys]

Roots == [type: {"brv1"}, empty: {{}}, network: Nets, caller: Keys]

(* The root of another bulk, made by another caller.                     *)
OtherRoot(r) == [r EXCEPT !.caller = CHOOSE k \in Keys : k # r.caller]

(* A node: a unit transaction signed by its own caller, or a bulk.        *)
NestedBulk ==
    [kind |-> "bulk", sig |-> NoSig,
     data |-> [type |-> "bv1", root |-> CHOOSE r \in Roots : TRUE,
               hasNodes |-> FALSE, nodes |-> <<>>]]

NodeTxs(r) ==
    { [kind |-> "unit", data |-> d, sig |-> Sign(d.caller, d)] :
        d \in [type: {"bnv1"}, empty: {{}}, network: Nets, caller: Keys,
               dep: {Hash(r), Hash(OtherRoot(r))}]
              \cup [type: {"v1"}, empty: {{}}, network: Nets, caller: Keys] }
    \cup {NestedBulk}

BulkData ==
    UNION { [type: {"bv1"}, root: {r}, hasNodes: {FALSE}, nodes: {<<>>}]
            \cup [type: {"bv1"}, root: {r}, hasNodes: {TRUE},
                   nodes: BoundedSeq(NodeTxs(r), MaxNodes)] : r \in Roots }

Data ==
    UnitData({"v1", "brv1"})
    \cup {[d EXCEPT !.type = "bnv1"] @@ [dep |-> Hash(OtherRoot(d))] :
            d \in UnitData({"brv1"})}
    \cup BulkData

(* Transaction::UnitTransaction or Transaction::BullkTransaction.         *)
Kinds == {"unit", "bulk"}

(***************************************************************************)
(* Getters of TransactionData (schema.rs:144-200).  A bulk answers with    *)
(* its root's fields; get_dependency exists for BulkNodeV1 only.           *)
(***************************************************************************)
GetCaller(d) == IF d.type = "bv1" THEN d.root.caller ELSE d.caller

GetNetwork(d) == IF d.type = "bv1" THEN d.root.network ELSE d.network

HasDependency(d) == d.type = "bnv1"

(***************************************************************************)
(* Signature verification.                                                 *)
(***************************************************************************)
(* TransactionDataV1::verify and TransactionDataBulkNodeV1::verify.       *)
SingleVerify(d, pk, sig) ==
    IF PkVerify(pk, d, sig) THEN Ok ELSE Err("InvalidSignature")

(* The loop of TransactionDataBulkV1::verify over the nodes: every node   *)
(* must be a unit BulkNodeV1 whose data verify with the key and the       *)
(* signature passed in, i.e. the bulk's.                                  *)
RECURSIVE NodesVerify(_, _, _)
NodesVerify(ns, pk, sig) ==
    IF ns = <<>> THEN Ok
    ELSE LET n == Head(ns) IN
         IF n.kind = "bulk" \/ n.data.type # "bnv1" THEN Err("WrongTxType")
         ELSE IF SingleVerify(n.data, pk, sig) # Ok THEN Err("InvalidSignature")
         ELSE NodesVerify(Tail(ns), pk, sig)

BulkVerify(d, pk, sig) ==
    IF ~PkVerify(pk, d, sig) THEN Err("InvalidSignature")
    ELSE IF ~d.hasNodes THEN Ok
    ELSE NodesVerify(d.nodes, pk, sig)

(* TransactionData::verify, reached through Transaction::verify.          *)
DataVerify(d, pk, sig) ==
    IF d.type \in {"v1", "bnv1"} THEN SingleVerify(d, pk, sig)
    ELSE IF d.type = "bv1" THEN BulkVerify(d, pk, sig)
    ELSE Err("NotImplemented")

(***************************************************************************)
(* Integrity check.                                                        *)
(***************************************************************************)
(* TransactionDataV1::check_integrity: schema, account, nonce, network    *)
(* and method are not empty.                                              *)
V1Integrity(d) ==
    IF d.empty = {} /\ d.network # "" THEN Ok ELSE Err("BrokenIntegrity")

(* The loop of TransactionDataBulkV1::check_integrity: per node, in       *)
(* order, the node type, then depends_on, then the network.               *)
RECURSIVE NodesIntegrity(_, _, _)

(* Mutant: the network of the nodes is not compared.                      *)
NodesIntegrityNoNetwork(ns, rootHash, net) ==
    IF ns = <<>> THEN Ok
    ELSE LET n == Head(ns) IN
         IF n.kind = "bulk" THEN Err("WrongTxType")
         ELSE IF ~HasDependency(n.data) THEN Err("NotImplemented")
         ELSE IF n.data.dep # rootHash
              THEN ErrCtx("BrokenIntegrity", "incoherent dependency")
         ELSE NodesIntegrity(Tail(ns), rootHash, net)

NodesIntegrity(ns, rootHash, net) ==
    IF ns = <<>> THEN Ok
    ELSE LET n == Head(ns) IN
         IF n.kind = "bulk" THEN Err("WrongTxType")
         ELSE IF ~HasDependency(n.data) THEN Err("NotImplemented")
         ELSE IF n.data.dep # rootHash
              THEN ErrCtx("BrokenIntegrity", "incoherent dependency")
         ELSE IF GetNetwork(n.data) # net
              THEN ErrCtx("BrokenIntegrity", "incoherent network")
         ELSE NodesIntegrity(Tail(ns), rootHash, net)

BulkIntegrity(d) ==
    IF ~d.hasNodes THEN Ok
    ELSE NodesIntegrity(d.nodes, Hash(d.root), GetNetwork(d.root))

(* TransactionData::check_integrity, reached through                     *)
(* Transaction::check_integrity.                                          *)
DataIntegrity(d) ==
    IF d.type = "bv1" THEN BulkIntegrity(d)
    ELSE IF d.type = "v1" THEN V1Integrity(d)
    ELSE Err("NotImplemented")

(* put_transaction_internal up to the network check: verify with the      *)
(* transaction's caller and signature, check integrity, compare networks. *)
(* The size bound is not reached by the bounded inputs; the store and     *)
(* pool lookups that follow are modelled in Node.                         *)
PutTransactionInternal(t) ==
    LET v == DataVerify(t.data, GetCaller(t.data), t.sig)
        i == DataIntegrity(t.data)
    IN  IF v # Ok THEN v
        ELSE IF i # Ok THEN i
        ELSE IF NodeNetwork # GetNetwork(t.data) THEN Err("BadNetwork")
        ELSE Ok

-----------------------------------------------------------------------------
Init ==
    /\ tx \in [kind: Kinds, data: Data, sig: {NoSig}]
    /\ res = Pending

(* Mutant: a bulk is signed over the data of its first node, as the     *)
(* comment above TransactionDataBulkV1::verify suggests.                  *)
SignTxFirstNode(k) ==
    /\ res = Pending
    /\ tx.sig = NoSig
    /\ tx.data.type # "brv1"
    /\ tx' = [tx EXCEPT !.sig =
                 Sign(k, IF tx.data.type = "bv1" /\ tx.data.nodes # <<>>
                         THEN tx.data.nodes[1].data ELSE tx.data)]
    /\ UNCHANGED res

(* TransactionData::sign (schema.rs:108-118) with the key pair of k: not  *)
(* implemented for BulkRootV1.  The key need not be the caller's.         *)
SignTx(k) ==
    /\ res = Pending
    /\ tx.sig = NoSig
    /\ tx.data.type # "brv1"
    /\ tx' = [tx EXCEPT !.sig = Sign(k, tx.data)]
    /\ UNCHANGED res

(* A bulk submitted with the signature of a V1 transaction that carries   *)
(* the fields of its root: such a signature exists whenever that unit     *)
(* transaction was signed, since both encode alike.                       *)
ReuseRootSignature(k) ==
    /\ res = Pending
    /\ tx.sig = NoSig
    /\ tx.data.type = "bv1"
    /\ tx' = [tx EXCEPT !.sig = Sign(k, tx.data.root)]
    /\ UNCHANGED res

(* The dispatcher handles the put-transaction request.                    *)
Submit ==
    /\ res = Pending
    /\ res' = PutTransactionInternal(tx)
    /\ UNCHANGED tx

Next ==
    \/ \E k \in Keys : SignTx(k)
    \/ \E k \in Keys : ReuseRootSignature(k)
    \/ Submit

Spec == Init /\ [][Next]_vars

-----------------------------------------------------------------------------
(***************************************************************************)
(* The rules of the specification (spec.md, section 3): a unit carries V1  *)
(* data signed by its caller, a bulk carries BulkV1 data signed by its    *)
(* root's caller; unit integrity wants schema, account, nonce, network and *)
(* method non-empty; every node of a bulk is a unit BulkNodeV1 whose       *)
(* depends_on is the hash of the root data and whose network is the root's. *)
(***************************************************************************)
SpecShape(t) ==
    \/ t.kind = "unit" /\ t.data.type = "v1"
    \/ t.kind = "bulk" /\ t.data.type = "bv1"

SpecSigner(t) == IF t.kind = "unit" THEN t.data.caller ELSE t.data.root.caller

SpecNetwork(t) == IF t.kind = "unit" THEN t.data.network ELSE t.data.root.network

BadDependency(d, n) ==
    n.kind = "unit" /\ n.data.type = "bnv1" /\ n.data.dep # Hash(d.root)

BadNetwork(d, n) ==
    n.kind = "unit" /\ n.data.type = "bnv1" /\ n.data.network # d.root.network

SpecIntegrity(d) ==
    \/ d.type = "v1" /\ d.empty = {} /\ d.network # ""
    \/ /\ d.type = "bv1"
       /\ d.hasNodes =>
            \A i \in DOMAIN d.nodes :
                LET n == d.nodes[i] IN
                /\ n.kind = "unit" /\ n.data.type = "bnv1"
                /\ ~BadDependency(d, n) /\ ~BadNetwork(d, n)

SpecAdmissible(t) ==
    /\ SpecShape(t)
    /\ PkVerify(SpecSigner(t), t.data, t.sig)
    /\ SpecIntegrity(t.data)
    /\ SpecNetwork(t) = NodeNetwork

-----------------------------------------------------------------------------
ResultKinds ==
    {"ok", "InvalidSignature", "WrongTxType", "NotImplemented",
     "BrokenIntegrity", "BadNetwork"}

TypeOK ==
    /\ tx.kind \in Kinds
    /\ tx.data \in Data
    /\ tx.sig \in {NoSig} \cup {Sign(k, tx.data) : k \in Keys}
                \cup IF tx.data.type = "bv1"
                    THEN {Sign(k, tx.data.root) : k \in Keys} ELSE {}
    /\ res \in {Pending} \cup [kind: ResultKinds,
                           ctx: {"", "incoherent dependency", "incoherent network"}]

(* check_integrity accepts exactly the data the specification's integrity *)
(* rules accept, and a BrokenIntegrity context names a rule that a node   *)
(* of the bulk really breaks (schema.rs:244-256, 322-367).  A bulk whose  *)
(* nodes are None is accepted by both (schema.rs:363; spec.md line 39),   *)
(* against the disabled dispatcher test put_bulk_transaction_without_nodes *)
(* (dispatcher.rs:826-845), which expects BrokenIntegrity for it.          *)
IntegrityAgrees ==
    LET d == tx.data
        r == DataIntegrity(d)
    IN  /\ (r = Ok) <=> SpecIntegrity(d)
        /\ r.ctx = "incoherent dependency" =>
              \E i \in DOMAIN d.nodes : BadDependency(d, d.nodes[i])
        /\ r.ctx = "incoherent network" =>
              \E i \in DOMAIN d.nodes : BadNetwork(d, d.nodes[i])

(* spec.md section 3: a bulk whose nodes are coherent and which is signed  *)
(* by its root's caller is admitted, like a valid unit transaction.        *)
ValidTxsAdmitted ==
    (res # Pending /\ SpecAdmissible(tx)) => res = Ok

====
