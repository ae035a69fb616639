---------------------------- MODULE BlockTemplate ----------------------------
(***************************************************************************)
(* The block that is mined and the block that is submitted.  BlockTemplate *)
(* parses the daemon's template and computes the Merkle root, with the     *)
(* branch that leads from the coinbase to it; DaemonClient::installTemplate*)
(* writes entropy into the coinbase; Miner::setJob changes the coinbase    *)
(* again for each miner and computes the root from the branch;             *)
(* DaemonClient::submit makes the same changes in the full block.          *)
(*                                                                         *)
(* A hash is the term that it is the hash of.  A coinbase is the output    *)
(* key, the view tag and the fields of tx extra; an offset is the number   *)
(* of a field.  The reserve of 16 bytes is its first four bytes, where an  *)
(* extra nonce goes, and the rest.                                         *)
(***************************************************************************)
EXTENDS Integers, SequencesExt

CONSTANTS
    OtherTxs,       \* numbers of other transactions in a template
    ExtraLayouts,   \* kinds of the fields of tx extra
    MaxMinerId,     \* ids of miners
    MaxTemplates,   \* bound: templates that are installed
    TaggedExtra     \* bound: extra_nonce mode with outputs that have a view tag

FieldKinds == {"pubkey", "nonce", "merge", "unknown"}

ASSUME BlockAssumption ==
    /\ OtherTxs \subseteq Nat /\ ExtraLayouts \subseteq Seq(FieldKinds)
    /\ MaxMinerId \in Nat /\ MaxTemplates \in Nat /\ TaggedExtra \in BOOLEAN

BMiners == 1..MaxMinerId

VARIABLES
    shape,      \* what the daemon's templates are like, and the mode
    contexts,   \* m_contexts: the block of each job; its place is the job's id
    storage,    \* job: m_job of the storage; next: its m_extraNonce
    keys,       \* transaction keys generated
    work,       \* m_telemetryJobs of each miner, or Gone
    block       \* the block submitted last, and what its miner had hashed

blockVars == <<shape, contexts, storage, keys, work, block>>

NoTx == [key |-> 0, tag |-> 0, extra |-> <<>>]
Leaf(i) == [tx |-> NoTx, other |-> i, kids |-> <<>>]
Pair(l, r) == [tx |-> NoTx, other |-> 0, kids |-> <<l, r>>]

\* calculateMinerTxHash.
minerTxHash(tx) == [tx |-> tx, other |-> 0, kids |-> <<>>]

(***************************************************************************)
(* The Merkle tree                                                         *)
(***************************************************************************)

\* One pass of a loop of calculateMerkleTreeHash: the first k hashes are kept
\* and the others hashed in pairs; the neighbour of the coinbase's hash goes to
\* the branch, and whether it is the left one to the path, bit by bit.
mergePairs(t, k) ==
    LET hs == t.hashes
        next == [j \in 1..(k + (Len(hs) - k) \div 2) |-> IF j <= k THEN hs[j] ELSE Pair(hs[2 * j - k - 1], hs[2 * j - k])]
        hit == {i \in (k + 1)..Len(hs) : hs[i] = t.mine}
        i == CHOOSE i \in hit : TRUE
        bit == IF (i - k) % 2 = 0 THEN 1 ELSE 0
    IN  IF hit = {} THEN [t EXCEPT !.hashes = next]
        ELSE [hashes |-> next,
              mine |-> IF bit = 1 THEN Pair(hs[i - 1], hs[i]) ELSE Pair(hs[i], hs[i + 1]),
              branch |-> Append(t.branch, IF bit = 1 THEN hs[i - 1] ELSE hs[i + 1]),
              path |-> Append(t.path, bit)]

\* The leaves of full trees of each depth: cnt of the first loop.
fullTrees(n) ==
    LET cnt[d \in 0..n] == IF d = 0 THEN 1 ELSE 2 * cnt[d - 1]
    IN  cnt

\* The depth of the largest full tree with at most n leaves.
depthOf(n) == CHOOSE d \in 0..n : fullTrees(n)[d] <= n /\ n < 2 * fullTrees(n)[d]

\* calculateMerkleTreeHash; one or two hashes are not really special.
calculateMerkleTreeHash(hs, index) ==
    LET depth == depthOf(Len(hs))
        start == [hashes |-> hs, mine |-> hs[index], branch |-> <<>>, path |-> <<>>]
        level[n \in 0..depth] ==
            IF n = 0 THEN mergePairs(start, 2 * fullTrees(Len(hs))[depth] - Len(hs)) ELSE mergePairs(level[n - 1], 0)
    IN  [root |-> level[depth].hashes[1], branch |-> level[depth].branch, path |-> level[depth].path]

\* Mutant: the path is read from the other end.
calculateRootHashSwapped(tx, branch, path) ==
    LET up[d \in 0..Len(branch)] ==
            IF d = 0 THEN minerTxHash(tx)
            ELSE IF path[Len(branch) - d + 1] = 1 THEN Pair(branch[d], up[d - 1]) ELSE Pair(up[d - 1], branch[d])
    IN  up[Len(branch)]

\* calculateRootHash: up the branch.
calculateRootHash(tx, branch, path) ==
    LET up[d \in 0..Len(branch)] ==
            IF d = 0 THEN minerTxHash(tx)
            ELSE IF path[d] = 1 THEN Pair(branch[d], up[d - 1]) ELSE Pair(up[d - 1], branch[d])
    IN  up[Len(branch)]

(***************************************************************************)
(* BlockTemplate::parse                                                    *)
(***************************************************************************)

\* The hashes of a block: with FCMP++ two of the curve tree come first.
coinbaseIndex(b) == IF b.carrot THEN 3 ELSE 1

hashesOf(b) ==
    (IF b.carrot THEN <<Leaf(-1), Leaf(-2)>> ELSE <<>>)
        \o <<minerTxHash(b.tx)>> \o [i \in 1..b.others |-> Leaf(i)]

FieldsOf(tx, kd) == {i \in DOMAIN tx.extra : tx.extra[i].kind = kd}

\* The first public key and the last nonce count; an unknown field is refused.
parse(b) ==
    LET pubs == FieldsOf(b.tx, "pubkey")
        nonces == FieldsOf(b.tx, "nonce")
        tree == calculateMerkleTreeHash(hashesOf(b), coinbaseIndex(b))
    IN  [valid |-> FieldsOf(b.tx, "unknown") = {},
         pubkey |-> IF pubs = {} THEN 0 ELSE Min(pubs),
         nonce |-> IF nonces = {} THEN 0 ELSE Max(nonces),
         root |-> tree.root, branch |-> tree.branch, path |-> tree.path]

(***************************************************************************)
(* DaemonClient::installTemplate                                           *)
(***************************************************************************)

\* The template of generation g, as the daemon made it.
Template(g) ==
    [carrot |-> shape.output = "carrot", others |-> shape.others,
     tx |-> [key |-> -g, tag |-> -g,
             extra |-> [i \in DOMAIN shape.extra |-> [kind |-> shape.extra[i], head |-> -g, rest |-> -g]]]]

hasViewTag == shape.output = "tagged"

\* prepareSpendKey: a coinbase that must be signed needs the pool's key.
prepareSpendKey == shape.signed => shape.spendKey

\* The job made from block b, whose coinbase Miner::setJob changes in place.
NewJob(id, b) ==
    LET p == parse(b)
    IN  [id |-> id, prefix |-> b.tx, raw |-> p.root, pubkey |-> p.pubkey, nonce |-> p.nonce,
         branch |-> p.branch, path |-> p.path]

NoJob == [id |-> 0]
Gone == <<[id |-> -1]>>

(***************************************************************************)
(* Miner::setJob                                                           *)
(***************************************************************************)

\* generateSignatureData: a new key k of the transaction, from which the keys in
\* the coinbase follow.
generateSignatureData(job, tx, k) ==
    [tx EXCEPT !.key = k, !.extra[job.pubkey].head = k, !.extra[job.pubkey].rest = k]

setViewTagInMinerTx(tx, tag) == [tx EXCEPT !.tag = tag]

setExtraNonceInMinerTx(job, tx, extra) == [tx EXCEPT !.extra[job.nonce].head = extra]

\* The changes of setJob; the view tag is 0 for a job without a signature.
minerTx(job, k, extra) ==
    LET signed == IF shape.signed THEN generateSignatureData(job, job.prefix, k) ELSE job.prefix
        tagged == IF hasViewTag THEN setViewTagInMinerTx(signed, IF shape.signed THEN k ELSE 0) ELSE signed
    IN  IF extra >= 0 THEN setExtraNonceInMinerTx(job, tagged, extra) ELSE tagged

\* generateHashingBlob: the root is computed again from the branch.
generateHashingBlob(job, tx) == calculateRootHash(tx, job.branch, job.path)

\* What is remembered of the job that was sent.
rememberJob(job, root, k, extra) == [id |-> job.id, root |-> root, key |-> k, extra |-> extra]

\* The blob of the job is sent as it is unless its coinbase was changed.
setJob(job, k, extra) ==
    LET tx == minerTx(job, k, extra)
        root == IF shape.signed \/ extra >= 0 THEN generateHashingBlob(job, tx) ELSE job.raw
    IN  [job |-> [job EXCEPT !.prefix = tx], telemetry |-> rememberJob(job, root, k, extra)]

\* The job of the storage is sent to miner m.
sendTo(w, m) ==
    LET out == setJob(w.storage.job, w.keys + 1, IF shape.extraNonce THEN w.storage.next ELSE -1)
    IN  [storage |-> [job |-> out.job, next |-> w.storage.next + 1],
         keys |-> IF shape.signed THEN w.keys + 1 ELSE w.keys,
         work |-> [w.work EXCEPT ![m] = <<out.telemetry>> \o w.work[m]]]

SendJobs(w) == storage' = w.storage /\ keys' = w.keys /\ work' = w.work

\* A snapshot of the source: reserved is reserved_offset; agrees, whether
\* blockhashing_blob is that of the template, which is checked for Monero.
\* The storage gives the job to its miners in the order of their ids.
InstallTemplate(reserved, agrees) ==
    LET id == Len(contexts) + 1
        original == Template(id)
        p == parse(original)
        mutated == [original EXCEPT !.tx.extra[p.nonce].head = 100 + id, !.tx.extra[p.nonce].rest = 100 + id]
        start == [storage |-> [job |-> NewJob(id, mutated), next |-> 0], keys |-> keys, work |-> work]
        sent[m \in 0..MaxMinerId] ==
            IF m = 0 THEN start ELSE IF work[m] = Gone THEN sent[m - 1] ELSE sendTo(sent[m - 1], m)
    IN  /\ id <= MaxTemplates
        /\ p.valid /\ (agrees \/ shape.signed)
        /\ p.nonce # 0 /\ reserved = p.nonce
        /\ prepareSpendKey
        /\ contexts' = Append(contexts, mutated)
        /\ SendJobs(sent[MaxMinerId])
        /\ UNCHANGED <<shape, block>>

\* A miner comes: an active storage gives it the job.
MinerJoins(m) ==
    LET in == [work EXCEPT ![m] = <<>>]
    IN  /\ work[m] = Gone
        /\ IF storage.job = NoJob THEN work' = in /\ UNCHANGED <<storage, keys>>
           ELSE SendJobs(sendTo([storage |-> storage, keys |-> keys, work |-> in], m))
        /\ UNCHANGED <<shape, contexts, block>>

(***************************************************************************)
(* DaemonClient::submit                                                    *)
(***************************************************************************)

\* What the miner sent is written to the job's block; t is what was remembered
\* of the job when it was sent.
finalBlock(b, t) ==
    LET p == parse(b)
        signed == IF shape.signed
                  THEN [b EXCEPT !.tx.key = t.key, !.tx.extra[p.pubkey].head = t.key,
                                 !.tx.extra[p.pubkey].rest = t.key,
                                 !.tx.tag = IF hasViewTag THEN t.key ELSE b.tx.tag]
                  ELSE b
    IN  IF t.extra >= 0 THEN [signed EXCEPT !.tx.extra[p.nonce].head = t.extra] ELSE signed

SubmitBlock(m, i) ==
    LET t == work[m][i]
        final == finalBlock(contexts[t.id], t)
    IN  /\ work[m] # Gone /\ parse(final).valid
        /\ block' = [sent |-> final, root |-> t.root, id |-> t.id]
        /\ UNCHANGED <<shape, contexts, storage, keys, work>>

\* Wownero blocks are signed and have no FCMP++.
BlockInit ==
    /\ shape \in [signed : BOOLEAN, spendKey : BOOLEAN, output : {"plain", "tagged", "carrot"}, others : OtherTxs,
                  extra : ExtraLayouts, extraNonce : BOOLEAN]
    /\ shape.spendKey => shape.signed
    /\ shape.signed => shape.output # "carrot" /\ \E i \in DOMAIN shape.extra : shape.extra[i] = "pubkey"
    /\ (shape.extraNonce /\ shape.output = "tagged" /\ ~shape.signed) => TaggedExtra
    /\ contexts = <<>> /\ keys = 0
    /\ storage = [job |-> NoJob, next |-> 0]
    /\ work = [m \in BMiners |-> Gone]
    /\ block = [sent |-> Template(0), root |-> Leaf(0), id |-> 0]

BlockNext ==
    \/ \E i \in DOMAIN shape.extra, agrees \in BOOLEAN : InstallTemplate(i, agrees)
    \/ \E m \in BMiners : MinerJoins(m) \/ \E i \in DOMAIN work[m] : SubmitBlock(m, i)

(***************************************************************************)
(* Properties                                                              *)
(***************************************************************************)

\* tree_hash of the network: a full tree, some leaves of which are pairs.
TreeHash(hs) ==
    LET depth == depthOf(Len(hs))
        full == fullTrees(Len(hs))[depth]
        single == 2 * full - Len(hs)
        row[height \in 0..depth] ==
            IF height = 0
            THEN [j \in 1..full |-> IF j <= single THEN hs[j] ELSE Pair(hs[2 * j - single - 1], hs[2 * j - single])]
            ELSE [j \in 1..(Len(row[height - 1]) \div 2) |->
                     Pair(row[height - 1][2 * j - 1], row[height - 1][2 * j])]
    IN  row[depth][1]

\* The block that is submitted is the one that its miner hashed: its Merkle
\* root is that of the hashing blob, whatever miners and jobs came since, for
\* every number of transactions and place of the coinbase.  Unless the coinbase
\* is signed it pays as the daemon's template does and differs from it in the
\* reserve only (BlockTemplate::calculateMerkleTreeHash, calculateRootHash,
\* DaemonClient::installTemplate, submit, Miner::setJob).
BlockIsMined ==
    block.id # 0 =>
        /\ TreeHash(hashesOf(block.sent)) = block.root
        /\ ~shape.signed =>
             LET tx == block.sent.tx
                 made == Template(block.id).tx
             IN  /\ tx.key = made.key /\ tx.tag = made.tag
                 /\ Cardinality({i \in DOMAIN tx.extra : tx.extra[i] # made.extra[i]}) = 1
=============================================================================
