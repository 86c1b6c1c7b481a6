----------------------------- MODULE MerkleLog ------------------------------
(***************************************************************************)
(* One partition of the Merkle event log (modules/events/events.service.ts *)
(* and utils/merkle.ts): events are appended as leaves of a tree that is   *)
(* extended incrementally, one stored node per statement; a closed         *)
(* partition's root is attested on chain and its events are served with    *)
(* inclusion proofs.  Ingestion is a sequence of separate statements.      *)
(*                                                                         *)
(* A leaf hash is <<e>>, hashPair(a, b) is <<a, b>>: collision-free, as    *)
(* SHA-256 over length-prefixed fields is assumed to be.                   *)
(***************************************************************************)
EXTENDS Integers, Sequences

CONSTANTS
  Ingester,     \* concurrent calls of ingestEvent
  MaxEvents,    \* bound: events 1..MaxEvents of the partition
  OverlapEvents,\* bound: events once ingestions overlapped or failed
  MaxRetries,   \* publication retries
  MerkleFaults  \* bound: crashes and failed publications

ASSUME MerkleLogAssumption ==
  /\ MaxEvents \in Nat /\ OverlapEvents \in Nat
  /\ MaxRetries \in Nat /\ MerkleFaults \in Nat

VARIABLES
  arrived,    \* events handed to an ingester so far: 1..arrived
  leafEvents, \* the Event table: leafEvents[i] has leafIndex i - 1
  nodes,      \* MerkleTreeState: a function on <<level, position>>
  partition,  \* MerklePartitionRoot: [status, root, count]
  attested,   \* on chain: the roots attested, and how many times in all
  ingPc, ing, \* ingesters: position and local variables
  closing,    \* closePartition: step, attempts left, the root it has read
  disturbed,  \* an ingestion overlapped another one or a close, or failed
              \* half-way (history)
  merkleFaults

merkleVars == <<arrived, leafEvents, nodes, partition, attested, ingPc, ing,
                closing, disturbed, merkleFaults>>

NoHash == <<>>
NoIngestion == [event |-> 0, leaf |-> 0, level |-> 0, pos |-> 0, hash |-> NoHash]
NotClosing == [step |-> "no", left |-> 0, root |-> NoHash]

MerkleTypeOK ==
  /\ arrived \in 0..MaxEvents /\ leafEvents \in Seq(1..MaxEvents)
  /\ Len(leafEvents) <= arrived
  /\ DOMAIN nodes \subseteq (0..MaxEvents) \X (0..MaxEvents)
  /\ partition.status \in {"none", "OPEN", "CLOSED", "PUBLISHED",
                           "PUBLICATION_FAILED"}
  /\ partition.count \in 0..Len(leafEvents)
  /\ ingPc \in [Ingester -> {"idle", "open", "insert", "leaf", "extend", "root"}]
  /\ closing.step \in {"no", "mark", "publish"}
  /\ closing.left \in 0..(MaxRetries + 1)
  /\ disturbed \in BOOLEAN /\ merkleFaults \in 0..MerkleFaults

MerkleInit ==
  /\ arrived = 0 /\ leafEvents = <<>> /\ nodes = <<>>
  /\ attested = [roots |-> {}, times |-> 0]
  /\ partition = [status |-> "none", root |-> NoHash, count |-> 0]
  /\ ingPc = [i \in Ingester |-> "idle"]
  /\ ing = [i \in Ingester |-> NoIngestion]
  /\ closing = NotClosing /\ disturbed = FALSE /\ merkleFaults = 0

-----------------------------------------------------------------------------
(* The tree *)

computeEventLeafHash(e) == <<e>>
hashPair(a, b) == <<a, b>>

\* ceil(log2(n)), and 0 for a tree of at most one leaf.
maxLevel(n) == CHOOSE l \in 0..n : n <= 2^l /\ \A k \in 0..(l - 1) : n > 2^k

\* The stored hash at a level and position, if there is one.
NodeAt(l, p) == IF <<l, p>> \in DOMAIN nodes THEN nodes[<<l, p>>] ELSE NoHash

\* The upsert of a node.
PutNode(l, p, h) ==
  nodes' = [k \in DOMAIN nodes \cup {<<l, p>>} |->
              IF k = <<l, p>> THEN h ELSE nodes[k]]

\* The levels of the tree over the stored leaves, rehashed from level 0: an
\* unpaired node is promoted as it is.
recomputeRootFromState ==
  LET n == Len(leafEvents)
      level[l \in 0..maxLevel(n)] ==
        IF l = 0 THEN [p \in 1..n |-> NodeAt(0, p - 1)]
        ELSE LET below == level[l - 1] IN
             [p \in 1..((Len(below) + 1) \div 2) |->
                IF 2 * p <= Len(below)
                THEN hashPair(below[2 * p - 1], below[2 * p])
                ELSE below[2 * p - 1]]
  IN  IF n = 0 THEN NoHash ELSE level[maxLevel(n)][1]

\* Nodes of a level of a tree with n leaves.
getLevelNodeCount(n, l) == (n + 2^l - 1) \div 2^l

\* Mutant: the right sibling is taken from one level up.
SiblingAbove(n, l, p) ==
  IF p % 2 = 1 THEN [side |-> "left", hash |-> NodeAt(l, p - 1)]
  ELSE IF p + 1 < getLevelNodeCount(n, l)
  THEN [side |-> "right", hash |-> NodeAt(l + 1, p + 1)]
  ELSE [side |-> "none", hash |-> NoHash]

\* The proof step of position p of level l; a promoted node has none.
getEventInclusionProof(n, l, p) ==
  IF p % 2 = 1 THEN [side |-> "left", hash |-> NodeAt(l, p - 1)]
  ELSE IF p + 1 < getLevelNodeCount(n, l)
  THEN [side |-> "right", hash |-> NodeAt(l, p + 1)]
  ELSE [side |-> "none", hash |-> NoHash]

\* The root a verifier computes for leaf p of a tree of n leaves.
verifyInclusionProof(n, p) ==
  LET climb[l \in 0..maxLevel(n)] ==
        IF l = 0 THEN computeEventLeafHash(leafEvents[p + 1])
        ELSE LET s == getEventInclusionProof(n, l - 1, p \div 2^(l - 1)) IN
             CASE s.side = "left"  -> hashPair(s.hash, climb[l - 1])
               [] s.side = "right" -> hashPair(climb[l - 1], s.hash)
               [] OTHER            -> climb[l - 1]
  IN  climb[maxLevel(n)]

-----------------------------------------------------------------------------
(* Ingestion *)

IngestTo(i, label) == ingPc' = [ingPc EXCEPT ![i] = label]

\* The call returns or throws.
IngestEnds(i) == IngestTo(i, "idle") /\ ing' = [ing EXCEPT ![i] = NoIngestion]

\* A new event, or the last one again: its leaf index is the number of events.
ingestEvent(i) ==
  /\ ingPc[i] = "idle"
  /\ \E e \in 1..MaxEvents :
       /\ e \in {arrived, arrived + 1} /\ arrived' = e
       /\ ing' = [ing EXCEPT ![i].event = e, ![i].leaf = Len(leafEvents)]
  /\ IngestTo(i, "open")
  /\ disturbed' = (\/ disturbed \/ closing # NotClosing
                   \/ \E j \in Ingester : ingPc[j] # "idle")
  /\ disturbed' => arrived' <= OverlapEvents
  /\ UNCHANGED <<leafEvents, nodes, partition, attested, closing, merkleFaults>>

\* The partition's row is found open, or created; a closed one is refused.
IngestOpen(i) ==
  /\ ingPc[i] = "open"
  /\ CASE partition.status = "none" ->
            /\ partition' = [status |-> "OPEN", count |-> 0,
                             root |-> computeEventLeafHash(ing[i].event)]
            /\ IngestTo(i, "insert") /\ UNCHANGED ing
       [] partition.status = "OPEN" ->
            IngestTo(i, "insert") /\ UNCHANGED <<partition, ing>>
       [] OTHER -> IngestEnds(i) /\ UNCHANGED partition
  /\ UNCHANGED <<arrived, leafEvents, nodes, attested, closing, disturbed,
                 merkleFaults>>

\* The event is inserted; it and its leaf index are unique.
IngestInsert(i) ==
  /\ ingPc[i] = "insert"
  /\ IF /\ ing[i].leaf = Len(leafEvents)
        /\ \A k \in 1..Len(leafEvents) : leafEvents[k] # ing[i].event
     THEN /\ leafEvents' = Append(leafEvents, ing[i].event)
          /\ IngestTo(i, "leaf") /\ UNCHANGED ing
     ELSE IngestEnds(i) /\ UNCHANGED leafEvents
  /\ UNCHANGED <<arrived, nodes, partition, attested, closing, disturbed,
                 merkleFaults>>

\* extendTreeIncremental: the leaf ...
ExtendLeaf(i) ==
  /\ ingPc[i] = "leaf"
  /\ LET h == computeEventLeafHash(ing[i].event) IN
     /\ PutNode(0, ing[i].leaf, h)
     /\ ing' = [ing EXCEPT ![i].pos = ing[i].leaf, ![i].hash = h]
  /\ IngestTo(i, "extend")
  /\ UNCHANGED <<arrived, leafEvents, partition, attested, closing, disturbed,
                 merkleFaults>>

\* ... and one node per level, up to the root: hashed with its left sibling
\* (with itself if there is none stored), or promoted.
extendTreeIncremental(i) ==
  /\ ingPc[i] = "extend"
  /\ LET v == ing[i]
         left == IF NodeAt(v.level, v.pos - 1) = NoHash THEN v.hash
                 ELSE NodeAt(v.level, v.pos - 1)
         h == IF v.pos % 2 = 1 THEN hashPair(left, v.hash) ELSE v.hash
     IN  IF v.level < maxLevel(v.leaf + 1)
         THEN /\ PutNode(v.level + 1, v.pos \div 2, h)
              /\ ing' = [ing EXCEPT ![i].level = @ + 1, ![i].pos = @ \div 2,
                                    ![i].hash = h]
              /\ UNCHANGED ingPc
         ELSE IngestTo(i, "root") /\ UNCHANGED <<nodes, ing>>
  /\ UNCHANGED <<arrived, leafEvents, partition, attested, closing, disturbed,
                 merkleFaults>>

\* Mutant: the count runs ahead of the events.
RootCountsAhead(i) ==
  /\ ingPc[i] = "root"
  /\ partition' = [partition EXCEPT !.root = ing[i].hash, !.count = ing[i].leaf + 2]
  /\ IngestEnds(i)
  /\ UNCHANGED <<arrived, leafEvents, nodes, attested, closing, disturbed,
                 merkleFaults>>

\* The partition's root and count, whatever its status is by now.
IngestRoot(i) ==
  /\ ingPc[i] = "root"
  /\ partition' = [partition EXCEPT !.root = ing[i].hash, !.count = ing[i].leaf + 1]
  /\ IngestEnds(i)
  /\ UNCHANGED <<arrived, leafEvents, nodes, attested, closing, disturbed,
                 merkleFaults>>

\* A statement fails or the process dies.
IngestFails(i) ==
  /\ ingPc[i] # "idle" /\ merkleFaults < MerkleFaults
  /\ merkleFaults' = merkleFaults + 1 /\ disturbed' = TRUE
  /\ IngestEnds(i)
  /\ UNCHANGED <<arrived, leafEvents, nodes, partition, attested, closing>>

-----------------------------------------------------------------------------
(* Closing *)

\* The row is read; a PUBLISHED one is left alone ...
closePartition ==
  /\ closing = NotClosing /\ partition.status \notin {"none", "PUBLISHED"}
  /\ closing' = [step |-> "mark", left |-> MaxRetries + 1, root |-> partition.root]
  /\ disturbed' = (disturbed \/ \E i \in Ingester : ingPc[i] # "idle")
  /\ UNCHANGED <<arrived, leafEvents, nodes, partition, attested, ingPc, ing,
                 merkleFaults>>

\* ... and marked CLOSED.
CloseMark ==
  /\ closing.step = "mark"
  /\ partition' = [partition EXCEPT !.status = "CLOSED"]
  /\ closing' = [closing EXCEPT !.step = "publish"]
  /\ UNCHANGED <<arrived, leafEvents, nodes, attested, ingPc, ing, disturbed,
                 merkleFaults>>

\* The contract call: each one is an attestation of its own.
Attest(r) == [roots |-> attested.roots \cup {r}, times |-> attested.times + 1]

\* One attempt at the publication: it succeeds; or it fails, perhaps only in
\* the row's update, and the last failure is final.
publishRootWithRetry ==
  /\ closing.step = "publish"
  /\ \/ /\ attested' = Attest(closing.root)
        /\ partition' = [partition EXCEPT !.status = "PUBLISHED"]
        /\ closing' = NotClosing /\ UNCHANGED merkleFaults
     \/ /\ merkleFaults < MerkleFaults /\ merkleFaults' = merkleFaults + 1
        /\ attested' \in {attested, Attest(closing.root)}
        /\ IF closing.left > 1
           THEN /\ closing' = [closing EXCEPT !.left = @ - 1]
                /\ UNCHANGED partition
           ELSE /\ partition' = [partition EXCEPT !.status = "PUBLICATION_FAILED"]
                /\ closing' = NotClosing
  /\ UNCHANGED <<arrived, leafEvents, nodes, ingPc, ing, disturbed>>

\* The closing process dies.
CloseFails ==
  /\ closing # NotClosing /\ merkleFaults < MerkleFaults
  /\ merkleFaults' = merkleFaults + 1 /\ closing' = NotClosing
  /\ UNCHANGED <<arrived, leafEvents, nodes, partition, attested, ingPc, ing,
                 disturbed>>

MerkleNext ==
  \/ \E i \in Ingester :
       \/ ingestEvent(i) \/ IngestOpen(i) \/ IngestInsert(i) \/ ExtendLeaf(i)
       \/ extendTreeIncremental(i) \/ IngestRoot(i) \/ IngestFails(i)
  \/ closePartition \/ CloseMark \/ publishRootWithRetry \/ CloseFails

\* For every tree size, one ingestion at a time: the root kept incrementally
\* is the one rehashed from the stored leaves, every inclusion proof served
\* leads to it, and nothing else is ever attested on chain, also when a
\* publication is retried or a close is repeated after a crash.  However
\* ingestions overlap, a second attestation takes a failure: a publication
\* whose answer or row update is lost is made again (closePartition's comment
\* promises a single one).
ProofsVerify ==
  /\ (~disturbed /\ \A i \in Ingester : ingPc[i] = "idle") =>
       LET n == Len(leafEvents) IN
       /\ n > 0 => partition.root = recomputeRootFromState
       /\ partition.count = n
       /\ \A p \in 0..(n - 1) : verifyInclusionProof(n, p) = partition.root
       /\ attested.roots \subseteq {partition.root}
  /\ attested.times <= merkleFaults + (IF partition.status = "PUBLISHED" THEN 1 ELSE 0)
=============================================================================
