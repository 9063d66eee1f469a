-------------------------------- MODULE Merkle --------------------------------
(***************************************************************************)
(* The hash trees of @ordspv/core: merkle.ts, the txid and wtxid trees of  *)
(* a block, and witnesscommit.ts, the commitment of the second in the first. *)
(*                                                                         *)
(* A hash is the term that was hashed, so that equal hashes are equal      *)
(* terms: <<n>> is the id of a transaction, a pair hashes two nodes.       *)
(* Leaves are counted from 0 in positions and branches, as in the code.    *)
(***************************************************************************)
EXTENDS Integers, Sequences, FiniteSetsExt, SequencesExt

NoHash == <<>>            \* a refusal: no term hashes to it
ZERO32 == <<0>>
hashPair(a, b) == <<a, b>>

(* ------------------------------- merkle.ts ----------------------------- *)

Halved(width) == (width + 1) \div 2

treeHeight(leafCount) ==
  LET height[width \in 0 .. leafCount] == IF width <= 1 THEN 0 ELSE height[Halved(width)] + 1
  IN  height[leafCount]

\* The node at an index, an odd level's last node being its own partner.
Partner(level, i) == level[IF i \in DOMAIN level THEN i ELSE Len(level)]

Parents(level) ==
  [i \in 1 .. Halved(Len(level)) |-> hashPair(level[2 * i - 1], Partner(level, 2 * i))]

\* The levels of a tree, its leaves first.
Levels(leaves) ==
  LET level[h \in 0 .. treeHeight(Len(leaves))] ==
        IF h = 0 THEN leaves ELSE Parents(level[h - 1])
  IN  level

blockHashMerkleRoot(leaves) == Levels(leaves)[treeHeight(Len(leaves))][1]

\* The shape of CVE-2012-2459.
Mutated(level) ==
  Len(level) % 2 = 0 /\ level[Len(level)] = level[Len(level) - 1]

computeMerkleRoot(leaves) ==
  LET levels == Levels(leaves)
  IN  IF leaves = <<>> \/ \E h \in DOMAIN levels : Mutated(levels[h])
      THEN NoHash ELSE blockHashMerkleRoot(leaves)

buildMerkleBranch(leaves, pos) ==
  LET height == treeHeight(Len(leaves))
      levels == Levels(leaves)
      index[h \in 0 .. height] == IF h = 0 THEN pos ELSE index[h - 1] \div 2
      Sibling(level, i) == IF i % 2 = 1 THEN level[i] ELSE Partner(level, i + 2)
  IN  [h \in 1 .. height |-> Sibling(levels[h - 1], index[h - 1])]

\* A mutant: only the length of the branch is held against the count.
FoldAnyLevel(at, sibling) ==
  [node  |-> IF at.index % 2 = 1 THEN hashPair(sibling, at.node) ELSE hashPair(at.node, sibling),
   index |-> at.index \div 2, width |-> Halved(at.width), ok |-> at.ok]

\* One level of the fold.  A claimed width refuses a last node of an odd level
\* that is not its own partner, and equal nodes at the end of an even one.
FoldLevel(at, sibling) ==
  LET isLastOdd == at.index = at.width - 1 /\ at.width % 2 = 1
      inLastPair == at.width % 2 = 0 /\ at.index \div 2 = at.width \div 2 - 1
  IN  [node  |-> IF at.index % 2 = 1 THEN hashPair(sibling, at.node)
                                     ELSE hashPair(at.node, sibling),
       index |-> at.index \div 2,
       width |-> Halved(at.width),
       ok    |-> /\ at.ok
                 /\ at.width > 0 /\ isLastOdd => sibling = at.node
                 /\ at.width > 0 /\ inLastPair => sibling # at.node]

\* The root a branch folds to; NoHash when it is refused.  A count of 0 is none.
verifyMerkleBranch(leaf, branch, pos, txCount) ==
  LET start == [node |-> leaf, index |-> pos, width |-> txCount, ok |-> TRUE]
      at[h \in 0 .. Len(branch)] == IF h = 0 THEN start ELSE FoldLevel(at[h - 1], branch[h])
      end == at[Len(branch)]
  IN  IF /\ txCount > 0 => pos < txCount /\ Len(branch) = treeHeight(txCount)
         /\ end.ok /\ end.index = 0
      THEN end.node ELSE NoHash

(* --------------------------- witnesscommit.ts -------------------------- *)

(* A coinbase is [txid, coinbase, commitments, reserved]: the commitments   *)
(* of its matching outputs in order, and its witness items.  The txid is   *)
(* a hash of the outputs and not of the witness.                           *)

\* A mutant: the first matching output is taken.
FirstCommitment(coinbase) ==
  IF coinbase.commitments = <<>> THEN NoHash ELSE Head(coinbase.commitments)

findWitnessCommitment(coinbase) ==
  IF coinbase.commitments = <<>> THEN NoHash ELSE Last(coinbase.commitments)

computeWitnessCommitment(witnessRoot, reserved) == hashPair(witnessRoot, reserved)

computeWitnessRootFromWtxids(wtxids) == computeMerkleRoot([wtxids EXCEPT ![1] = ZERO32])

(* A section is [coinbase, coinbaseTxidBranch, wtxidBranch].               *)
verifyWitnessAnchoring(section, merkleRoot, txCount, wtxid, pos) ==
  LET coinbase == section.coinbase
      witnessRoot == verifyMerkleBranch(wtxid, section.wtxidBranch, pos, txCount)
  IN  /\ coinbase.coinbase
      /\ verifyMerkleBranch(coinbase.txid, section.coinbaseTxidBranch, 0, txCount) = merkleRoot
      /\ findWitnessCommitment(coinbase) # NoHash
      /\ Len(coinbase.reserved) = 1
      /\ witnessRoot # NoHash /\ pos # 0
      /\ pos = 1 => section.wtxidBranch[1] = ZERO32
      /\ findWitnessCommitment(coinbase)
           = computeWitnessCommitment(witnessRoot, coinbase.reserved[1])
=============================================================================
