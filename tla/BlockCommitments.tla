--------------------------- MODULE BlockCommitments ---------------------------
(***************************************************************************)
(* What a block commits to, and what a server that holds everything can    *)
(* make a verifier accept about it.  The block grows by one transaction at *)
(* a time; the invariants range over all the claims that could be made of  *)
(* it: the wrong leaf, place, count or coinbase witness, and branches of   *)
(* any nodes.  A node of another level cannot be on a path to the root, a  *)
(* hash being the term that was hashed, so those are left out.             *)
(***************************************************************************)
EXTENDS Merkle

CONSTANT MaxTxs           \* a bound on the block

ASSUME BlockAssumption == MaxTxs \in Nat

VARIABLE blockTxs         \* how many transactions the block has

BlockInit == blockTxs = 0

AddTx == blockTxs < MaxTxs /\ blockTxs' = blockTxs + 1

BlockSpec == BlockInit /\ [][AddTx]_blockTxs

\* Ids are numbers: a txid, a wtxid, and those of transactions that do not exist.
TxId(i) == <<2 * i>>
WtxId(i) == <<2 * i + 1>>
Forged == <<-1>>
Reserved == <<-2>>
OtherReserved == <<-3>>

Txids == [i \in 1 .. blockTxs |-> TxId(i)]
Wtxids == [i \in 1 .. blockTxs |-> WtxId(i)]

\* All the branches of a depth whose nodes these trees have at their levels.
Branches(trees, depth) ==
  LET nodes == [h \in 1 .. depth |->
                  {Forged} \cup UNION {ToSet(Levels(t)[h - 1]) :
                                        t \in {t \in trees : treeHeight(Len(t)) >= h}}]
  IN  {branch \in [1 .. depth -> UNION {nodes[h] : h \in 1 .. depth}] :
         \A h \in 1 .. depth : branch[h] \in nodes[h]}

\* The counts that have the depth of the block's tree.
Counts == {c \in 1 .. 2 * MaxTxs : treeHeight(c) = treeHeight(blockTxs)}
Places == 0 .. 2 ^ treeHeight(blockTxs) - 1

(* Two lists of ids that both have a root do not share it: the duplicated  *)
(* tail of CVE-2012-2459 is refused at whichever level it shows.           *)
RootIsOfOneList ==
  LET Lists == {s \in SeqOf({TxId(1), TxId(2)}, blockTxs) : computeMerkleRoot(s) # NoHash}
  IN  IsInjective([s \in Lists |-> computeMerkleRoot(s)])

(***************************************************************************)
(* A root is of one list of transactions, and an accepted branch names the *)
(* transaction at the claimed place of it, whatever count of the same      *)
(* depth is claimed with it: the padding of an odd level is a place no     *)
(* leaf can be shown at.  Without a count a leaf of the block is shown all *)
(* the same.  Every leaf has an accepted branch under the true count, in   *)
(* the block's tree and in the tree over the hashes of a chain.            *)
(***************************************************************************)
BranchPinsPosition ==
  LET root == computeMerkleRoot(Txids)
  IN  blockTxs > 0 =>
      /\ root # NoHash /\ root = blockHashMerkleRoot(Txids)
      /\ RootIsOfOneList
      /\ \A i \in 1 .. blockTxs :
           verifyMerkleBranch(TxId(i), buildMerkleBranch(Txids, i - 1), i - 1, blockTxs) = root
      /\ \A branch \in Branches({Txids}, treeHeight(blockTxs)), pos \in Places :
           \A leaf \in ToSet(Txids) \cup {Forged} :
             /\ \A count \in Counts :
                  verifyMerkleBranch(leaf, branch, pos, count) = root
                    => pos < blockTxs /\ leaf = TxId(pos + 1)
             /\ verifyMerkleBranch(leaf, branch, pos, 0) = root => leaf \in ToSet(Txids)

-----------------------------------------------------------------------------
(* The block's coinbase commits to the wtxids.  Its miner may have put     *)
(* other outputs of the same form before it, here one that commits to a    *)
(* block in which another witness is shown.                                *)

ForgedWtxids == [Wtxids EXCEPT ![blockTxs] = Forged]

Commitments ==
  {<<>>} \cup
  {[i \in DOMAIN trees |->
      computeWitnessCommitment(computeWitnessRootFromWtxids(trees[i]), Reserved)] :
    trees \in {<<Wtxids>>, <<ForgedWtxids, Wtxids>>}}

\* A coinbase a server can show: its outputs are the block's or its txid is
\* not; its witness is anyone's.
Shown(commitments) ==
  [txid : {TxId(1)}, coinbase : {TRUE}, commitments : {commitments},
   reserved : {<<>>, <<Reserved>>, <<OtherReserved>>}]
  \cup
  {[txid |-> IF t = 1 THEN Forged ELSE TxId(t), coinbase |-> t = 1, reserved |-> <<Reserved>>,
    commitments |-> <<computeWitnessCommitment(computeWitnessRootFromWtxids(ForgedWtxids),
                                               Reserved)>>] : t \in {1, blockTxs}}

(***************************************************************************)
(* A witness section is accepted only for the witness the block has at the *)
(* claimed place, whatever coinbase witness, branches and count come with  *)
(* it, and the section a full block yields is accepted.                    *)
(***************************************************************************)
CommitmentPinsWitness ==
  LET root == computeMerkleRoot(Txids)
      zeroed == [Wtxids EXCEPT ![1] = ZERO32]
      Section(coinbase, branch) == [coinbase |-> coinbase, wtxidBranch |-> branch,
                                    coinbaseTxidBranch |-> buildMerkleBranch(Txids, 0)]
      Claims == Places \X (ToSet(Wtxids) \cup {Forged}) \X Counts
  IN  blockTxs > 0 => \A commitments \in Commitments, depth \in {treeHeight(blockTxs)} :
        /\ \A coinbase \in Shown(commitments), branch \in Branches({zeroed, ForgedWtxids}, depth) :
             LET section == Section(coinbase, branch)
             IN  \A claim \in Claims :
                   verifyWitnessAnchoring(section, root, claim[3], claim[2], claim[1])
                     => claim[1] \in 1 .. blockTxs - 1 /\ claim[2] = WtxId(claim[1] + 1)
        /\ commitments # <<>> =>
             \A i \in 2 .. blockTxs :
               verifyWitnessAnchoring(
                 Section([txid |-> TxId(1), coinbase |-> TRUE, commitments |-> commitments,
                          reserved |-> <<Reserved>>], buildMerkleBranch(zeroed, i - 1)),
                 root, blockTxs, WtxId(i), i - 1)
=============================================================================
