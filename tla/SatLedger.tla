------------------------------ MODULE SatLedger ------------------------------
(***************************************************************************)
(* A chain that carries its sats with it: the reference for SatSpace.      *)
(* Every output holds the sats themselves, which ordinal theory moves      *)
(* first in, first out; a coinbase mints the subsidy's and takes the       *)
(* block's fees after them.  The code never sees this.  It sees values,    *)
(* and walks them back and forth, one transaction at a time.               *)
(*                                                                         *)
(* The ledger is consensus, external to the repository.                    *)
(***************************************************************************)
EXTENDS SatSpace

VARIABLES
  txs,     \* the transactions, in the order of the chain; coinbases have a height
  holds,   \* holds[t][v]: the sats of output v, each [sat, fee]: has it been a fee
  unspent, \* the outpoints not spent yet
  fees,    \* the fee sats of the block that is being assembled
  minted,  \* where each sat was minted, in the order of their numbers
  height,  \* the height of the next block
  reward   \* its subsidy, by halving

ledgerVars == <<txs, holds, unspent, fees, minted, height, reward>>

LedgerInit ==
  /\ txs = <<>> /\ holds = <<>> /\ unspent = {} /\ fees = <<>> /\ minted = <<>>
  /\ height = 0 /\ reward = InitialSubsidy

Outpoint(t, v) == [tx |-> t, vout |-> v]

\* A stream of sats cut into outputs of these values; the rest is left over.
Cut(stream, values) ==
  [v \in DOMAIN values |-> SubSeq(stream, SumBefore(values, v) + 1, SumBefore(values, v + 1))]
Rest(stream, values) == SubSeq(stream, Sum(values) + 1, Len(stream))

Transact(inputs, outputs, coinbase, stream) ==
  /\ txs' = Append(txs, [inputs |-> inputs, outputs |-> outputs, coinbase |-> coinbase,
                         height |-> IF coinbase THEN height ELSE -1])
  /\ holds' = Append(holds, Cut(stream, outputs))
  /\ unspent' = (unspent \ ToSet(inputs))
                  \cup {Outpoint(Len(txs) + 1, v) : v \in DOMAIN outputs}

Held(outpoint) == holds[outpoint.tx][outpoint.vout]

Spends == {t \in DOMAIN txs : ~txs[t].coinbase}

\* A transaction of the block under way pays out what it spends, or less.
Spend(inputs, outputs) ==
  LET stream == FlattenSeq([i \in DOMAIN inputs |-> Held(inputs[i])])
      rest   == Rest(stream, outputs)
  IN  /\ inputs # <<>> /\ IsInjective(inputs) /\ Sum(outputs) <= Len(stream)
      /\ Transact(inputs, outputs, FALSE, stream)
      /\ fees' = fees \o [i \in 1 .. Len(rest) |-> [rest[i] EXCEPT !.fee = TRUE]]
      /\ UNCHANGED <<minted, height, reward>>

\* The block's coinbase.  It may claim less than it could: the sats it leaves
\* are lost, and the numbers of the next block do not move.
Mine(outputs) ==
  LET fresh  == [i \in 1 .. reward |-> [sat |-> Len(minted) + i - 1, fee |-> FALSE]]
      stream == fresh \o fees
  IN  /\ Sum(outputs) <= Len(stream)
      /\ Transact(<<>>, outputs, TRUE, stream)
      /\ minted' = minted \o [i \in 1 .. reward |-> [height |-> height, offset |-> i - 1]]
      /\ fees' = <<>>
      /\ height' = height + 1
      /\ reward' = IF (height + 1) % EpochBlocks = 0 THEN reward \div 2 ELSE reward

\* Any ledger; a run has one of those it can enumerate.
LedgerNext ==
  \/ \E inputs \in Seq(unspent), outputs \in Seq(Nat) : Spend(inputs, outputs)
  \/ \E outputs \in Seq(Nat) : Mine(outputs)

LedgerSpec == LedgerInit /\ [][LedgerNext]_ledgerVars

-----------------------------------------------------------------------------

SatAt(outpoint, offset) ==
  LET end == Ancestry(txs, outpoint, offset) IN SatAtEnd(end, txs[end.tx].height)

SatOfInscription(t, inscription) ==
  LET end == AncestryOf(txs, t, inscription) IN SatAtEnd(end, txs[end.tx].height)

\* The inscriptions a transaction may reveal.
Inscriptions(t) ==
  [input : DOMAIN txs[t].inputs, pointer : -1 .. totalOutputSats(txs[t]), even : BOOLEAN]

-----------------------------------------------------------------------------

\* The sat the ledger holds at a place, if any.
SatHeldAt(t, to) ==
  IF to.at \in DOMAIN holds[t] /\ to.offset \in 0 .. Len(holds[t][to.at]) - 1
  THEN holds[t][to.at][to.offset + 1].sat ELSE -1

\* What the reference says of a sat that the walk back has found.
Number(held) == IF held.fee THEN CustodyUnsupportedError ELSE held.sat

\* The transaction added last: what is said of it was said of the others in turn.
Newest == DOMAIN txs \cap {Len(txs)}

(* The walk back over values alone (outputSpacePosition, containingInput,  *)
(* coinbaseSatAt): every sat of every output is found with the number it   *)
(* was minted with, and exactly the sats that were once a fee are refused. *)
WalkFindsTheSat ==
  \A t \in Newest : \A v \in DOMAIN txs[t].outputs :
    \A offset \in 0 .. txs[t].outputs[v] - 1 :
      SatAt(Outpoint(t, v), offset) = Number(holds[t][v][offset + 1])

(* A hop forward (transferSatpoint, mapToOutputs) leads every sat to where *)
(* the ledger put it, or refuses those the transaction paid in fees.       *)
TransferFollowsTheSat ==
  \A t \in Spends \cap Newest : \A i \in DOMAIN txs[t].inputs :
    LET from == txs[t].inputs[i]
    IN  \A offset \in 0 .. Len(Held(from)) - 1 :
          LET to == transferSatpoint(txs[t], ValuesOf(txs, txs[t]),
                      [tx |-> from.tx, at |-> from.vout, offset |-> offset])
              position == offset + SumBefore(ValuesOf(txs, txs[t]), i)
          IN  IF position >= totalOutputSats(txs[t]) THEN to = Refused(CustodyUnsupportedError)
              ELSE SatHeldAt(t, to) = Held(from)[offset + 1].sat

(* The two verifiers speak of one sat: for every inscription a transaction *)
(* could reveal, custody's genesis satpoint and the identity's start       *)
(* position name the same sat, and refuse the same inscriptions: unbound   *)
(* ones, and those bound to a fee.                                         *)
CustodyAndIdentityAgree ==
  \A t \in Spends \cap Newest : \A inscription \in Inscriptions(t) :
    LET genesis == genesisSatpoint(txs[t], inscription, ValuesOf(txs, txs[t]))
        sat     == SatOfInscription(t, inscription)
    IN  IF genesis = Refused(CustodyUnsupportedError) THEN sat = CustodyUnsupportedError
        ELSE sat = Number(holds[t][genesis.at][genesis.offset + 1])

(***************************************************************************)
(* Both walks follow the sats themselves, through zero-value outputs,      *)
(* several inputs, underpaid coinbases and halvings; and a custody bundle  *)
(* and a genealogy of one inscription are about one sat.                   *)
(***************************************************************************)
SatsAreFollowed == WalkFindsTheSat /\ TransferFollowsTheSat /\ CustodyAndIdentityAgree

(***************************************************************************)
(* The closed forms number the sats as halving subsidies mint them, block  *)
(* by block; satToHeight inverts them; names descend by one from sat to    *)
(* sat; and a sat is rarer than common exactly when it is a block's first. *)
(***************************************************************************)
Successor(name) ==
  LET carry == {i \in 1 .. Len(name) : \A j \in i .. Len(name) : name[j] = Letters - 1}
      from  == IF carry = {} THEN Len(name) + 1 ELSE Min(carry)
  IN  [i \in 1 .. Len(name) + (IF from = 1 THEN 1 ELSE 0) |->
         CASE from = 1 -> 0
           [] from > 1 /\ i >= from -> 0
           [] from > 1 /\ i < from -> IF i = from - 1 THEN name[i] + 1 ELSE name[i]]

NumbersAgree ==
  \A t \in Newest : txs[t].coinbase =>
    /\ reward = subsidySats(height)
    /\ Len(minted) = firstSatOfBlock(height)
    /\ \A sat \in 0 .. Len(minted) - 1 :
         /\ satToHeight(sat) = minted[sat + 1]
         /\ (satRarity(sat) = "common") = (minted[sat + 1].offset # 0)
         /\ sat > 0 => satName(sat - 1) = Successor(satName(sat))
=============================================================================
