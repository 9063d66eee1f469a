------------------------------ MODULE SatSpace ------------------------------
(***************************************************************************)
(* The sat arithmetic of @ordspv/core: satnumber.ts, the closed forms that *)
(* number the sats and the hop back through a transaction, and custody.ts, *)
(* the hop forward.  A transaction is a record [inputs, outputs, coinbase]:*)
(* outpoints [tx, vout], output values, and whether its one input is the   *)
(* null outpoint.  Inputs and outputs are counted from 1, where the code   *)
(* counts from 0; sats, offsets and heights are counted from 0.            *)
(***************************************************************************)
EXTENDS Integers, Sequences, FiniteSetsExt, SequencesExt

CONSTANTS InitialSubsidy,   \* 50 * 10^8 in the code
          EpochBlocks,      \* 210 000
          FinalEpoch,       \* 33: no subsidy from this epoch on
          CycleBlocks,      \* 1 260 000
          DiffchangeBlocks, \* 2 016
          Letters           \* 26

\* INITIAL_SUBSIDY >> epoch
EpochSubsidy[epoch \in 0 .. FinalEpoch] ==
  IF epoch = 0 THEN InitialSubsidy ELSE EpochSubsidy[epoch - 1] \div 2

ASSUME SubsidyAssumption ==
  /\ {InitialSubsidy, EpochBlocks, FinalEpoch} \subseteq Nat \ {0}
  /\ {CycleBlocks, DiffchangeBlocks, Letters} \subseteq Nat \ {0}
  /\ EpochSubsidy[FinalEpoch - 1] > 0 /\ EpochSubsidy[FinalEpoch] = 0

(* ---------------------------- closed forms ----------------------------- *)

subsidySats(height) ==
  LET epoch == height \div EpochBlocks
  IN  IF epoch >= FinalEpoch THEN 0 ELSE EpochSubsidy[epoch]

\* A mutant: every block since an epoch began is counted in it.
BlocksSince(height, epoch) ==
  IF height <= epoch * EpochBlocks THEN 0 ELSE height - epoch * EpochBlocks

\* The blocks below a height that belong to an epoch; none is where the loop ends.
BlocksIn(height, epoch) ==
  LET since == height - epoch * EpochBlocks
  IN  IF since <= 0 THEN 0 ELSE IF since < EpochBlocks THEN since ELSE EpochBlocks

firstSatOfBlock(height) ==
  LET start[epoch \in 0 .. FinalEpoch] ==
        IF epoch = 0 THEN 0
        ELSE start[epoch - 1] + BlocksIn(height, epoch - 1) * EpochSubsidy[epoch - 1]
  IN  start[FinalEpoch]

TotalSats == firstSatOfBlock(FinalEpoch * EpochBlocks)

\* The sats of the epochs before this one: `cum` when the loop comes to it.
SatsBefore[epoch \in 0 .. FinalEpoch] ==
  IF epoch = 0 THEN 0 ELSE SatsBefore[epoch - 1] + EpochBlocks * EpochSubsidy[epoch - 1]

satToHeight(sat) ==
  LET epoch == Min({e \in 0 .. FinalEpoch - 1 : sat < SatsBefore[e + 1]})
      into  == sat - SatsBefore[epoch]
  IN  [height |-> epoch * EpochBlocks + into \div EpochSubsidy[epoch],
       offset |-> into % EpochSubsidy[epoch]]

satRarity(sat) ==
  LET at == satToHeight(sat)
  IN  CASE sat = 0                               -> "mythic"
        [] sat # 0 /\ at.offset # 0              -> "common"
        [] OTHER ->
             IF at.height % CycleBlocks = 0      THEN "legendary"
             ELSE IF at.height % EpochBlocks = 0 THEN "epic"
             ELSE IF at.height % DiffchangeBlocks = 0 THEN "rare" ELSE "uncommon"

\* Bijective base 26, the letters being 0 .. Letters - 1.
satName(sat) ==
  LET name[x \in 0 .. TotalSats] ==
        IF x = 0 THEN <<>>
        ELSE Append(name[(x - 1) \div Letters], (x - 1) % Letters)
  IN  name[TotalSats - 1 - sat + 1]

(* --------------------------- one hop, either way ----------------------- *)

\* The values before the one at i.
SumBefore(values, i) ==
  LET sum[n \in 0 .. Len(values)] == IF n = 0 THEN 0 ELSE sum[n - 1] + values[n]
  IN  sum[i - 1]

Sum(values) == SumBefore(values, Len(values) + 1)

totalOutputSats(tx) == Sum(tx.outputs)

(* A refusal is a number no sat, position or index has; a place that is     *)
(* refused has it in both fields.                                          *)
CustodyUnsupportedError == -1
SatPositionError == -2
SatFundingIncompleteError == -3
Refused(error) == [at |-> error, offset |-> error]

\* The first piece of the stream `values` that reaches beyond the position,
\* and how far into it the position is; refused when all of them end before.
PieceAt(values, position, error) ==
  LET reaching == {i \in 1 .. Len(values) : position < SumBefore(values, i + 1)}
  IN  IF reaching = {} THEN Refused(error)
      ELSE [at |-> Min(reaching), offset |-> position - SumBefore(values, Min(reaching))]

outputSpacePosition(tx, vout, offset) ==
  IF vout \in DOMAIN tx.outputs /\ offset \in 0 .. tx.outputs[vout] - 1
  THEN SumBefore(tx.outputs, vout) + offset
  ELSE SatPositionError

containingInput(tx, inputValues, position) ==
  PieceAt(inputValues, position,
          IF Len(inputValues) >= Len(tx.inputs) THEN SatPositionError
                                                ELSE SatFundingIncompleteError)

coinbaseSatAt(position, height) ==
  IF position < subsidySats(height) THEN firstSatOfBlock(height) + position
                                    ELSE CustodyUnsupportedError

mapToOutputs(tx, position) == PieceAt(tx.outputs, position, CustodyUnsupportedError)

(* An inscription is [input, pointer, even]: the input whose witness has   *)
(* the envelope, its pointer or -1, whether it has an unknown even field.  *)
Unbound(inscription, inputValues) ==
  inscription.even \/ inputValues[inscription.input] = 0

PointerHolds(tx, inscription) ==
  inscription.pointer # -1 /\ inscription.pointer < totalOutputSats(tx)

genesisSatpoint(reveal, inscription, inputValues) ==
  CASE Unbound(inscription, inputValues) -> Refused(CustodyUnsupportedError)
    [] ~Unbound(inscription, inputValues) /\ PointerHolds(reveal, inscription) ->
         mapToOutputs(reveal, inscription.pointer)
    [] OTHER -> mapToOutputs(reveal, SumBefore(inputValues, inscription.input))

\* The first input that spends the satpoint's outpoint decides.
transferSatpoint(tx, inputValues, from) ==
  LET j == SelectInSeq(tx.inputs, LAMBDA i : i.tx = from.tx /\ i.vout = from.at)
  IN  mapToOutputs(tx, from.offset + SumBefore(inputValues, j))

\* A mutant: a pointer is believed wherever it points.
PointedPosition(reveal, inscription, inputValues) ==
  CASE Unbound(inscription, inputValues) -> CustodyUnsupportedError
    [] ~Unbound(inscription, inputValues) /\ inscription.pointer # -1 -> inscription.pointer
    [] OTHER -> SumBefore(inputValues, inscription.input)

(* The position the sat identity starts from; verifySatGenealogy and the   *)
(* builder's walk derive it in the same way.                               *)
revealPosition(reveal, inscription, inputValues) ==
  LET default == SumBefore(inputValues, inscription.input)
  IN  CASE Unbound(inscription, inputValues) -> CustodyUnsupportedError
        [] ~Unbound(inscription, inputValues) /\ PointerHolds(reveal, inscription) ->
             inscription.pointer
        [] OTHER -> IF default >= totalOutputSats(reveal)
                    THEN CustodyUnsupportedError ELSE default

(* ------------------------ the walk to the coinbase --------------------- *)

ValuesOf(txs, tx) ==
  [i \in DOMAIN tx.inputs |-> txs[tx.inputs[i].tx].outputs[tx.inputs[i].vout]]

End(t, position, depth) == [tx |-> t, position |-> position, depth |-> depth]

\* One step of the walk; it has ended at a coinbase, or with a refusal.
Back(txs, at) ==
  LET tx    == txs[at.tx]
      input == containingInput(tx, ValuesOf(txs, tx), at.position)
      from  == tx.inputs[input.at]
  IN  CASE at.position < 0 \/ tx.coinbase -> at
        [] ~(at.position < 0 \/ tx.coinbase) ->
             IF input.at < 0 THEN End(at.tx, input.at, at.depth)
             ELSE End(from.tx, outputSpacePosition(txs[from.tx], from.vout, input.offset),
                      at.depth + 1)

(* Where the sat at an offset of an outpoint comes from: the coinbase, the *)
(* position in its outputs, or a refusal, and the funding transactions in  *)
(* between.  Each spends earlier ones, so the walk has no more steps than  *)
(* there are transactions.                                                 *)
Ancestry(txs, outpoint, offset) ==
  LET start == End(outpoint.tx, outputSpacePosition(txs[outpoint.tx], outpoint.vout, offset), 0)
      walk[n \in 0 .. Len(txs)] == IF n = 0 THEN start ELSE Back(txs, walk[n - 1])
  IN  walk[Len(txs)]

\* The same for the sat an inscription is on.
AncestryOf(txs, t, inscription) ==
  LET position == revealPosition(txs[t], inscription, ValuesOf(txs, txs[t]))
      input    == containingInput(txs[t], ValuesOf(txs, txs[t]), position)
  IN  CASE position < 0 -> End(t, position, 0)
        [] position >= 0 /\ input.at < 0 -> End(t, input.at, 0)
        [] OTHER -> Ancestry(txs, txs[t].inputs[input.at], input.offset)

\* The number of the sat, the coinbase being at this height.
SatAtEnd(end, height) ==
  IF end.position < 0 THEN end.position ELSE coinbaseSatAt(end.position, height)
=============================================================================
