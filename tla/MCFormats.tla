------------------------------- MODULE MCFormats ------------------------------
(***************************************************************************)
(* What needs no server: the pure algorithms of @ordspv/core, each against *)
(* a reference that is built step by step - a ledger of sats, a block of   *)
(* transactions, a tree of scripts, a script that is being written, the    *)
(* members of a gallery, the periods of a chain - and the two ends at the  *)
(* user: the file of headers, whose methods are called in any order, from  *)
(* files of every kind, and the command line, as it is typed.  A behaviour *)
(* is about one of these.                                                  *)
(***************************************************************************)
EXTENDS SatLedger, BlockCommitments, Taproot, Envelope, Gallery, CompactBits, CommandLine,
        MCHeaderChain

CONSTANTS MaxBlocks, MaxSpends   \* bounds on the ledger

\* One txid and a half, or two; ids, and indices, of every kind, up to the edge.
MCTxidLists == {<<0, 1, 1>>, <<0, 1, 1, 1>>}

MCIds == {<<1>>} \cup {<<1, 0>> \o index : index \in {<<>>, <<0>>, <<1>>, <<1, 0>>, <<1, 0, 0>>}}
MCIndices == {Token(0, <<MAX_INSCRIPTION_INDEX>>), Token(0, <<MAX_INSCRIPTION_INDEX + 1>>),
              Token(1, <<0>>), Token(7, <<1>>), Token(7, <<20>>), Token(7, <<23>>),
              Token(7, <<24, 23>>), Token(7, <<25, 2>>), Token(7, <<25, -1>>)}

MCEntries ==
  [id : {<<Token(2, id)>> : id \in MCIds}, index : {<<>>}, lists : {0}]
  \cup [id : {<<>>}, index : {<<>>} \cup {<<index>> : index \in MCIndices}, lists : {0}]
  \cup [id : {<<Token(2, <<0, 0>>)>>, <<Token(3, <<"0">>)>>},
        index : {<<Token(0, <<1>>)>>}, lists : {0}]
  \cup [id : {<<>>}, index : {<<>>}, lists : {MaxDepth - 1, MaxDepth}]

VARIABLE subject

rest == <<ledgerVars, blockTxs, tree, envelopeVars, gallery, closing, argv>>

vars == <<subject, rest, chainVars>>

NothingRevealed ==
  reveal = <<ScriptPath(<<>>), ScriptPath(<<>>)>> /\ written = 0 /\ reader = Started

(* A transaction spends one or two outputs, and pays out all to one output *)
(* or all but one sat to two, of which the first gets none or one.         *)
Spent == {<<a>> : a \in unspent} \cup {<<a, b>> : a, b \in unspent}

Payouts(total) ==
  {<<total>>} \cup {<<a, total - 1 - a>> : a \in {0, 1} \cap 0 .. total - 1}

InputSats(inputs) == Sum([i \in DOMAIN inputs |-> txs[inputs[i].tx].outputs[inputs[i].vout]])

SpendSome ==
  /\ Cardinality(Spends) < MaxSpends /\ height < MaxBlocks
  /\ \E inputs \in Spent : \E outputs \in Payouts(InputSats(inputs)) : Spend(inputs, outputs)

MineSome ==
  height < MaxBlocks /\ \E outputs \in Payouts(reward + Len(fees)) : Mine(outputs)

Init ==
  /\ LedgerInit /\ BlockInit /\ CommandInit
  /\ subject \in {"ledger", "block", "tree", "script", "gallery", "periods", "command", "headers"}
  /\ IF subject = "tree" THEN TreeInit ELSE tree = NoTree
  /\ IF subject = "periods" THEN BitsInit ELSE closing = NoPeriod
  /\ IF subject = "script" THEN EnvelopeInit ELSE NothingRevealed
  /\ IF subject = "gallery" THEN GalleryInit ELSE gallery = NoGallery
  /\ ChainInit /\ (subject # "headers" => file = NoFile)

Next ==
  /\ \/ /\ subject = "ledger" /\ (SpendSome \/ MineSome)
        /\ UNCHANGED <<blockTxs, tree, envelopeVars, gallery, closing, argv, chainVars>>
     \/ /\ subject = "block" /\ AddTx
        /\ UNCHANGED <<ledgerVars, tree, envelopeVars, gallery, closing, argv, chainVars>>
     \/ /\ subject = "tree" /\ GrowTree
        /\ UNCHANGED <<ledgerVars, blockTxs, envelopeVars, gallery, closing, argv, chainVars>>
     \/ /\ subject = "script" /\ Write
        /\ UNCHANGED <<ledgerVars, blockTxs, tree, gallery, closing, argv, chainVars>>
     \/ /\ subject = "gallery" /\ Declare
        /\ UNCHANGED <<ledgerVars, blockTxs, tree, envelopeVars, closing, argv, chainVars>>
     \/ /\ subject = "periods" /\ PeriodEnds
        /\ UNCHANGED <<ledgerVars, blockTxs, tree, envelopeVars, gallery, argv, chainVars>>
     \/ /\ subject = "command" /\ TypeToken
        /\ UNCHANGED <<ledgerVars, blockTxs, tree, envelopeVars, gallery, closing, chainVars>>
     \/ subject = "headers" /\ ChainNext /\ UNCHANGED rest
  /\ UNCHANGED subject

Spec == Init /\ [][Next]_vars
=============================================================================
