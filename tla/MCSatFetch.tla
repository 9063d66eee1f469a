------------------------------ MODULE MCSatFetch ------------------------------
(***************************************************************************)
(* Two members, b1 and b2, and three attesters: a1, listed under two       *)
(* spellings, a2, and the member b2 again.  The ledgers: a sat of the      *)
(* block before; one whose old coinbase pushes a height to come; a reveal  *)
(* that points at a fee; one of two inputs; an unbound one; and an         *)
(* ancestry beyond the cap.  Blocks pay 4, 4, 2, 2 and 1.                  *)
(***************************************************************************)
EXTENDS SatFetch

MCServerOf ==
  [e \in {"b1", "b2", "a1", "A1", "a2"} |-> IF e = "A1" THEN "a1" ELSE e]

MCEndpoints == DOMAIN MCServerOf
MCServers == {"b1", "b2", "a1", "a2"}
MCMembers == <<"b1", "b2">>
MCAnchors == <<"a1", "A1", "b2", "a2">>

NoPush == -1

Mined(height, push, outputs) ==
  [inputs |-> <<>>, outputs |-> outputs, coinbase |-> TRUE, height |-> height, push |-> push]

Tx(height, inputs, outputs) ==
  [inputs |-> inputs, outputs |-> outputs, coinbase |-> FALSE, height |-> height,
   push |-> NoPush]

Out(tx, vout) == [tx |-> tx, vout |-> vout]
At(input, pointer) == [input |-> input, pointer |-> pointer, even |-> FALSE]
Even == [input |-> 1, pointer |-> -1, even |-> TRUE]

\* The last transaction is the reveal.
Ledger(txs, executed, other) ==
  [txs |-> txs, reveal |-> Len(txs), executed |-> executed, other |-> other]

MCLedgers == {
  Ledger(<<Mined(3, 3, <<2>>), Tx(4, <<Out(1, 1)>>, <<2>>)>>, At(1, -1), At(1, 1)),
  Ledger(<<Mined(1, 4, <<4>>), Tx(2, <<Out(1, 1)>>, <<2, 2>>), Tx(3, <<Out(2, 1)>>, <<2>>)>>,
         At(1, -1), At(1, 1)),
  Ledger(<<Mined(2, NoPush, <<3>>), Tx(3, <<Out(1, 1)>>, <<3>>)>>, At(1, 2), At(1, -1)),
  Ledger(<<Mined(3, 3, <<3>>), Mined(2, NoPush, <<2>>),
           Tx(4, <<Out(2, 1), Out(1, 1)>>, <<5>>)>>, At(2, -1), At(2, 4)),
  Ledger(<<Mined(3, 3, <<2>>), Tx(4, <<Out(1, 1)>>, <<2>>)>>, Even, At(1, -1)),
  Ledger(<<Mined(1, NoPush, <<4>>), Tx(2, <<Out(1, 1)>>, <<4>>), Tx(2, <<Out(2, 1)>>, <<4>>),
           Tx(3, <<Out(3, 1)>>, <<4>>)>>, At(1, -1), Even)}
=============================================================================
