---------------------------- MODULE MCHeaderTree ----------------------------
(***************************************************************************)
(* A small header tree for TLC.  Heights 2..7, retarget boundaries at 4    *)
(* and 6 (interval 2), a median over 3 headers.  Quick periods raise the   *)
(* difficulty, slow ones lower it, as calcNextBits does.                   *)
(*                                                                         *)
(*   g - a3 - a4 - a5 - f6       the quick chain: difficulty 2 from a4     *)
(*     |       | - c5 - c6       its rival from height 5, heavier than a5  *)
(*     |       \ - d5 - d6 - d7  a slow one: taller than f6, lighter       *)
(*     \ - b3 - b4               a slow fork from the base                 *)
(*                                                                         *)
(* f6 is stamped ahead of the first clock.  And the headers no chain may   *)
(* take: w4 claims the easier bits at a boundary, m5 is stamped at the     *)
(* median, p4 misses its target; o3 links to nothing.                      *)
(***************************************************************************)
EXTENDS Integers

MCOutside == "outside"

MCBase == "g"

MCParent == [g |-> MCOutside, a3 |-> "g", a4 |-> "a3", a5 |-> "a4",
             c5 |-> "a4", c6 |-> "c5",
             d5 |-> "a4", d6 |-> "d5", d7 |-> "d6",
             b3 |-> "g", b4 |-> "b3",
             w4 |-> "a3", m5 |-> "a4", p4 |-> "a3", f6 |-> "a5",
             o3 |-> MCOutside]

MCHeader == DOMAIN MCParent

MCBits == [g |-> 1, a3 |-> 1, a4 |-> 2, a5 |-> 2, c5 |-> 2, c6 |-> 3,
           d5 |-> 2, d6 |-> 1, d7 |-> 1,
           b3 |-> 1, b4 |-> 0,
           w4 |-> 0, m5 |-> 2, p4 |-> 2, f6 |-> 3, o3 |-> 1]

MCTime == [g |-> 0, a3 |-> 1, a4 |-> 2, a5 |-> 3, c5 |-> 3, c6 |-> 4,
           d5 |-> 4, d6 |-> 5, d7 |-> 6,
           b3 |-> 2, b4 |-> 3,
           w4 |-> 2, m5 |-> 1, p4 |-> 2, f6 |-> 9, o3 |-> 1]

MCMeetsTarget == MCHeader \ {"p4"}

\* calcNextBits, as far as this tree needs it: difficulty 0 is the pow limit
MCNextBits(bits, timespan) ==
  IF timespan <= 1 THEN bits + 1 ELSE IF bits > 0 THEN bits - 1 ELSE 0

MCWorkFromBits(bits) == 1 + 2 * bits

MCCumWork ==
  LET cum[h \in MCHeader] ==
        MCWorkFromBits(MCBits[h]) +
        (IF MCParent[h] = MCOutside THEN 0 ELSE cum[MCParent[h]])
  IN cum

MCCheckpoint == [height \in {2} |-> "g"]
=============================================================================
