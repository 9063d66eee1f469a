--------------------------- MODULE MCCustodyFetch ---------------------------
(***************************************************************************)
(* Two backends, b1 and b2, and three attesters: a1, listed under two      *)
(* spellings, a2, and the backend b2 again.  The paths: one transfer, as   *)
(* many as the cap allows, in the block after the reveal's; two, the first *)
(* in the reveal's block; and a transfer that leaves the sat in a fee.     *)
(***************************************************************************)
EXTENDS CustodyFetch

MCServerOf ==
  [e \in {"b1", "b2", "a1", "A1", "a2"} |-> IF e = "A1" THEN "a1" ELSE e]

MCEndpoints == DOMAIN MCServerOf

MCServers == {"b1", "b2", "a1", "a2"}

MCBackends == <<"b1", "b2">>

MCAnchors == <<"a1", "A1", "b2", "a2">>

Hop(block, pos, burns) == [block |-> block, pos |-> pos, burns |-> burns]

MCPaths ==
  {<<Hop(1, 0, FALSE), Hop(2, 0, FALSE)>>,
   <<Hop(1, 0, FALSE), Hop(1, 1, FALSE), Hop(2, 0, FALSE)>>,
   <<Hop(1, 0, FALSE), Hop(2, 0, TRUE)>>}
=============================================================================
