---------------------------- MODULE MCHeaderChain ----------------------------
(* HeaderChain over the tree of MCHeaderTree, its methods called in any    *)
(* order, from files of every kind.                                        *)
EXTENDS HeaderChain, MCHeaderTree

MCFaults == {"crash"}

MCInitialFiles ==
  {NoFile,
   FileWith(<<"g", "a3", "a4">>),                                 \* sound
   [there |-> TRUE, hs |-> <<"g", "a3">>, torn |-> TRUE],         \* torn
   FileWith(<<"a3", "a4">>),                                      \* another base
   FileWith(<<"g", "a4">>),                                       \* a gap
   FileWith(<<"g", "a3", "w4">>)}                                 \* tampered bits
=============================================================================
