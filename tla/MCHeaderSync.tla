---------------------------- MODULE MCHeaderSync ----------------------------
(* One caller of syncHeaders at a time, over the tree of MCHeaderTree.     *)
EXTENDS HeaderSync, MCHeaderTree

MCFaults == {"crash"}

MCDiskFaults == {"ioerror"}

MCNoFaults == {}

MCInitialFiles == {NoFile}

\* the pinned chain ends at height 4
MCPinned == <<"g", "a3", "a4">>
=============================================================================
