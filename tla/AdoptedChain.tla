---------------------------- MODULE AdoptedChain ----------------------------
(***************************************************************************)
(* What the header sync promises to whoever anchors proofs in it: the      *)
(* chain it has adopted is always a valid one, a running process only ever *)
(* extends it or replaces at most MaxReorg of its headers by a branch with *)
(* strictly more work, and the death of the process costs at most the tail *)
(* that a write cut short did not reach (or, when the file is refused as a *)
(* whole, everything).                                                     *)
(***************************************************************************)
EXTENDS Integers, Sequences

CONSTANTS
  Base,           \* the header every chain starts from
  MaxReorg,       \* how many headers a reorganisation may replace
  ValidChain(_),  \* the sequences of headers that are chains
  WorkOf(_)       \* the cumulative work of a chain

VARIABLES
  adopted,  \* the chain; <<>> when there is a file and it cannot be loaded
  live      \* a process holds the chain

adoptedVars == <<adopted, live>>

AdoptedInit == adopted = <<Base>> /\ live = FALSE

\* The first Len(s) - depth headers of s are those of t, as far as t reaches.
AgreesBelow(s, t, depth) ==
  \A i \in 1..(Len(s) - depth) : i <= Len(t) => s[i] = t[i]

Extend ==
  /\ live /\ live'
  /\ ValidChain(adopted')
  /\ Len(adopted') >= Len(adopted)
  /\ AgreesBelow(adopted, adopted', 0)

Reorganise ==
  /\ live /\ live'
  /\ ValidChain(adopted')
  /\ WorkOf(adopted') > WorkOf(adopted)
  /\ Len(adopted') >= Len(adopted) - MaxReorg
  /\ AgreesBelow(adopted, adopted', MaxReorg)

Die ==
  /\ ~live'
  /\ adopted' = <<>> \/ ValidChain(adopted')
  /\ AgreesBelow(adopted, adopted', MaxReorg)

Restart ==
  /\ ~live /\ live'
  /\ adopted # <<>>
  /\ UNCHANGED adopted

AdoptedNext == Extend \/ Reorganise \/ Die \/ Restart

AdoptedSpec == AdoptedInit /\ [][AdoptedNext]_adoptedVars
=============================================================================
