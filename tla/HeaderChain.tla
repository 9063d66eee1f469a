----------------------------- MODULE HeaderChain -----------------------------
(***************************************************************************)
(* class HeaderChain of packages/fetch/src/headersync.ts: a validated      *)
(* chain of headers above a trusted base, held in memory and persisted to  *)
(* one file, under any order of calls of its methods.  Every method is     *)
(* synchronous, so each is one step; only the file write inside it can be  *)
(* cut short, by the death of the process or by an error of the file       *)
(* system.                                                                 *)
(***************************************************************************)
EXTENDS HeaderTree

CONSTANTS
  HasFile,       \* options.file is set
  InitialFiles,  \* what may stand in the file before the first open
  Faults,        \* the faults of a run, a subset of {"crash", "ioerror"}
  FirstClock,    \* options.now() at the start ...
  LastClock      \* ... and the bound on it

ASSUME ChainAssumption ==
  /\ HasFile \in BOOLEAN
  /\ Faults \subseteq {"crash", "ioerror"}
  /\ FirstClock \in Nat /\ LastClock \in Nat

VARIABLES
  chain,  \* the object's headers, work and dirty fields
  file,   \* the persistence file
  up,     \* is there a chain object, opened and not lost with its process?
  now     \* the local clock, which is assumed not to step back

chainVars == <<chain, file, up, now>>

ChainState == [headers : Chains, work : Int, dirty : BOOLEAN]

\* torn: the bytes do not end at a header boundary
FileState == [there : BOOLEAN, hs : Seq(Header), torn : BOOLEAN]

ASSUME InitialFilesAssumption == InitialFiles \subseteq FileState

BaseChain == [headers |-> <<Base>>, work |-> CumWork[Base], dirty |-> FALSE]

NoFile == [there |-> FALSE, hs |-> <<>>, torn |-> FALSE]

FileWith(s) == [there |-> TRUE, hs |-> s, torn |-> FALSE]

\* The chain object after headers.push(...staged) and work += stagedWork.
AfterAppend(c, batch) ==
  IF batch = <<>> THEN c
  ELSE [c EXCEPT !.headers = @ \o batch,
                 !.work    = @ + WorkOfRun(batch[1], Tip(batch))]

\* mutation: the dropped headers' work stays in the total
RewoundKeepingWork(c, height) ==
  [c EXCEPT !.headers = SubSeq(@, 1, height - BaseHeight + 1)]

\* The chain object after the headers above height are dropped.
Rewound(c, height) ==
  LET keep == height - BaseHeight + 1
  IN IF keep >= Len(c.headers) THEN c
     ELSE [c EXCEPT !.headers = SubSeq(@, 1, keep),
                    !.work    = @ - WorkOfRun(c.headers[keep + 1], Tip(c.headers))]

\* mutation: a change kept from the file is not marked
UnsavedUnmarked(c) == c

Unsaved(c) == [c EXCEPT !.dirty = HasFile]

Saved(c) == [c EXCEPT !.dirty = FALSE]

-----------------------------------------------------------------------------
(* The file writes: writeFileSync truncates and writes, appendFileSync      *)
(* adds at the end.  Cut short, either leaves some of its headers and       *)
(* possibly a part of the next.                                             *)

WrittenPart(before, rest, torn) ==
  UNION {{[there |-> TRUE, hs |-> before \o SubSeq(rest, 1, k), torn |-> t] :
             t \in {torn, TRUE}} : k \in 0..(Len(rest) - 1)}

RewriteCuts(s) == WrittenPart(<<>>, s, FALSE)

AppendCuts(batch) == WrittenPart(file.hs, batch, file.torn)

\* mutation: a persisting append never rewrites
AppendWritesBlindly(c, batch) == [file EXCEPT !.there = TRUE, !.hs = @ \o batch]

\* A persisting append rewrites a file it knows to have diverged.
AppendWrites(c, batch) ==
  IF c.dirty THEN FileWith(c.headers)
  ELSE [file EXCEPT !.there = TRUE, !.hs = @ \o batch]

AppendWriteCuts(c, batch) ==
  IF c.dirty THEN RewriteCuts(c.headers) ELSE AppendCuts(batch)

Dies == up' = FALSE /\ chain' = BaseChain

WriteThrows(cuts) ==
  /\ "ioerror" \in Faults
  /\ file' \in cuts \cup {file}

WriteCutShort(cuts) ==
  /\ "crash" \in Faults
  /\ file' \in cuts
  /\ Dies

-----------------------------------------------------------------------------

ChainInit ==
  /\ chain = BaseChain
  /\ file \in InitialFiles
  /\ up = FALSE
  /\ now = FirstClock

\* open() loads a file only through full validation.
FileLoads(f) ==
  /\ f.there /\ ~f.torn
  /\ f.hs # <<>>
  /\ f.hs[1] = Base
  /\ BatchVerdict(<<Base>>, Tail(f.hs), now) = "ok"

OpenFile ==
  /\ ~up /\ HasFile /\ FileLoads(file)
  /\ up' = TRUE
  /\ chain' = Saved(AfterAppend(BaseChain, Tail(file.hs)))
  /\ UNCHANGED <<file, now>>

OpenNew ==
  /\ ~up
  /\ HasFile => ~file.there
  /\ \/ /\ up' = TRUE
        /\ chain' = BaseChain
        /\ file' = IF HasFile THEN FileWith(<<Base>>) ELSE file
     \/ /\ HasFile
        /\ WriteThrows(RewriteCuts(<<Base>>))
        /\ UNCHANGED <<chain, up>>
     \/ HasFile /\ WriteCutShort(RewriteCuts(<<Base>>))
  /\ UNCHANGED now

\* open() throws and leaves the file for its owner to look at.
OpenRefused ==
  /\ ~up /\ HasFile /\ file.there /\ ~FileLoads(file)
  /\ UNCHANGED chainVars

AppendBatch(batch, persist) ==
  /\ up
  /\ batch # <<>>
  /\ BatchVerdict(chain.headers, batch, now) = "ok"
  /\ LET c == AfterAppend(chain, batch)
     IN \/ /\ ~persist
           /\ chain' = Unsaved(c)
           /\ UNCHANGED <<file, up>>
        \/ /\ persist
           /\ chain' = Saved(c)
           /\ file' = IF HasFile THEN AppendWrites(c, batch) ELSE file
           /\ UNCHANGED up
        \/ /\ persist /\ HasFile
           /\ WriteThrows(AppendWriteCuts(c, batch))
           /\ chain' = c
           /\ UNCHANGED up
        \/ /\ persist /\ HasFile
           /\ WriteCutShort(AppendWriteCuts(c, batch))
  /\ UNCHANGED now

TruncateTo(height, persist) ==
  /\ up
  /\ height >= BaseHeight
  /\ height < TipHeight(chain.headers)
  /\ LET c == Rewound(chain, height)
     IN \/ /\ ~persist
           /\ chain' = Unsaved(c)
           /\ UNCHANGED <<file, up>>
        \/ /\ persist
           /\ chain' = Saved(c)
           /\ file' = IF HasFile THEN FileWith(c.headers) ELSE file
           /\ UNCHANGED up
        \/ /\ persist /\ HasFile
           /\ WriteThrows(RewriteCuts(c.headers))
           /\ chain' = c
           /\ UNCHANGED up
        \/ /\ persist /\ HasFile
           /\ WriteCutShort(RewriteCuts(c.headers))
  /\ UNCHANGED now

Flush ==
  /\ up
  /\ chain.dirty
  /\ \/ /\ file' = FileWith(chain.headers)
        /\ chain' = Saved(chain)
        /\ UNCHANGED up
     \/ /\ WriteThrows(RewriteCuts(chain.headers))
        /\ UNCHANGED <<chain, up>>
     \/ WriteCutShort(RewriteCuts(chain.headers))
  /\ UNCHANGED now

Crash ==
  /\ up /\ "crash" \in Faults
  /\ Dies
  /\ UNCHANGED <<file, now>>

Tick ==
  /\ now < LastClock
  /\ now' = now + 1
  /\ UNCHANGED <<chain, file, up>>

\* The batches and heights a caller may pass; MaxBatch bounds a run.
CONSTANT MaxBatch
ASSUME MaxBatchAssumption == MaxBatch \in Nat

Batches == UNION {[1..n -> Header] : n \in 1..MaxBatch}

ChainNext ==
  \/ OpenFile \/ OpenNew \/ OpenRefused
  \/ \E batch \in Batches, persist \in BOOLEAN : AppendBatch(batch, persist)
  \/ \E i \in DOMAIN chain.headers, persist \in BOOLEAN :
       TruncateTo(HeightOf(i), persist)
  \/ Flush
  \/ Crash
  \/ Tick

ChainSpec == ChainInit /\ [][ChainNext]_chainVars

-----------------------------------------------------------------------------

\* The types of the variables.
ChainTypeOK ==
  /\ chain \in ChainState
  /\ file \in FileState
  /\ up \in BOOLEAN
  /\ now \in Nat

(***************************************************************************)
(* The chain in memory is one appendBatch accepted header by header from   *)
(* the base, and the running total kept by appendBatch, truncateTo and     *)
(* restoreState is the work of exactly the headers held: the most-work     *)
(* rule compares these totals.                                             *)
(***************************************************************************)
Sound(c) ==
  /\ ValidChain(c.headers)
  /\ c.work = CumWork[Tip(c.headers)]

ChainSound == Sound(chain)

(***************************************************************************)
(* dirty is "true when the in-memory chain has diverged from the           *)
(* persistence file" (headersync.ts:124): a clean chain and its file agree *)
(* header by header, which is what lets a persisting append add only its   *)
(* own headers to the file.                                                *)
(***************************************************************************)
DirtyTracksFile ==
  up /\ HasFile /\ ~chain.dirty => file = FileWith(chain.headers)

(***************************************************************************)
(* No call and no death of the process in the middle of a write turns a    *)
(* file open() accepts into one that ends at a header boundary and is yet  *)
(* refused: such a file would look whole and never load again.             *)
(***************************************************************************)
NeverUnloadable ==
  [][FileLoads(file) /\ file'.hs # <<>> /\ ~file'.torn => FileLoads(file)']_chainVars
=============================================================================
