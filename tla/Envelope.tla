------------------------------- MODULE Envelope -------------------------------
(***************************************************************************)
(* The envelope parser of @ordspv/core (script.ts, envelope.ts): which     *)
(* inscriptions a reveal carries, in the order their ids number them.      *)
(*                                                                         *)
(* A script is a sequence of instructions, a cut push ends it.  What an    *)
(* instruction puts in a payload is the bytes it pushes, in hex; a tag is  *)
(* even when its first byte is.                                            *)
(***************************************************************************)
EXTENDS Integers, Sequences, FiniteSetsExt, SequencesExt

\* The bytes of a push, a number opcode being one: OP_2 pushes what <02> pushes.
Bytes == [empty |-> "", ord |-> "6f7264", pointer |-> "02", OP_2 |-> "02", wide |-> "0200"]
Instructions == DOMAIN Bytes \cup {"OP_IF", "OP_ENDIF", "OP_DROP", "cut"}
EvenTags == {"02", "0200"}
TAG_POINTER == "02"

decodeLeU64Trimmed(value) ==
  CASE value = "" -> 0 [] value \in {"02", "0200"} -> 2 [] OTHER -> 6582895

(* ----------------------- scripts and transactions ---------------------- *)

\* A mutant: a probe that fails has consumed what it looked at.
ConsumingProbes(ops, cursor, stutter) ==
  LET isAt(i, op) == i \in DOMAIN ops /\ ops[i] = op
      Failed(at) == [cursor |-> at + 1, stutter |-> isAt(at, "empty"), envelope |-> <<>>]
      ends == {i \in cursor + 2 .. Len(ops) : ops[i] \notin DOMAIN Bytes}
      payload == SubSeq(ops, cursor + 2, Min(ends) - 1)
  IN  CASE ~isAt(cursor, "OP_IF") -> Failed(cursor)
        [] isAt(cursor, "OP_IF") /\ ~isAt(cursor + 1, "ord") -> Failed(cursor + 1)
        [] OTHER ->
             IF ends = {} THEN [Failed(Len(ops) + 1) EXCEPT !.stutter = FALSE]
             ELSE [cursor |-> Min(ends) + 1, stutter |-> FALSE,
                   envelope |-> IF ops[Min(ends)] # "OP_ENDIF" THEN <<>>
                                ELSE <<[payload |-> [i \in DOMAIN payload |-> Bytes[payload[i]]],
                                        pushnum |-> Contains(payload, "OP_2"),
                                        stutter |-> stutter]>>]

(* An attempt just past an empty push.  The probes for OP_IF and the marker *)
(* consume nothing when they fail; a payload that fails stays consumed.    *)
fromInstructions(ops, cursor, stutter) ==
  LET isAt(i, op) == i \in DOMAIN ops /\ ops[i] = op
      Failed(at) == [cursor |-> at, stutter |-> isAt(at, "empty"), envelope |-> <<>>]
      ends == {i \in cursor + 2 .. Len(ops) : ops[i] \notin DOMAIN Bytes}
      payload == SubSeq(ops, cursor + 2, Min(ends) - 1)
  IN  CASE ~isAt(cursor, "OP_IF") -> Failed(cursor)
        [] isAt(cursor, "OP_IF") /\ ~isAt(cursor + 1, "ord") -> Failed(cursor + 1)
        [] OTHER ->
             IF ends = {} THEN [Failed(Len(ops) + 1) EXCEPT !.stutter = FALSE]
             ELSE [cursor |-> Min(ends) + 1, stutter |-> FALSE,
                   envelope |-> IF ops[Min(ends)] # "OP_ENDIF" THEN <<>>
                                ELSE <<[payload |-> [i \in DOMAIN payload |-> Bytes[payload[i]]],
                                        pushnum |-> Contains(payload, "OP_2"),
                                        stutter |-> stutter]>>]

parseEnvelopesFromScript(ops) ==
  LET scan[cursor \in 1 .. Len(ops) + 1] == [stuttered \in BOOLEAN |->
        LET attempt == fromInstructions(ops, cursor + 1, stuttered)
        IN  IF cursor > Len(ops) THEN <<>>
            ELSE IF ops[cursor] # "empty" THEN scan[cursor + 1][stuttered]
            ELSE attempt.envelope \o
                 scan[attempt.cursor][IF attempt.envelope = <<>> THEN attempt.stutter ELSE stuttered]]
  IN  IF Contains(ops, "cut") THEN <<>> ELSE scan[1][FALSE]

(* A witness is a stack of items [annex, script]: does it begin 0x50, and   *)
(* the instructions it is when read as a script.                           *)
extractTapscript(witness) ==
  LET stack == IF Len(witness) >= 2 /\ Last(witness).annex THEN Front(witness) ELSE witness
  IN  IF Len(stack) < 2 THEN <<>> ELSE <<stack[Len(stack) - 1].script>>

parseEnvelopesFromTx(inputs) ==
  LET Of(vin) == LET tapscript == extractTapscript(inputs[vin])
                     found == IF tapscript = <<>> THEN <<>>
                              ELSE parseEnvelopesFromScript(tapscript[1])
                 IN  [i \in DOMAIN found |-> [envelope |-> found[i], input |-> vin,
                                              offsetInInput |-> i - 1]]
  IN  FlattenSeq([vin \in DOMAIN inputs |-> Of(vin)])   \* index i is at place i + 1

(* --------------------------- interpretation ---------------------------- *)

splitPayload(payload) ==
  LET keys == {i \in DOMAIN payload : i % 2 = 1}
      seps == {i \in keys : payload[i] = ""}
      end  == IF seps = {} THEN Len(payload) + 1 ELSE Min(seps)
      tags == [i \in 1 .. (end - 1) \div 2 |-> payload[2 * i - 1]]
  IN  [fields |-> [i \in DOMAIN tags |-> <<tags[i], payload[2 * i]>>],
       body |-> IF seps = {} THEN <<>> ELSE <<SubSeq(payload, end + 1, Len(payload))>>,
       incompleteField |-> seps = {} /\ Len(payload) % 2 = 1,
       duplicateField |-> ~IsInjective(tags)]

\* A mutant: taking the pointer takes all the values of its tag.
TakingAllPointers(payload) ==
  LET fields == splitPayload(payload).fields
      pointers == SelectSeq(fields, LAMBDA f : f[1] = TAG_POINTER)
      left == {f[1] : f \in ToSet(fields)} \ {TAG_POINTER}
  IN  [pointer |-> IF pointers = <<>> THEN -1 ELSE decodeLeU64Trimmed(pointers[1][2]),
       unboundByEvenField |-> left \cap EvenTags # {}]

(* The fields of each tag, by their places; the recognised tags are taken,  *)
(* the others and the surplus of a tag that is taken once are left over.   *)
interpretEnvelope(payload) ==
  LET fields == splitPayload(payload).fields
      byKey(tag) == {i \in DOMAIN fields : fields[i][1] = tag}
      pointers == byKey(TAG_POINTER)
      left == {fields[i][1] : i \in {j \in DOMAIN fields : fields[j][1] = TAG_POINTER
                                                         => Cardinality(pointers) > 1}}
  IN  [pointer |-> IF pointers = {} THEN -1 ELSE decodeLeU64Trimmed(fields[Min(pointers)][2]),
       unboundByEvenField |-> left \cap EvenTags # {}]

-----------------------------------------------------------------------------
(* A reveal whose last input's script is written one instruction at a time *)
(* and read by a reader that keeps no more of it than an automaton can:    *)
(* ord's parser, which shares one iterator between its two loops.          *)

CONSTANT MaxInstructions   \* a bound on what is written

VARIABLES
  reveal,   \* the witnesses of the inputs; the last is being written
  written,  \* how many instructions were written
  reader    \* [at, stuttered, stutter, payload, num, found]

envelopeVars == <<reveal, written, reader>>

Item(script) == [annex |-> FALSE, script |-> script]
Annex == [annex |-> TRUE, script |-> <<"empty", "OP_IF", "ord", "OP_ENDIF">>]
ScriptPath(script) == <<Item(<<>>), Item(script), Item(<<>>)>>

\* A key path spend, an envelope in its annex; a script path spend with another.
FirstInputs ==
  {<<Item(<<>>), Annex>>,
   Append(ScriptPath(<<"empty", "empty", "OP_IF", "ord", "OP_ENDIF">>), Annex)}
Begun == {<<>>, <<"empty", "OP_IF">>, <<"empty", "OP_IF", "ord", "pointer", "ord">>,
          <<"empty", "empty", "OP_IF", "ord", "OP_ENDIF", "empty">>}

Read(r, op) ==
  LET Scan == [r EXCEPT !.at = IF op = "empty" THEN "IF" ELSE "scan",
                        !.stuttered = IF r.at = "scan" THEN @ ELSE op = "empty"]
  IN  CASE r.at = "scan" -> [Scan EXCEPT !.stutter = r.stuttered]
        [] r.at = "IF" /\ op = "OP_IF" -> [r EXCEPT !.at = "ord"]
        [] r.at = "ord" /\ op = "ord" ->
             [r EXCEPT !.at = "payload", !.payload = <<>>, !.num = FALSE]
        [] r.at = "payload" ->
             (CASE op \in DOMAIN Bytes -> [r EXCEPT !.payload = Append(@, Bytes[op]),
                                                    !.num = @ \/ op = "OP_2"]
                [] op = "OP_ENDIF" ->
                     [r EXCEPT !.at = "scan",
                               !.found = Append(@, [payload |-> r.payload, pushnum |-> r.num,
                                                    stutter |-> r.stutter])]
                [] OTHER -> [r EXCEPT !.at = "scan", !.stuttered = FALSE])
        [] OTHER -> [Scan EXCEPT !.stutter = op = "empty"]

Started == [at |-> "scan", stuttered |-> FALSE, stutter |-> FALSE,
            payload |-> <<>>, num |-> FALSE, found |-> <<>>]

ReadAll(ops) ==
  LET read[n \in 0 .. Len(ops)] == IF n = 0 THEN Started ELSE Read(read[n - 1], ops[n])
  IN  read[Len(ops)]

EnvelopeInit ==
  \E first \in FirstInputs, begun \in Begun :
    /\ reveal = <<first, ScriptPath(begun)>>
    /\ written = 0
    /\ reader = ReadAll(begun)

Writing == extractTapscript(Last(reveal))[1]

Write ==
  /\ written < MaxInstructions /\ ~Contains(Writing, "cut")
  /\ \E op \in Instructions :
       /\ reveal' = <<reveal[1], ScriptPath(Append(Writing, op))>>
       /\ reader' = IF op = "cut" THEN [Started EXCEPT !.at = "cut"] ELSE Read(reader, op)
  /\ written' = written + 1

EnvelopeSpec == EnvelopeInit /\ [][Write]_envelopeVars

-----------------------------------------------------------------------------

Numbered == parseEnvelopesFromTx(reveal)

\* The envelopes of the first input: none by key path, one by script path.
Earlier == IF Len(reveal[1]) = 4 THEN 1 ELSE 0

(***************************************************************************)
(* The cursor parser finds in a script the envelopes ord's reader finds in *)
(* one pass, with the flags it gives them, and numbers them from where the *)
(* inputs before left off: probes that fail give back what they looked at, *)
(* a failed payload does not, and a cut push discards all of the input and *)
(* none of another input's envelopes.                                      *)
(***************************************************************************)
ParserFollowsOrd ==
  /\ Len(Numbered) = Earlier + Len(reader.found)
  /\ \A i \in 1 .. Earlier : Numbered[i].input = 1
  /\ \A i \in DOMAIN reader.found :
       Numbered[Earlier + i] = [envelope |-> reader.found[i], input |-> 2, offsetInInput |-> i - 1]

(***************************************************************************)
(* An inscription is unbound exactly when a field other than its first     *)
(* pointer field has an even tag, and its pointer is that first field's    *)
(* value, however fields, chunks and the body are laid out.                *)
(***************************************************************************)
TakenOnce ==
  \A e \in ToSet(Numbered) :
    LET payload == e.envelope.payload
        Before(i) == \A j \in 1 .. i : j % 2 = 1 => payload[j] # ""
        Keys == {i \in 1 .. Len(payload) - 1 : i % 2 = 1 /\ Before(i)}
        Exact == {i \in Keys : payload[i] = TAG_POINTER}
        taken == interpretEnvelope(payload)
    IN  /\ taken.unboundByEvenField =
             \E i \in Keys : payload[i] \in EvenTags /\ (i \in Exact => i # Min(Exact))
        /\ taken.pointer = IF Exact = {} THEN -1 ELSE decodeLeU64Trimmed(payload[Min(Exact) + 1])
=============================================================================
