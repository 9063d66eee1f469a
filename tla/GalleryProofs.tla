----------------------------- MODULE GalleryProofs ---------------------------
(***************************************************************************)
(* What is read of a gallery is what was declared: for galleries of any    *)
(* size, entries of any kind, fields of any length in any of the ways they *)
(* may be written, any widths of txids and indices, any number of byte     *)
(* values and any depth that admits a gallery at all.                      *)
(*                                                                         *)
(* The decoder is shown to read each item that is written, wherever it     *)
(* stands (IsRead), or nowhere (IsNoItem): so a field that is cut, or goes *)
(* on, is no case of its own.  Then the ids: which digits spell a number,  *)
(* and that what is parsed of an id is what it was a form of.              *)
(***************************************************************************)
EXTENDS Gallery, SequenceTheorems, FiniteSetTheorems, WellFoundedInduction, TLAPS

(* ------------------------------- induction ----------------------------- *)

\* A set of naturals that is not empty has a least one.
LEMMA LeastNatural ==
  ASSUME NEW T \in SUBSET Nat, T # {}
  PROVE  \E n \in T : \A m \in T : n <= m
<1>1. IsWellFoundedOn(OpToRel(<, Nat), Nat)
  BY NatLessThanWellFounded
<1>2. PICK n \in T : \A m \in T : ~ (<<m, n>> \in OpToRel(<, Nat))
  BY <1>1, WFMin
<1>3. \A m \in Nat : m < n => <<m, n>> \in OpToRel(<, Nat)
  BY DEF OpToRel
<1>4. \A m \in T : ~ (m < n)
  BY <1>2, <1>3
<1> QED BY <1>4

\* Induction over the naturals, of a set instead of a predicate.
LEMMA InductionBySet ==
  ASSUME NEW S, 0 \in S, \A n \in Nat : n \in S => n + 1 \in S
  PROVE  Nat \subseteq S
<1> DEFINE T == Nat \ S
<1> SUFFICES ASSUME T # {} PROVE FALSE
  OBVIOUS
<1>1. PICK x \in T : \A y \in T : x <= y
  BY LeastNatural
<1>2. x - 1 \in Nat /\ x - 1 + 1 = x
  OBVIOUS
<1>3. x - 1 \in S
  BY <1>1, <1>2
<1> QED BY <1>2, <1>3

(* -------------------------- a field is decoded ------------------------- *)

\* The heads of a field: a list or a map that is not indefinite says how long it is.
Symbols == STRING \cup {"numeral"} \cup Int   \* the provers do not know it for a string

Heads == {t \in (0 .. 7) \X BOOLEAN \X Seq(Symbols) :
            t[1] \in {4, 5} /\ ~ t[2] => t[3][1] \in Nat}

ReadAt(r, from, at) ==
  [item  |-> [depth \in Nat |-> decodeItem(r, from, at, depth)],
   items |-> [depth \in Nat |-> [left \in Int |-> [group \in {1, 2} |->
                decodeItems(r, from, at, depth, left, group)]]]]

ReadingOf(from, r) == from = [at \in 1 .. Len(r) + 1 |-> ReadAt(r, from, at)]

\* What is read at a place ends behind it, and within the field.
Forward(r, from, at) ==
  \A depth \in Nat :
    /\ from[at].item[depth] # Undecodable =>
         from[at].item[depth][1].at \in at + 1 .. Len(r) + 1
    /\ \A left \in Int, group \in {1, 2} :
         from[at].items[depth][left][group] # Undecodable =>
           from[at].items[depth][left][group][1].at \in at .. Len(r) + 1

\* Each place of a field holds a head.
LEMMA HeadFacts ==
  ASSUME NEW r \in Seq(Heads), NEW i \in 1 .. Len(r)
  PROVE  /\ r[i][1] \in 0 .. 7 /\ r[i][2] \in BOOLEAN
         /\ r[i][1] \in {4, 5} /\ ~ r[i][2] => r[i][3][1] \in Nat
         /\ i \in DOMAIN r
<1>1. r[i] \in Heads
  BY ElementOfSeq
<1>2. DOMAIN r = 1 .. Len(r)
  OBVIOUS
<1> QED BY <1>1, <1>2 DEF Heads

\* Where the chunks that begin behind a place end.
LEMMA ChunksEnd ==
  ASSUME NEW r \in Seq(Heads), NEW at \in 1 .. Len(r), NEW T,
         T = {i \in at + 1 .. Len(r) + 1 : ~ (i \in DOMAIN r /\ r[i][1] = r[at][1] /\ ~ r[i][2])}
  PROVE  Min(T) \in T /\ \A i \in T : Min(T) <= i
<1>1. Len(r) \in Nat /\ DOMAIN r = 1 .. Len(r)
  OBVIOUS
<1>2. Len(r) + 1 \in T /\ T \subseteq Nat
  BY <1>1
<1>3. PICK n \in T : \A m \in T : n <= m
  BY <1>2, LeastNatural
<1> QED BY <1>3 DEF Min

\* An item is read from what is read behind it.
LEMMA ItemLooksAhead ==
  ASSUME NEW r \in Seq(Heads), NEW at \in 1 .. Len(r) + 1, NEW depth \in Nat, NEW f, NEW g,
         \A i \in at + 1 .. Len(r) + 1 : f[i] = g[i]
  PROVE  decodeItem(r, f, at, depth) = decodeItem(r, g, at, depth)
<1>1. Len(r) \in Nat /\ DOMAIN r = 1 .. Len(r)
  OBVIOUS
<1>2. CASE at \notin DOMAIN r
  BY <1>2 DEF decodeItem
<1>3. CASE at \in DOMAIN r
  <2>1. at + 1 \in at + 1 .. Len(r) + 1
    BY <1>1, <1>3
  <2>2. f[at + 1] = g[at + 1]
    BY <2>1
  <2> QED BY <2>2 DEF decodeItem
<1> QED BY <1>2, <1>3


EndOfChunks(r, at) ==
  Min({i \in at + 1 .. Len(r) + 1 : ~ (i \in DOMAIN r /\ r[i][1] = r[at][1] /\ ~ r[i][2])})

ItemsIn(r, from, at, depth) ==
  from[at + 1].items[depth + 1]
    [IF r[at][2] THEN Unending ELSE (r[at][1] - 3) * r[at][3][1]][r[at][1] - 3]

Refused(r, from, at, depth) ==
  \/ depth > MaxDepth
  \/ at \notin DOMAIN r
  \/ r[at][2] /\ r[at][1] \notin 2 .. 5
  \/ /\ r[at][2] /\ r[at][1] \in {2, 3}
     /\ EndOfChunks(r, at) \notin DOMAIN r \/ r[EndOfChunks(r, at)] # Break
  \/ r[at][1] \in {4, 5} /\ ItemsIn(r, from, at, depth) = Undecodable

\* An item that is not refused, by its major type.
ReadsAs(r, from, at, depth) ==
  /\ Refused(r, from, at, depth) => decodeItem(r, from, at, depth) = Undecodable
  /\ ~ Refused(r, from, at, depth) =>
       /\ r[at][1] = 0 => decodeItem(r, from, at, depth) = Decoded(<<"int", r[at][3][1]>>, at + 1)
       /\ r[at][1] = 1 =>
            decodeItem(r, from, at, depth) = Decoded(<<"int", -1 - r[at][3][1]>>, at + 1)
       /\ r[at][1] = 2 /\ ~ r[at][2] =>
            decodeItem(r, from, at, depth) = Decoded(<<"bytes", r[at][3]>>, at + 1)
       /\ r[at][1] = 3 /\ ~ r[at][2] =>
            decodeItem(r, from, at, depth) = Decoded(<<"text", r[at][3]>>, at + 1)
       /\ r[at][1] = 2 /\ r[at][2] =>
            decodeItem(r, from, at, depth) =
              Decoded(<<"bytes", FlattenSeq([i \in 1 .. EndOfChunks(r, at) - at - 1 |->
                                               r[at + i][3]])>>, EndOfChunks(r, at) + 1)
       /\ r[at][1] = 3 /\ r[at][2] =>
            decodeItem(r, from, at, depth) =
              Decoded(<<"text", FlattenSeq([i \in 1 .. EndOfChunks(r, at) - at - 1 |->
                                               r[at + i][3]])>>, EndOfChunks(r, at) + 1)
       /\ r[at][1] = 4 =>
            decodeItem(r, from, at, depth) =
              Decoded(<<"list", ItemsIn(r, from, at, depth)[1].value>>,
                      ItemsIn(r, from, at, depth)[1].at)
       /\ r[at][1] = 5 =>
            decodeItem(r, from, at, depth) =
              Decoded(<<"map", put(ItemsIn(r, from, at, depth)[1].value)>>,
                      ItemsIn(r, from, at, depth)[1].at)
       /\ r[at][1] = 6 => decodeItem(r, from, at, depth) = from[at + 1].item[depth + 1]
       /\ r[at][1] = 7 =>
            decodeItem(r, from, at, depth) = Decoded(SimpleValue(r[at][3]), at + 1)

\* decodeItem says of every head what is read of it, or refuses it.
LEMMA ItemIsRead ==
  ASSUME NEW r, NEW from, NEW at, NEW depth
  PROVE  ReadsAs(r, from, at, depth)
<1> DEFINE major == r[at][1]
           indefinite == r[at][2]
           argument == r[at][3]
           end == EndOfChunks(r, at)
           kind == IF major = 2 THEN "bytes" ELSE "text"
           items == ItemsIn(r, from, at, depth)
           taken ==
             CASE major = 0 -> Decoded(<<"int", argument[1]>>, at + 1)
               [] major = 1 -> Decoded(<<"int", -1 - argument[1]>>, at + 1)
               [] major \in {2, 3} /\ ~indefinite -> Decoded(<<kind, argument>>, at + 1)
               [] major \in {2, 3} /\ indefinite ->
                    Decoded(<<kind, FlattenSeq([i \in 1 .. end - at - 1 |-> r[at + i][3]])>>, end + 1)
               [] major = 4 -> Decoded(<<"list", items[1].value>>, items[1].at)
               [] major = 5 -> Decoded(<<"map", put(items[1].value)>>, items[1].at)
               [] major = 6 -> from[at + 1].item[depth + 1]
               [] major = 7 -> Decoded(SimpleValue(argument), at + 1)
<1>1. decodeItem(r, from, at, depth) =
        IF Refused(r, from, at, depth) THEN Undecodable ELSE taken
  BY Zenon DEF decodeItem, Refused, EndOfChunks, ItemsIn
<1>2. \A m : major = m => r[at][1] = m
  OBVIOUS
<1>3. /\ major = 0 => taken = Decoded(<<"int", argument[1]>>, at + 1)
      /\ major = 1 => taken = Decoded(<<"int", -1 - argument[1]>>, at + 1)
      /\ major = 2 /\ ~ indefinite => taken = Decoded(<<"bytes", argument>>, at + 1)
      /\ major = 3 /\ ~ indefinite => taken = Decoded(<<"text", argument>>, at + 1)
      /\ major = 2 /\ indefinite =>
           taken = Decoded(<<"bytes", FlattenSeq([i \in 1 .. end - at - 1 |-> r[at + i][3]])>>, end + 1)
      /\ major = 3 /\ indefinite =>
           taken = Decoded(<<"text", FlattenSeq([i \in 1 .. end - at - 1 |-> r[at + i][3]])>>, end + 1)
      /\ major = 4 => taken = Decoded(<<"list", items[1].value>>, items[1].at)
      /\ major = 5 => taken = Decoded(<<"map", put(items[1].value)>>, items[1].at)
      /\ major = 6 => taken = from[at + 1].item[depth + 1]
      /\ major = 7 => taken = Decoded(SimpleValue(argument), at + 1)
  <2> HIDE DEF major, indefinite, argument, end, items
  <2> QED OBVIOUS
<1> HIDE DEF taken
<1> QED BY <1>1, <1>3 DEF ReadsAs

\* An item that is read was begun within the field and ends behind its beginning,
LEMMA ItemForward ==
  ASSUME NEW r \in Seq(Heads), NEW at \in 1 .. Len(r) + 1, NEW depth \in Nat, NEW f,
         \A i \in at + 1 .. Len(r) + 1 : Forward(r, f, i)
  PROVE  decodeItem(r, f, at, depth) # Undecodable =>
           /\ at \in 1 .. Len(r)
           /\ decodeItem(r, f, at, depth)[1].at \in at + 1 .. Len(r) + 1
<1> SUFFICES ASSUME decodeItem(r, f, at, depth) # Undecodable
             PROVE  /\ at \in 1 .. Len(r)
                    /\ decodeItem(r, f, at, depth)[1].at \in at + 1 .. Len(r) + 1
  OBVIOUS
<1>1. Len(r) \in Nat /\ DOMAIN r = 1 .. Len(r)
  OBVIOUS
<1> DEFINE major == r[at][1]
           indefinite == r[at][2]
           argument == r[at][3]
           end == EndOfChunks(r, at)
           group == major - 3
           left == IF indefinite THEN Unending ELSE group * argument[1]
           items == ItemsIn(r, f, at, depth)
<1> DEFINE item == decodeItem(r, f, at, depth)
<1>0. ReadsAs(r, f, at, depth)
  BY ItemIsRead
<1>2. ~ Refused(r, f, at, depth)
  BY <1>0 DEF ReadsAs
<1>3. at \in DOMAIN r
  BY <1>2 DEF Refused
<1>4. at \in 1 .. Len(r) /\ at + 1 \in at + 1 .. Len(r) + 1 /\ depth + 1 \in Nat
  BY <1>1, <1>3
<1>5. major \in 0 .. 7 /\ indefinite \in BOOLEAN /\ (major \in {4, 5} /\ ~ indefinite => argument[1] \in Nat)
  BY <1>4, HeadFacts
<1>6. Forward(r, f, at + 1)
  BY <1>4
<1>7. CASE major \in {0, 1, 7} \/ (major \in {2, 3} /\ ~ indefinite)
  <2>1. \E value : item = Decoded(value, at + 1)
    BY <1>0, <1>2, <1>5, <1>7 DEF ReadsAs
  <2>2. item[1].at = at + 1
    BY <2>1 DEF Decoded
  <2> QED BY <1>4, <2>2
<1>8. CASE major \in {2, 3} /\ indefinite
  <2>0. \E value : item = Decoded(value, end + 1)
    BY <1>0, <1>2, <1>5, <1>8 DEF ReadsAs
  <2>1. item[1].at = end + 1
    BY <2>0 DEF Decoded
  <2>2. end \in at + 1 .. Len(r) + 1
    BY <1>4, ChunksEnd DEF EndOfChunks
  <2>3. end \in DOMAIN r
    BY <1>2, <1>8 DEF Refused
  <2> HIDE DEF end
  <2> QED BY <1>1, <1>4, <2>1, <2>2, <2>3
<1>9. CASE major \in {4, 5}
  <2>0. \E value : item = Decoded(value, items[1].at)
    BY <1>0, <1>2, <1>5, <1>9 DEF ReadsAs
  <2>1. item[1].at = items[1].at
    BY <2>0 DEF Decoded
  <2>2. group \in {1, 2} /\ left \in Int
    BY <1>5, <1>9 DEF Unending
  <2>3. items # Undecodable
    BY <1>2, <1>9 DEF Refused
  <2>4. items = f[at + 1].items[depth + 1][left][group]
    BY DEF ItemsIn
  <2>5. items[1].at \in at + 1 .. Len(r) + 1
    <3> HIDE DEF group, left, items
    <3> QED BY <1>4, <1>6, <2>2, <2>3, <2>4 DEF Forward
  <2> QED BY <1>4, <2>1, <2>5
<1>10. CASE major = 6
  <2>1. item = f[at + 1].item[depth + 1]
    BY <1>0, <1>2, <1>10 DEF ReadsAs
  <2>2. f[at + 1].item[depth + 1][1].at \in (at + 1) + 1 .. Len(r) + 1
    BY <1>4, <1>6, <2>1 DEF Forward
  <2> QED BY <1>1, <1>4, <2>1, <2>2
<1> QED BY <1>5, <1>7, <1>8, <1>9, <1>10

\* Items are read by what stands behind them, like an item,
LEMMA ItemsLookAhead ==
  ASSUME NEW r \in Seq(Heads), NEW at \in 1 .. Len(r) + 1, NEW depth \in Nat, NEW left, NEW group,
         NEW f, NEW g, \A i \in at + 1 .. Len(r) + 1 : f[i] = g[i] /\ Forward(r, f, i)
  PROVE  decodeItems(r, f, at, depth, left, group) = decodeItems(r, g, at, depth, left, group)
<1> DEFINE first == decodeItem(r, f, at, depth)
           other == decodeItem(r, g, at, depth)
<1>1. first = other
  BY ItemLooksAhead
<1>2. CASE first = Undecodable
  BY <1>1, <1>2 DEF decodeItems
<1>3. CASE first # Undecodable
  <2>1. first[1].at \in at + 1 .. Len(r) + 1
    BY <1>3, ItemForward
  <2>2. f[first[1].at] = g[first[1].at]
    BY <2>1
  <2> QED BY <1>1, <2>2 DEF decodeItems
<1> QED BY <1>2, <1>3

\* and they end within the field, not before they begin.
LEMMA ItemsForward ==
  ASSUME NEW r \in Seq(Heads), NEW at \in 1 .. Len(r) + 1, NEW depth \in Nat,
         NEW left \in Int, NEW group \in {1, 2},
         NEW f, \A i \in at + 1 .. Len(r) + 1 : Forward(r, f, i),
         decodeItems(r, f, at, depth, left, group) # Undecodable
  PROVE  decodeItems(r, f, at, depth, left, group)[1].at \in at .. Len(r) + 1
<1>1. Len(r) \in Nat /\ DOMAIN r = 1 .. Len(r)
  OBVIOUS
<1> DEFINE atBreak == at \in DOMAIN r /\ r[at] = Break /\ (Unending - left) % group = 0
           first == decodeItem(r, f, at, depth)
           rest  == f[first[1].at].items[depth][left - 1][group]
           items == decodeItems(r, f, at, depth, left, group)
<1>2. items = IF left = 0 THEN Decoded(<<>>, at)
              ELSE IF left < 0 /\ atBreak THEN Decoded(<<>>, at + 1)
              ELSE IF first = Undecodable \/ rest = Undecodable THEN Undecodable
              ELSE Decoded(<<first[1].value>> \o rest[1].value, rest[1].at)
  BY DEF decodeItems
<1>3. CASE left = 0
  <2>1. items = Decoded(<<>>, at)
    BY <1>2, <1>3
  <2>2. items[1].at = at
    BY <2>1 DEF Decoded
  <2> QED BY <1>1, <2>2
<1>4. CASE left # 0 /\ left < 0 /\ atBreak
  <2>1. items = Decoded(<<>>, at + 1)
    BY <1>2, <1>4
  <2>2. items[1].at = at + 1
    BY <2>1 DEF Decoded
  <2> QED BY <1>1, <1>4, <2>2
<1>5. CASE left # 0 /\ ~ (left < 0 /\ atBreak)
  <2>1. /\ first # Undecodable /\ rest # Undecodable
        /\ items = Decoded(<<first[1].value>> \o rest[1].value, rest[1].at)
    <3> HIDE DEF first, rest, atBreak, items
    <3>1. items # Undecodable
      BY DEF items
    <3> QED BY <1>2, <1>5, <3>1
  <2>2. items[1].at = rest[1].at
    <3> HIDE DEF first, rest, items
    <3> QED BY <2>1 DEF Decoded
  <2>3. first[1].at \in at + 1 .. Len(r) + 1
    BY <2>1, ItemForward
  <2>4. Forward(r, f, first[1].at)
    BY <2>3
  <2>5. left - 1 \in Int
    OBVIOUS
  <2>6. rest[1].at \in first[1].at .. Len(r) + 1
    BY <2>1, <2>4, <2>5 DEF Forward
  <2> HIDE DEF first, rest, items
  <2> QED BY <1>1, <2>2, <2>3, <2>6 DEF items
<1> QED BY <1>3, <1>4, <1>5

\* So everything that is read at a place is.
LEMMA ReadsAgree ==
  ASSUME NEW r \in Seq(Heads), NEW at \in 1 .. Len(r) + 1,
         NEW f, NEW g, \A i \in at + 1 .. Len(r) + 1 : f[i] = g[i] /\ Forward(r, f, i)
  PROVE  ReadAt(r, f, at) = ReadAt(r, g, at)
<1>1. \A depth \in Nat : decodeItem(r, f, at, depth) = decodeItem(r, g, at, depth)
  BY ItemLooksAhead
<1>2. \A depth \in Nat, left \in Int, group \in {1, 2} :
        decodeItems(r, f, at, depth, left, group) = decodeItems(r, g, at, depth, left, group)
  BY ItemsLookAhead
<1>3. [depth \in Nat |-> decodeItem(r, f, at, depth)] = [depth \in Nat |-> decodeItem(r, g, at, depth)]
  BY <1>1
<1>4. \A depth \in Nat, left \in Int :
        [group \in {1, 2} |-> decodeItems(r, f, at, depth, left, group)] =
        [group \in {1, 2} |-> decodeItems(r, g, at, depth, left, group)]
  BY <1>2
<1>5. \A depth \in Nat :
        [left \in Int |-> [group \in {1, 2} |-> decodeItems(r, f, at, depth, left, group)]] =
        [left \in Int |-> [group \in {1, 2} |-> decodeItems(r, g, at, depth, left, group)]]
  BY <1>4
<1>6. [depth \in Nat |-> [left \in Int |-> [group \in {1, 2} |->
          decodeItems(r, f, at, depth, left, group)]]] =
      [depth \in Nat |-> [left \in Int |-> [group \in {1, 2} |->
          decodeItems(r, g, at, depth, left, group)]]]
  BY <1>5
<1> QED BY <1>3, <1>6 DEF ReadAt

\* So if all that is read behind a place moves forward, what is read there does.
LEMMA ReadsForward ==
  ASSUME NEW r \in Seq(Heads), NEW at \in 1 .. Len(r) + 1,
         NEW f, f[at] = ReadAt(r, f, at), \A i \in at + 1 .. Len(r) + 1 : Forward(r, f, i)
  PROVE  Forward(r, f, at)
<1> SUFFICES ASSUME NEW depth \in Nat
             PROVE  /\ f[at].item[depth] # Undecodable =>
                         f[at].item[depth][1].at \in at + 1 .. Len(r) + 1
                    /\ \A left \in Int, group \in {1, 2} :
                         f[at].items[depth][left][group] # Undecodable =>
                           f[at].items[depth][left][group][1].at \in at .. Len(r) + 1
  BY DEF Forward
<1>1. f[at].item[depth] = decodeItem(r, f, at, depth)
  BY DEF ReadAt
<1>2. \A left \in Int, group \in {1, 2} :
        f[at].items[depth][left][group] = decodeItems(r, f, at, depth, left, group)
  BY DEF ReadAt
<1>3. f[at].item[depth] # Undecodable => f[at].item[depth][1].at \in at + 1 .. Len(r) + 1
  BY <1>1, ItemForward
<1>4. \A left \in Int, group \in {1, 2} :
        f[at].items[depth][left][group] # Undecodable =>
          f[at].items[depth][left][group][1].at \in at .. Len(r) + 1
  BY <1>2, ItemsForward
<1> QED BY <1>3, <1>4

\* The reading of a field exists, from its end on,
LEMMA ReadingExists ==
  ASSUME NEW r \in Seq(Heads)
  PROVE  \E f : ReadingOf(f, r)
<1> DEFINE N == Len(r) + 1
           Upto(f, k) == \A c \in 1 .. N : c > N - k => f[c] = ReadAt(r, f, c) /\ Forward(r, f, c)
           S == {k \in Nat : k <= N => \E f : Upto(f, k)}
<1>1. N \in Nat /\ N >= 1
  BY LenProperties
<1>2. 0 \in S
  <2>1. \A c \in 1 .. N : ~ (c > N - 0)
    BY <1>1
  <2>2. Upto(<<>>, 0)
    <3> HIDE DEF N
    <3> QED BY <2>1
  <2> HIDE DEF N, Upto
  <2> QED BY <2>2
<1>3. ASSUME NEW k \in Nat, k \in S PROVE k + 1 \in S
  <2> SUFFICES ASSUME k + 1 <= N PROVE \E f : Upto(f, k + 1)
    <3> HIDE DEF Upto, N
    <3> QED OBVIOUS
  <2>1. k <= N
    BY <1>1
  <2>2. PICK g : Upto(g, k)
    <3> HIDE DEF Upto, N
    <3> QED BY <1>3, <2>1
  <2> DEFINE c0 == N - k
             f == [c \in 1 .. N |-> IF c = c0 THEN ReadAt(r, g, c0) ELSE g[c]]
  <2>3. c0 \in 1 .. N /\ c0 \in 1 .. Len(r) + 1
    BY <1>1
  <2>4. f[c0] = ReadAt(r, g, c0) /\ \A c \in 1 .. N : c # c0 => f[c] = g[c]
    <3> HIDE DEF c0, N
    <3> QED BY <2>3
  <2> HIDE DEF f
  <2>5. \A c \in 1 .. N : c > c0 => f[c] = g[c] /\ Forward(r, g, c) /\ g[c] = ReadAt(r, g, c)
    <3> TAKE c \in 1 .. N
    <3> HAVE c > c0
    <3>1. c > N - k /\ c # c0
      BY <1>1, <2>3
    <3> HIDE DEF c0, N
    <3> QED BY <2>2, <2>4, <3>1
  <2>6. \A c \in 1 .. N : c > c0 => Forward(r, f, c)
    <3> HIDE DEF c0, N
    <3> QED BY <2>5 DEF Forward
  <2>7. ASSUME NEW c \in 1 .. N, c >= c0 PROVE f[c] = ReadAt(r, f, c)
    <3>0. c \in 1 .. Len(r) + 1
      OBVIOUS
    <3>1. \A i \in c + 1 .. Len(r) + 1 : f[i] = g[i] /\ Forward(r, f, i)
      <4> TAKE i \in c + 1 .. Len(r) + 1
      <4>1. i \in 1 .. N /\ i > c0
        BY <1>1, <2>3, <2>7
      <4> HIDE DEF c0, N
      <4> QED BY <2>5, <2>6, <4>1
    <3>2. ReadAt(r, f, c) = ReadAt(r, g, c)
      <4> HIDE DEF c0
      <4> QED BY <3>0, <3>1, ReadsAgree
    <3>3. CASE c = c0
      <4> HIDE DEF c0, N
      <4> QED BY <2>4, <3>2, <3>3
    <3>4. CASE c # c0
      <4>1. c > c0
        BY <1>1, <2>3, <2>7, <3>4
      <4> HIDE DEF c0, N
      <4> QED BY <2>5, <3>2, <4>1
    <3> QED BY <3>3, <3>4
  <2>8. Forward(r, f, c0)
    <3>1. \A i \in c0 + 1 .. Len(r) + 1 : Forward(r, f, i)
      <4> TAKE i \in c0 + 1 .. Len(r) + 1
      <4>1. i \in 1 .. N /\ i > c0
        BY <1>1, <2>3
      <4> HIDE DEF c0, N
      <4> QED BY <2>6, <4>1
    <3>2. f[c0] = ReadAt(r, f, c0)
      <4>1. c0 \in 1 .. N /\ c0 >= c0
        BY <1>1, <2>3
      <4> HIDE DEF c0, N
      <4> QED BY <2>7, <4>1
    <3> HIDE DEF c0
    <3> QED BY <2>3, <3>1, <3>2, ReadsForward
  <2>9. Upto(f, k + 1)
    <3> SUFFICES ASSUME NEW c \in 1 .. N, c > N - (k + 1)
                 PROVE  f[c] = ReadAt(r, f, c) /\ Forward(r, f, c)
      <4> HIDE DEF N
      <4> QED OBVIOUS
    <3>1. c >= c0 /\ (c = c0 \/ c > c0)
      BY <1>1, <2>3
    <3> HIDE DEF c0, N
    <3> QED BY <2>6, <2>7, <2>8, <3>1
  <2> HIDE DEF Upto
  <2> QED BY <2>9
<1>4. N \in S
  <2> HIDE DEF S, N
  <2> QED BY <1>1, <1>2, <1>3, InductionBySet
<1>5. PICK g : Upto(g, N)
  <2> HIDE DEF Upto, N
  <2> QED BY <1>4
<1>6. \A c \in 1 .. N : g[c] = ReadAt(r, g, c) /\ Forward(r, g, c)
  <2>1. \A c \in 1 .. N : c > N - N
    BY <1>1
  <2> HIDE DEF N
  <2> QED BY <1>5, <2>1
<1> DEFINE f == [c \in 1 .. N |-> g[c]]
<1>7. \A c \in 1 .. N : f[c] = g[c]
  OBVIOUS
<1>8. f = [c \in 1 .. N |-> f[c]]
  OBVIOUS
<1> HIDE DEF f
<1>9. ASSUME NEW c \in 1 .. N PROVE f[c] = ReadAt(r, f, c)
  <2>1. \A i \in c + 1 .. Len(r) + 1 : g[i] = f[i] /\ Forward(r, g, i)
    <3> TAKE i \in c + 1 .. Len(r) + 1
    <3>1. i \in 1 .. N
      BY <1>1
    <3> HIDE DEF N
    <3> QED BY <1>6, <1>7, <3>1
  <2>2. ReadAt(r, g, c) = ReadAt(r, f, c)
    BY <2>1, ReadsAgree
  <2> HIDE DEF N
  <2> QED BY <1>6, <1>7, <2>2
<1>10. ReadingOf(f, r)
  <2>1. f = [c \in 1 .. N |-> ReadAt(r, f, c)]
    <3> HIDE DEF N
    <3> QED BY <1>8, <1>9
  <2> QED BY <2>1 DEF ReadingOf
<1> QED BY <1>10

ItemAt(r, at, depth) == decodeFrom(r)[at].item[depth]
ItemsAt(r, at, depth, left, group) == decodeFrom(r)[at].items[depth][left][group]

\* and says at each place what the code reads there.
LEMMA DecodedFrom ==
  ASSUME NEW r \in Seq(Heads), NEW at \in 1 .. Len(r) + 1
  PROVE  /\ \A depth \in Nat : ItemAt(r, at, depth) = decodeItem(r, decodeFrom(r), at, depth)
         /\ \A depth \in Nat, left \in Int, group \in {1, 2} :
              ItemsAt(r, at, depth, left, group) =
                decodeItems(r, decodeFrom(r), at, depth, left, group)
         /\ Forward(r, decodeFrom(r), at)
<1> DEFINE f == decodeFrom(r)
           N == Len(r) + 1
<1>1. PICK g : ReadingOf(g, r)
  BY ReadingExists
<1>2. f = CHOOSE h : ReadingOf(h, r)
  BY DEF decodeFrom, ReadingOf, ReadAt
<1>3. ReadingOf(f, r)
  <2> HIDE DEF f
  <2> QED BY <1>1, <1>2
<1> HIDE DEF f
<1>4. \A c \in 1 .. N : f[c] = ReadAt(r, f, c)
  BY <1>3 DEF ReadingOf
<1>5. N \in Nat /\ N >= 1
  BY LenProperties
<1> DEFINE S == {k \in Nat : k <= N => \A c \in 1 .. N : c > N - k => Forward(r, f, c)}
<1>6. 0 \in S
  <2>1. \A c \in 1 .. N : ~ (c > N - 0)
    BY <1>5
  <2> HIDE DEF N
  <2> QED BY <2>1
<1>7. ASSUME NEW k \in Nat, k \in S PROVE k + 1 \in S
  <2> SUFFICES ASSUME k + 1 <= N, NEW c \in 1 .. N, c > N - (k + 1)
               PROVE  Forward(r, f, c)
    <3> HIDE DEF N
    <3> QED OBVIOUS
  <2>1. \A i \in c + 1 .. Len(r) + 1 : Forward(r, f, i)
    <3> TAKE i \in c + 1 .. Len(r) + 1
    <3>1. i \in 1 .. N /\ i > N - k /\ k <= N
      BY <1>5
    <3> QED BY <1>7, <3>1
  <2>2. c \in 1 .. Len(r) + 1 /\ f[c] = ReadAt(r, f, c)
    BY <1>4
  <2> QED BY <2>1, <2>2, ReadsForward
<1>8. N \in S
  <2> HIDE DEF S, N
  <2> QED BY <1>5, <1>6, <1>7, InductionBySet
<1>9. Forward(r, f, at)
  <2>1. N <= N /\ at \in 1 .. N /\ at > N - N
    BY <1>5
  <2> HIDE DEF N
  <2> QED BY <1>8, <2>1
<1>10. f[at] = ReadAt(r, f, at)
  BY <1>4
<1> QED BY <1>9, <1>10 DEF ItemAt, ItemsAt, ReadAt, f

(* ------------------------ sequences of sequences ----------------------- *)

\* Two sequences, one behind the other.
LEMMA ConcatPlaces ==
  ASSUME NEW X, NEW s \in Seq(X), NEW t \in Seq(X)
  PROVE  /\ s \o t \in Seq(X) /\ Len(s \o t) = Len(s) + Len(t)
         /\ \A k \in 1 .. Len(s) : (s \o t)[k] = s[k]
         /\ \A k \in 1 .. Len(t) : (s \o t)[Len(s) + k] = t[k]
<1>1. Len(s) \in Nat /\ Len(t) \in Nat
  BY LenProperties
<1>2. /\ s \o t \in Seq(X) /\ Len(s \o t) = Len(s) + Len(t)
      /\ \A i \in 1 .. Len(s) + Len(t) :
           (s \o t)[i] = IF i <= Len(s) THEN s[i] ELSE t[i - Len(s)]
  BY ConcatProperties
<1>3. \A k \in 1 .. Len(s) : (s \o t)[k] = s[k]
  <2> TAKE k \in 1 .. Len(s)
  <2>1. k \in 1 .. Len(s) + Len(t) /\ k <= Len(s)
    BY <1>1
  <2> QED BY <1>2, <2>1
<1>4. \A k \in 1 .. Len(t) : (s \o t)[Len(s) + k] = t[k]
  <2> TAKE k \in 1 .. Len(t)
  <2> DEFINE i == Len(s) + k
  <2>1. i \in 1 .. Len(s) + Len(t) /\ ~ (i <= Len(s)) /\ i - Len(s) = k
    BY <1>1
  <2> HIDE DEF i
  <2>2. (s \o t)[i] = t[k]
    BY <1>2, <2>1
  <2> QED BY <2>2 DEF i
<1> QED BY <1>2, <1>3, <1>4

\* What FlattenSeq joins, from the first sequence to each.
JoinedBy(f, seqs) ==
  f = [i \in 1 .. Len(seqs) |-> IF i = 1 THEN seqs[i] ELSE f[i - 1] \o seqs[i]]

\* The equation by which FlattenSeq joins has a solution.
LEMMA JoinedExists ==
  ASSUME NEW seqs, Len(seqs) \in Nat
  PROVE  \E f : JoinedBy(f, seqs)
<1> DEFINE N == Len(seqs)
           Joining(f, i) == IF i = 1 THEN seqs[i] ELSE f[i - 1] \o seqs[i]
           Upto(f, k) == \A i \in 1 .. N : i <= k => f[i] = Joining(f, i)
           S == {k \in Nat : \E f : Upto(f, k)}
<1>1. 0 \in S
  <2>1. \A i \in 1 .. N : ~ (i <= 0)
    OBVIOUS
  <2>2. Upto(<<>>, 0)
    <3> HIDE DEF N, Joining
    <3> QED BY <2>1
  <2> HIDE DEF Upto, N
  <2> QED BY <2>2
<1>2. ASSUME NEW k \in Nat, k \in S PROVE k + 1 \in S
  <2>1. PICK g : Upto(g, k)
    <3> HIDE DEF Upto, N
    <3> QED BY <1>2
  <2> DEFINE f == [i \in 1 .. N |-> IF i = k + 1 THEN Joining(g, k + 1) ELSE g[i]]
  <2>2. \A i \in 1 .. N : f[i] = IF i = k + 1 THEN Joining(g, k + 1) ELSE g[i]
    <3> HIDE DEF N, Joining
    <3> QED OBVIOUS
  <2> HIDE DEF f
  <2>3. ASSUME NEW i \in 1 .. N, i <= k + 1 PROVE f[i] = Joining(f, i)
    <3>1. Joining(f, i) = Joining(g, i)
      <4>1. CASE i = 1
        BY <4>1
      <4>2. CASE i # 1
        <5>1. i - 1 \in 1 .. N /\ i - 1 # k + 1
          BY <2>3, <4>2
        <5>2. f[i - 1] = g[i - 1]
          <6> HIDE DEF N, Joining
          <6> QED BY <2>2, <5>1
        <5> QED BY <5>2
      <4> QED BY <4>1, <4>2
    <3>2. CASE i = k + 1
      <4> HIDE DEF N, Joining
      <4> QED BY <2>2, <3>1, <3>2
    <3>3. CASE i # k + 1
      <4>1. i <= k
        BY <2>3, <3>3
      <4> HIDE DEF N, Joining
      <4> QED BY <2>1, <2>2, <3>1, <3>3, <4>1
    <3> QED BY <3>2, <3>3
  <2>4. Upto(f, k + 1)
    <3> HIDE DEF N, Joining
    <3> QED BY <2>3
  <2> HIDE DEF Upto
  <2> QED BY <2>4
<1>3. N \in S
  <2> HIDE DEF S
  <2> QED BY <1>1, <1>2, InductionBySet
<1>4. PICK g : Upto(g, N)
  <2> HIDE DEF Upto, N
  <2> QED BY <1>3
<1> DEFINE f == [i \in 1 .. N |-> g[i]]
<1>5. \A i \in 1 .. N : f[i] = g[i]
  OBVIOUS
<1>6. f = [i \in 1 .. N |-> f[i]]
  OBVIOUS
<1> HIDE DEF f
<1>7. ASSUME NEW i \in 1 .. N PROVE f[i] = Joining(f, i)
  <2>1. CASE i = 1
    BY <1>4, <1>5, <2>1
  <2>2. CASE i # 1
    <3>1. i - 1 \in 1 .. N
      BY <2>2
    <3>2. f[i - 1] = g[i - 1] /\ f[i] = g[i]
      BY <1>5, <3>1
    <3>3. g[i] = Joining(g, i)
      BY <1>4
    <3> QED BY <2>2, <3>2, <3>3
  <2> QED BY <2>1, <2>2
<1>8. f = [i \in 1 .. N |-> Joining(f, i)]
  <2> HIDE DEF N, Joining
  <2> QED BY <1>6, <1>7
<1> QED BY <1>8 DEF JoinedBy

\* Each sequence is at its own place of the flat one: behind the places p of the one before.
PlacesOf(p, seqs) ==
  /\ p \in [0 .. Len(seqs) -> Nat] /\ p[0] = 0 /\ Len(FlattenSeq(seqs)) = p[Len(seqs)]
  /\ \A j \in 1 .. Len(seqs) :
       /\ p[j] = p[j - 1] + Len(seqs[j]) /\ p[j] <= Len(FlattenSeq(seqs))
       /\ \A k \in 1 .. Len(seqs[j]) : FlattenSeq(seqs)[p[j - 1] + k] = seqs[j][k]

\* FlattenSeq joins the sequences in their order, each at its own place.
LEMMA FlattenPlaces ==
  ASSUME NEW X, NEW seqs \in Seq(Seq(X))
  PROVE  FlattenSeq(seqs) \in Seq(X) /\ \E p : PlacesOf(p, seqs)
<1> DEFINE N == Len(seqs)
           f == CHOOSE h : JoinedBy(h, seqs)
           F(i) == IF i = 0 THEN <<>> ELSE f[i]
<1>0. N \in Nat /\ \A i \in 1 .. N : seqs[i] \in Seq(X)
  BY LenProperties, ElementOfSeq
<1>1. CASE N = 0
  <2>1. seqs = <<>>
    BY <1>1, EmptySeq
  <2>2. FlattenSeq(seqs) = <<>>
    BY <2>1 DEF FlattenSeq
  <2> DEFINE p == [i \in 0 .. 0 |-> 0]
  <2>3. PlacesOf(p, seqs)
    BY <2>1, <2>2 DEF PlacesOf
  <2>4. <<>> \in Seq(X)
    BY EmptySeq
  <2> HIDE DEF p
  <2> QED BY <2>2, <2>3, <2>4
<1>2. CASE N # 0
  <2>1. FlattenSeq(seqs) = f[N]
    BY <1>0, <1>2 DEF FlattenSeq, JoinedBy
  <2>2. JoinedBy(f, seqs)
    <3>1. \E h : JoinedBy(h, seqs)
      BY <1>0, JoinedExists
    <3> QED BY <3>1
  <2> HIDE DEF f
  <2>3. \A i \in 1 .. N : f[i] = IF i = 1 THEN seqs[i] ELSE f[i - 1] \o seqs[i]
    BY <2>2 DEF JoinedBy
  <2> DEFINE Keeps(j) == /\ F(j) \in Seq(X)
                         /\ \A i \in 0 .. j : /\ F(i) \in Seq(X) /\ Len(F(i)) <= Len(F(j))
                                              /\ \A k \in 1 .. Len(F(i)) : F(j)[k] = F(i)[k]
  <2>4. Keeps(0)
    <3>1. F(0) = <<>> /\ <<>> \in Seq(X) /\ Len(<<>>) = 0
      BY EmptySeq
    <3> HIDE DEF F
    <3>2. ASSUME NEW i \in 0 .. 0
          PROVE  /\ F(i) \in Seq(X) /\ Len(F(i)) <= Len(F(0))
                 /\ \A k \in 1 .. Len(F(i)) : F(0)[k] = F(i)[k]
      <4>1. i = 0
        OBVIOUS
      <4>2. F(i) = <<>>
        BY <3>1, <4>1
      <4>3. F(i) \in Seq(X)
        BY <3>1, <4>2
      <4>4. Len(F(i)) = 0 /\ Len(F(0)) = 0
        BY <3>1, <4>2
      <4> QED BY <4>3, <4>4
    <3> QED BY <3>1, <3>2
  <2>5. \A i \in 1 .. N : F(i - 1) \in Seq(X) => F(i) = F(i - 1) \o seqs[i]
    <3> SUFFICES ASSUME NEW i \in 1 .. N, F(i - 1) \in Seq(X) PROVE F(i) = F(i - 1) \o seqs[i]
      OBVIOUS
    <3>1. CASE i = 1
      <4>1. F(i) = seqs[1] /\ F(i - 1) = <<>>
        BY <2>3, <3>1
      <4>2. <<>> \o seqs[1] = seqs[1]
        BY <1>0, <1>2, ConcatEmptySeq
      <4> HIDE DEF F
      <4> QED BY <3>1, <4>1, <4>2
    <3>2. CASE i # 1
      <4>1. i # 0 /\ i - 1 # 0
        BY <3>2
      <4> QED BY <2>3, <3>2, <4>1
    <3> QED BY <3>1, <3>2
  <2> HIDE DEF F
  <2>6. ASSUME NEW j \in Nat, j < N, Keeps(j)
        PROVE  /\ Keeps(j + 1) /\ Len(F(j + 1)) = Len(F(j)) + Len(seqs[j + 1])
               /\ \A k \in 1 .. Len(seqs[j + 1]) : F(j + 1)[Len(F(j)) + k] = seqs[j + 1][k]
    <3> DEFINE m == j + 1
    <3>1. m \in 1 .. N /\ m - 1 = j /\ \A i \in 0 .. m : i \in 0 .. j \/ i = m
      BY <2>6
    <3>2. seqs[m] \in Seq(X) /\ F(j) \in Seq(X)
      BY <1>0, <2>6, <3>1
    <3>3. F(m) = F(j) \o seqs[m]
      <4> HIDE DEF m
      <4> QED BY <2>5, <3>1, <3>2
    <3>4. /\ F(m) \in Seq(X) /\ Len(F(m)) = Len(F(j)) + Len(seqs[m])
          /\ \A k \in 1 .. Len(F(j)) : F(m)[k] = F(j)[k]
          /\ \A k \in 1 .. Len(seqs[m]) : F(m)[Len(F(j)) + k] = seqs[m][k]
      <4> DEFINE s == F(j)
                 t == seqs[m]
      <4>1. /\ s \o t \in Seq(X) /\ Len(s \o t) = Len(s) + Len(t)
            /\ \A k \in 1 .. Len(s) : (s \o t)[k] = s[k]
            /\ \A k \in 1 .. Len(t) : (s \o t)[Len(s) + k] = t[k]
        <5> HIDE DEF s, t
        <5>1. s \in Seq(X) /\ t \in Seq(X)
          BY <3>2 DEF s, t
        <5> QED BY <5>1, ConcatPlaces
      <4> HIDE DEF m
      <4> QED BY <3>3, <4>1
    <3>5. Len(F(j)) \in Nat /\ Len(seqs[m]) \in Nat
      BY <3>2, LenProperties
    <3>6. Keeps(m)
      <4> SUFFICES ASSUME NEW i \in 0 .. m
                   PROVE  /\ F(i) \in Seq(X) /\ Len(F(i)) <= Len(F(m))
                          /\ \A k \in 1 .. Len(F(i)) : F(m)[k] = F(i)[k]
        <5> HIDE DEF m
        <5> QED BY <3>4
      <4>1. CASE i = m
        <5>1. Len(F(m)) \in Nat
          BY <3>4, LenProperties
        <5> HIDE DEF m
        <5> QED BY <3>4, <4>1, <5>1
      <4>2. CASE i \in 0 .. j
        <5>1. /\ F(i) \in Seq(X) /\ Len(F(i)) <= Len(F(j))
              /\ \A k \in 1 .. Len(F(i)) : F(j)[k] = F(i)[k]
          BY <2>6, <4>2
        <5>2. Len(F(i)) \in Nat
          BY <5>1, LenProperties
        <5> HIDE DEF m
        <5> QED BY <3>4, <3>5, <5>1, <5>2
      <4> QED BY <3>1, <4>1, <4>2
    <3> QED BY <3>4, <3>6
  <2> DEFINE S == {j \in Nat : j <= N => Keeps(j)}
  <2>7. 0 \in S
    <3> HIDE DEF Keeps
    <3> QED BY <2>4
  <2>8. ASSUME NEW j \in Nat, j \in S PROVE j + 1 \in S
    <3> SUFFICES ASSUME j + 1 <= N PROVE Keeps(j + 1)
      <4> HIDE DEF Keeps, N
      <4> QED OBVIOUS
    <3>1. j < N /\ j <= N
      BY <1>0
    <3> HIDE DEF Keeps, N
    <3> QED BY <2>6, <2>8, <3>1
  <2>9. \A j \in 0 .. N : Keeps(j)
    <3>1. Nat \subseteq S
      <4> HIDE DEF S
      <4> QED BY <2>7, <2>8, InductionBySet
    <3> HIDE DEF Keeps, N
    <3> QED BY <1>0, <3>1
  <2> DEFINE p == [j \in 0 .. N |-> Len(F(j))]
  <2>10. f[N] = F(N) /\ F(0) = <<>>
    BY <1>0, <1>2 DEF F
  <2>11. \A j \in 0 .. N : p[j] = Len(F(j)) /\ F(j) \in Seq(X) /\ Len(F(j)) \in Nat
    <3>1. \A j \in 0 .. N : F(j) \in Seq(X)
      BY <2>9
    <3> HIDE DEF N
    <3> QED BY <3>1, LenProperties
  <2>12. p \in [0 .. N -> Nat]
    <3> HIDE DEF N
    <3> QED BY <2>11
  <2>13. ASSUME NEW j \in 1 .. N
         PROVE  /\ p[j] = p[j - 1] + Len(seqs[j]) /\ p[j] <= Len(FlattenSeq(seqs))
                /\ \A k \in 1 .. Len(seqs[j]) : FlattenSeq(seqs)[p[j - 1] + k] = seqs[j][k]
    <3> DEFINE i == j - 1
    <3>1. i \in Nat /\ i < N /\ i \in 0 .. N /\ j \in 0 .. N /\ N \in 0 .. N /\ i + 1 = j /\ j \in 0 .. N
      BY <1>0
    <3> HIDE DEF i
    <3>2. Keeps(i) /\ Keeps(N)
      <4> HIDE DEF Keeps, N
      <4> QED BY <2>9, <3>1
    <3>3. /\ Len(F(j)) = Len(F(i)) + Len(seqs[j])
          /\ \A k \in 1 .. Len(seqs[j]) : F(j)[Len(F(i)) + k] = seqs[j][k]
      <4> HIDE DEF Keeps, N
      <4> QED BY <2>6, <3>1, <3>2
    <3>4. Len(F(j)) <= Len(F(N)) /\ \A k \in 1 .. Len(F(j)) : F(N)[k] = F(j)[k]
      BY <3>1, <3>2
    <3>5. p[j] = Len(F(j)) /\ p[i] = Len(F(i)) /\ Len(F(i)) \in Nat /\ Len(F(j)) \in Nat
      <4> HIDE DEF p, N
      <4> QED BY <2>11, <3>1
    <3>6. Len(seqs[j]) \in Nat
      BY <1>0, LenProperties
    <3>7. FlattenSeq(seqs) = F(N)
      BY <2>1, <2>10
    <3>8. \A k \in 1 .. Len(seqs[j]) : F(N)[Len(F(i)) + k] = seqs[j][k]
      <4> TAKE k \in 1 .. Len(seqs[j])
      <4>1. Len(F(i)) + k \in 1 .. Len(F(j))
        BY <3>3, <3>5, <3>6
      <4> QED BY <3>3, <3>4, <4>1
    <3> HIDE DEF p
    <3> QED BY <3>3, <3>4, <3>5, <3>7, <3>8 DEF i
  <2>14. p[0] = 0 /\ Len(FlattenSeq(seqs)) = p[N]
    <3>1. 0 \in 0 .. N /\ N \in 0 .. N /\ Len(<<>>) = 0
      BY <1>0
    <3> HIDE DEF p, N
    <3> QED BY <2>1, <2>10, <2>11, <3>1
  <2>15. PlacesOf(p, seqs)
    <3> HIDE DEF p
    <3> QED BY <2>12, <2>13, <2>14 DEF PlacesOf
  <2>16. FlattenSeq(seqs) \in Seq(X)
    <3>1. N \in 0 .. N
      BY <1>0
    <3> HIDE DEF N
    <3> QED BY <2>1, <2>10, <2>11, <3>1
  <2> HIDE DEF p
  <2> QED BY <2>15, <2>16
<1> QED BY <1>1, <1>2

\* One sequence is flat.
LEMMA FlattenOne ==
  ASSUME NEW X, NEW s \in Seq(X)
  PROVE  FlattenSeq(<<s>>) = s
<1> DEFINE seqs == <<s>>
<1>1. seqs \in Seq(Seq(X)) /\ Len(seqs) = 1 /\ seqs[1] = s
  OBVIOUS
<1> HIDE DEF seqs
<1>2. FlattenSeq(seqs) \in Seq(X) /\ \E p : PlacesOf(p, seqs)
  BY <1>1, FlattenPlaces
<1>3. PICK p : PlacesOf(p, seqs)
  BY <1>2
<1>4. Len(s) \in Nat
  BY LenProperties
<1>5. 1 \in 1 .. Len(seqs) /\ 1 - 1 = 0
  BY <1>1
<1>6. p[0] = 0 /\ p[1] = p[0] + Len(s) /\ Len(FlattenSeq(seqs)) = p[1]
      /\ \A k \in 1 .. Len(s) : FlattenSeq(seqs)[p[0] + k] = s[k]
  BY <1>1, <1>3, <1>5 DEF PlacesOf
<1>7. Len(FlattenSeq(seqs)) = Len(s) /\ \A k \in 1 .. Len(s) : FlattenSeq(seqs)[k] = s[k]
  BY <1>4, <1>6
<1>8. FlattenSeq(seqs) = s
  BY <1>2, <1>7, SeqEqual
<1> QED BY <1>8 DEF seqs

\* A sequence that was cut into its elements is itself when it is joined.
LEMMA FlattenElements ==
  ASSUME NEW X, NEW s \in Seq(X)
  PROVE  FlattenSeq([i \in 1 .. Len(s) |-> <<s[i]>>]) = s
<1> DEFINE N == Len(s)
           seqs == [i \in 1 .. N |-> <<s[i]>>]
<1>1. N \in Nat /\ \A i \in 1 .. N : s[i] \in X
  BY LenProperties, ElementOfSeq
<1>2. \A i \in 1 .. N : <<s[i]>> \in Seq(X)
  BY <1>1
<1>3. seqs \in Seq(Seq(X)) /\ Len(seqs) = N /\ \A i \in 1 .. N : seqs[i] = <<s[i]>>
  <2> HIDE DEF N
  <2> QED BY <1>1, <1>2
<1> HIDE DEF seqs
<1>4. FlattenSeq(seqs) \in Seq(X) /\ \E p : PlacesOf(p, seqs)
  BY <1>3, FlattenPlaces
<1>5. PICK p : PlacesOf(p, seqs)
  BY <1>4
<1>6. /\ p[0] = 0 /\ Len(FlattenSeq(seqs)) = p[N]
      /\ \A j \in 1 .. N : p[j] = p[j - 1] + Len(seqs[j])
      /\ \A j \in 1 .. N : \A k \in 1 .. Len(seqs[j]) : FlattenSeq(seqs)[p[j - 1] + k] = seqs[j][k]
  BY <1>3, <1>5 DEF PlacesOf
<1>7. \A j \in 1 .. N : Len(seqs[j]) = 1 /\ seqs[j][1] = s[j]
  <2> TAKE j \in 1 .. N
  <2>1. seqs[j] = <<s[j]>>
    BY <1>3
  <2>2. Len(<<s[j]>>) = 1 /\ <<s[j]>>[1] = s[j]
    OBVIOUS
  <2> HIDE DEF N
  <2> QED BY <2>1, <2>2
<1> DEFINE S == {j \in Nat : j <= N => p[j] = j}
<1>8. 0 \in S
  BY <1>6
<1>9. ASSUME NEW j \in Nat, j \in S PROVE j + 1 \in S
  <2> SUFFICES ASSUME j + 1 <= N PROVE p[j + 1] = j + 1
    OBVIOUS
  <2> DEFINE m == j + 1
  <2>1. m \in 1 .. N /\ m - 1 = j /\ p[j] = j
    BY <1>1, <1>9
  <2>2. p[m] = p[m - 1] + Len(seqs[m]) /\ Len(seqs[m]) = 1
    <3> HIDE DEF N, m
    <3> QED BY <1>6, <1>7, <2>1
  <2> QED BY <2>1, <2>2
<1>10. \A j \in 0 .. N : p[j] = j
  <2>1. Nat \subseteq S
    <3> HIDE DEF S
    <3> QED BY <1>8, <1>9, InductionBySet
  <2> QED BY <2>1
<1>11. \A j \in 1 .. N : FlattenSeq(seqs)[j] = s[j]
  <2> TAKE j \in 1 .. N
  <2>1. p[j - 1] = j - 1 /\ 1 \in 1 .. Len(seqs[j])
    BY <1>7, <1>10
  <2>2. FlattenSeq(seqs)[p[j - 1] + 1] = s[j]
    BY <1>6, <1>7, <2>1
  <2>3. p[j - 1] + 1 = j
    BY <2>1
  <2> QED BY <2>2, <2>3
<1>12. Len(FlattenSeq(seqs)) = N
  BY <1>1, <1>6, <1>10
<1>13. FlattenSeq(seqs) = s
  BY <1>4, <1>11, <1>12, SeqEqual
<1> QED BY <1>13 DEF seqs

(* ------------------------- what is read of words ----------------------- *)

Begins(r, at, w) == \A k \in 1 .. Len(w) : at + k - 1 <= Len(r) => r[at + k - 1] = w[k]

\* What is decoded is a value and the place behind it.
LEMMA DecodedIsSome ==
  \A value, next : /\ Decoded(value, next) # Undecodable /\ Undecodable # Decoded(value, next)
                   /\ Decoded(value, next)[1].value = value /\ Decoded(value, next)[1].at = next
BY DEF Decoded, Undecodable

\* At a place within the field stands what the word has there.
LEMMA BeginsAt ==
  ASSUME NEW r, NEW at, NEW w, Begins(r, at, w), NEW k \in 1 .. Len(w), NEW i,
         i = at + k - 1, i <= Len(r)
  PROVE  r[i] = w[k]
BY DEF Begins

\* An item that is written is read where it begins, unless the field ends within it,
IsRead(w, depth, value) ==
  \A r \in Seq(Heads) : \A at \in 1 .. Len(r) + 1 :
    Begins(r, at, w) =>
      ItemAt(r, at, depth) = IF at + Len(w) - 1 <= Len(r) THEN Decoded(value, at + Len(w))
                             ELSE Undecodable

\* or it is nowhere read.
IsNoItem(w, depth) ==
  \A r \in Seq(Heads) : \A at \in 1 .. Len(r) + 1 :
    Begins(r, at, w) => ItemAt(r, at, depth) = Undecodable

IsWord(w) == w \in Seq(Heads) /\ w # <<>> /\ w[1] # Break

\* Tokens, what opens an indefinite length and the break are heads.
LEMMA HeadsTyped ==
  /\ \A major \in {0, 1, 2, 3, 6, 7}, argument \in Seq(Symbols) : Token(major, argument) \in Heads
  /\ \A major \in {4, 5}, n \in Nat : Token(major, <<n>>) \in Heads
  /\ \A major \in 0 .. 7 : Open(major) \in Heads
  /\ Break \in Heads
<1>1. ASSUME NEW major \in {0, 1, 2, 3, 6, 7}, NEW argument \in Seq(Symbols)
      PROVE  Token(major, argument) \in Heads
  <2> DEFINE t == <<major, FALSE, argument>>
  <2>0. major \in 0 .. 7 /\ FALSE \in BOOLEAN /\ ~ (major \in {4, 5})
    OBVIOUS
  <2>1. t \in (0 .. 7) \X BOOLEAN \X Seq(Symbols) /\ t[1] = major /\ ~ (t[1] \in {4, 5})
    BY <2>0, Zenon
  <2> HIDE DEF t
  <2>2. t \in Heads
    BY <2>1 DEF Heads
  <2> QED BY <2>2 DEF Token, t
<1>2. ASSUME NEW major \in {4, 5}, NEW n \in Nat
      PROVE  Token(major, <<n>>) \in Heads
  <2>1. <<n>> \in Seq(Symbols) /\ <<n>>[1] = n
    BY DEF Symbols
  <2> DEFINE a == <<n>>
             t == <<major, FALSE, a>>
  <2>2. t \in (0 .. 7) \X BOOLEAN \X Seq(Symbols) /\ t[3] = a
    <3> HIDE DEF a
    <3>1. a \in Seq(Symbols)
      BY <2>1 DEF a
    <3>2. major \in 0 .. 7 /\ FALSE \in BOOLEAN
      OBVIOUS
    <3> QED BY <3>1, <3>2, Zenon
  <2>3. t[3][1] \in Nat
    BY <2>2
  <2> HIDE DEF t
  <2>4. t \in Heads
    BY <2>2, <2>3 DEF Heads
  <2> QED BY <2>4 DEF Token, t
<1>3. ASSUME NEW major \in 0 .. 7
      PROVE  Open(major) \in Heads
  <2>1. <<>> \in Seq(Symbols)
    BY EmptySeq
  <2> QED BY <2>1 DEF Open, Heads
<1> QED BY <1>1, <1>2, <1>3 DEF Break

\* An item is read from the head at its place: behind the field or too deep there is none.
LEMMA ItemFacts ==
  ASSUME NEW r \in Seq(Heads), NEW at \in 1 .. Len(r) + 1, NEW depth \in Nat
  PROVE  /\ ItemAt(r, at, depth) = decodeItem(r, decodeFrom(r), at, depth)
         /\ ReadsAs(r, decodeFrom(r), at, depth)
         /\ DOMAIN r = 1 .. Len(r) /\ Len(r) \in Nat
         /\ at > Len(r) \/ depth > MaxDepth => ItemAt(r, at, depth) = Undecodable
<1>1. /\ ItemAt(r, at, depth) = decodeItem(r, decodeFrom(r), at, depth)
      /\ ReadsAs(r, decodeFrom(r), at, depth)
  BY DecodedFrom, ItemIsRead
<1>2. DOMAIN r = 1 .. Len(r) /\ Len(r) \in Nat
  OBVIOUS
<1>3. at > Len(r) \/ depth > MaxDepth => Refused(r, decodeFrom(r), at, depth)
  BY <1>2 DEF Refused
<1> QED BY <1>1, <1>2, <1>3 DEF ReadsAs

\* A number, the bytes of a string, a text, or what is simple.
LEMMA PlainIsRead ==
  ASSUME NEW depth \in Nat, depth <= MaxDepth, NEW argument
  PROVE  /\ IsRead(<<Token(0, argument)>>, depth, <<"int", argument[1]>>)
         /\ IsRead(<<Token(1, argument)>>, depth, <<"int", -1 - argument[1]>>)
         /\ IsRead(<<Token(2, argument)>>, depth, <<"bytes", argument>>)
         /\ IsRead(<<Token(3, argument)>>, depth, <<"text", argument>>)
         /\ IsRead(<<Token(7, argument)>>, depth, SimpleValue(argument))
<1>0. MaxDepth \in Nat
  BY GalleryAssumption
<1>1. ASSUME NEW major \in {0, 1, 2, 3, 7}, NEW r \in Seq(Heads), NEW at \in 1 .. Len(r) + 1,
             Begins(r, at, <<Token(major, argument)>>), at <= Len(r)
      PROVE  /\ ~ Refused(r, decodeFrom(r), at, depth)
             /\ r[at][1] = major /\ ~ r[at][2] /\ r[at][3] = argument
  <2>1. 1 \in 1 .. Len(<<Token(major, argument)>>) /\ at + 1 - 1 = at
        /\ <<Token(major, argument)>>[1] = Token(major, argument)
    BY <1>1
  <2>2. r[at] = Token(major, argument)
    BY <1>1, <2>1 DEF Begins
  <2>3. r[at][1] = major /\ ~ r[at][2] /\ r[at][3] = argument
    BY <2>2 DEF Token
  <2>4. at \in DOMAIN r /\ ~ (depth > MaxDepth)
    BY <1>0, <1>1
  <2> QED BY <2>3, <2>4 DEF Refused
<1>2. ASSUME NEW major \in {0, 1, 2, 3, 7}, NEW value,
             \A r \in Seq(Heads) : \A at \in 1 .. Len(r) + 1 :
               Begins(r, at, <<Token(major, argument)>>) /\ at <= Len(r) =>
                 ItemAt(r, at, depth) = Decoded(value, at + 1)
      PROVE  IsRead(<<Token(major, argument)>>, depth, value)
  <2> SUFFICES ASSUME NEW r \in Seq(Heads), NEW at \in 1 .. Len(r) + 1,
                      Begins(r, at, <<Token(major, argument)>>)
               PROVE  ItemAt(r, at, depth) =
                        IF at + Len(<<Token(major, argument)>>) - 1 <= Len(r)
                        THEN Decoded(value, at + Len(<<Token(major, argument)>>)) ELSE Undecodable
    BY DEF IsRead
  <2>1. Len(<<Token(major, argument)>>) = 1
    OBVIOUS
  <2>2. Len(r) \in Nat
    OBVIOUS
  <2>3. CASE at <= Len(r)
    BY <1>2, <2>1, <2>2, <2>3
  <2>4. CASE ~ (at <= Len(r))
    <3>1. at > Len(r)
      BY <2>2, <2>4
    <3>2. ItemAt(r, at, depth) = Undecodable
      BY <3>1, ItemFacts
    <3> QED BY <2>1, <2>2, <2>4, <3>2
  <2> QED BY <2>3, <2>4
<1>3. ASSUME NEW r \in Seq(Heads), NEW at \in 1 .. Len(r) + 1, at <= Len(r)
      PROVE  /\ Begins(r, at, <<Token(0, argument)>>) =>
                  ItemAt(r, at, depth) = Decoded(<<"int", argument[1]>>, at + 1)
             /\ Begins(r, at, <<Token(1, argument)>>) =>
                  ItemAt(r, at, depth) = Decoded(<<"int", -1 - argument[1]>>, at + 1)
             /\ Begins(r, at, <<Token(2, argument)>>) =>
                  ItemAt(r, at, depth) = Decoded(<<"bytes", argument>>, at + 1)
             /\ Begins(r, at, <<Token(3, argument)>>) =>
                  ItemAt(r, at, depth) = Decoded(<<"text", argument>>, at + 1)
             /\ Begins(r, at, <<Token(7, argument)>>) =>
                  ItemAt(r, at, depth) = Decoded(SimpleValue(argument), at + 1)
  <2>1. /\ ItemAt(r, at, depth) = decodeItem(r, decodeFrom(r), at, depth)
        /\ ReadsAs(r, decodeFrom(r), at, depth)
    BY ItemFacts
  <2>2. ASSUME Begins(r, at, <<Token(0, argument)>>)
        PROVE  ItemAt(r, at, depth) = Decoded(<<"int", argument[1]>>, at + 1)
    <3>1. ~ Refused(r, decodeFrom(r), at, depth) /\ r[at][1] = 0 /\ ~ r[at][2] /\ r[at][3] = argument
      BY <1>1, <1>3, <2>2
    <3> QED BY <2>1, <3>1 DEF ReadsAs
  <2>3. ASSUME Begins(r, at, <<Token(1, argument)>>)
        PROVE  ItemAt(r, at, depth) = Decoded(<<"int", -1 - argument[1]>>, at + 1)
    <3>1. ~ Refused(r, decodeFrom(r), at, depth) /\ r[at][1] = 1 /\ ~ r[at][2] /\ r[at][3] = argument
      BY <1>1, <1>3, <2>3
    <3> QED BY <2>1, <3>1 DEF ReadsAs
  <2>4. ASSUME Begins(r, at, <<Token(2, argument)>>)
        PROVE  ItemAt(r, at, depth) = Decoded(<<"bytes", argument>>, at + 1)
    <3>1. ~ Refused(r, decodeFrom(r), at, depth) /\ r[at][1] = 2 /\ ~ r[at][2] /\ r[at][3] = argument
      BY <1>1, <1>3, <2>4
    <3> QED BY <2>1, <3>1 DEF ReadsAs
  <2>5. ASSUME Begins(r, at, <<Token(3, argument)>>)
        PROVE  ItemAt(r, at, depth) = Decoded(<<"text", argument>>, at + 1)
    <3>1. ~ Refused(r, decodeFrom(r), at, depth) /\ r[at][1] = 3 /\ ~ r[at][2] /\ r[at][3] = argument
      BY <1>1, <1>3, <2>5
    <3> QED BY <2>1, <3>1 DEF ReadsAs
  <2>6. ASSUME Begins(r, at, <<Token(7, argument)>>)
        PROVE  ItemAt(r, at, depth) = Decoded(SimpleValue(argument), at + 1)
    <3>1. ~ Refused(r, decodeFrom(r), at, depth) /\ r[at][1] = 7 /\ ~ r[at][2] /\ r[at][3] = argument
      BY <1>1, <1>3, <2>6
    <3> QED BY <2>1, <3>1 DEF ReadsAs
  <2> QED BY <2>2, <2>3, <2>4, <2>5, <2>6
<1>4. IsRead(<<Token(0, argument)>>, depth, <<"int", argument[1]>>)
  BY <1>2, <1>3
<1>5. IsRead(<<Token(1, argument)>>, depth, <<"int", -1 - argument[1]>>)
  BY <1>2, <1>3
<1>6. IsRead(<<Token(2, argument)>>, depth, <<"bytes", argument>>)
  BY <1>2, <1>3
<1>7. IsRead(<<Token(3, argument)>>, depth, <<"text", argument>>)
  BY <1>2, <1>3
<1>8. IsRead(<<Token(7, argument)>>, depth, SimpleValue(argument))
  BY <1>2, <1>3
<1> QED BY <1>4, <1>5, <1>6, <1>7, <1>8

\* A tag is as good as what it tags.
LEMMA TaggedIsRead ==
  ASSUME NEW depth \in Nat, depth <= MaxDepth, NEW t \in Heads, NEW value,
         IsRead(<<t>>, depth + 1, value)
  PROVE  IsRead(<<Token(6, <<1>>), t>>, depth, value)
<1> DEFINE w == <<Token(6, <<1>>), t>>
<1>0. MaxDepth \in Nat
  BY GalleryAssumption
<1>1. Len(w) = 2 /\ w[1] = Token(6, <<1>>) /\ w[2] = t
  OBVIOUS
<1> HIDE DEF w
<1> SUFFICES ASSUME NEW r \in Seq(Heads), NEW at \in 1 .. Len(r) + 1, Begins(r, at, w)
             PROVE  ItemAt(r, at, depth) =
                      IF at + Len(w) - 1 <= Len(r) THEN Decoded(value, at + Len(w)) ELSE Undecodable
  BY DEF IsRead, w
<1>2. /\ ItemAt(r, at, depth) = decodeItem(r, decodeFrom(r), at, depth)
      /\ ReadsAs(r, decodeFrom(r), at, depth)
      /\ DOMAIN r = 1 .. Len(r) /\ Len(r) \in Nat
      /\ at > Len(r) \/ depth > MaxDepth => ItemAt(r, at, depth) = Undecodable
  BY ItemFacts
<1>3. CASE at > Len(r)
  BY <1>1, <1>2, <1>3
<1>4. CASE ~ (at > Len(r))
  <2>1. at <= Len(r) /\ at + 1 - 1 = at /\ 1 \in 1 .. Len(w) /\ 2 \in 1 .. Len(w) /\ at + 2 - 1 = at + 1
    BY <1>1, <1>2, <1>4
  <2>2. r[at] = Token(6, <<1>>)
    BY <1>1, <2>1 DEF Begins
  <2>3. at + 1 <= Len(r) => r[at + 1] = t
    BY <1>1, <2>1 DEF Begins
  <2>4. r[at][1] = 6 /\ ~ r[at][2]
    BY <2>2 DEF Token
  <2>5. ~ Refused(r, decodeFrom(r), at, depth)
    BY <1>0, <1>2, <2>1, <2>4 DEF Refused
  <2>6. ItemAt(r, at, depth) = ItemAt(r, at + 1, depth + 1)
    BY <1>2, <2>4, <2>5 DEF ReadsAs, ItemAt
  <2>7. at + 1 \in 1 .. Len(r) + 1 /\ Len(<<t>>) = 1
    BY <1>2, <2>1
  <2>8. Begins(r, at + 1, <<t>>)
    <3> SUFFICES ASSUME NEW k \in 1 .. Len(<<t>>), at + 1 + k - 1 <= Len(r)
                 PROVE  r[at + 1 + k - 1] = <<t>>[k]
      BY DEF Begins
    <3>1. k = 1 /\ at + 1 + k - 1 = at + 1
      BY <2>7
    <3> QED BY <2>3, <3>1
  <2>9. ItemAt(r, at + 1, depth + 1) =
          IF at + 1 + Len(<<t>>) - 1 <= Len(r) THEN Decoded(value, at + 1 + Len(<<t>>)) ELSE Undecodable
    BY <2>7, <2>8 DEF IsRead
  <2>10. at + 1 + Len(<<t>>) - 1 = at + Len(w) - 1 /\ at + 1 + Len(<<t>>) = at + Len(w)
    BY <1>1, <2>7
  <2> QED BY <2>6, <2>9, <2>10
<1> QED BY <1>3, <1>4

\* The bytes of a string, or a text, that is written in chunks.
Chunked(major, s) ==
  <<Open(major)>> \o [i \in DOMAIN s |-> Token(major, <<s[i]>>)] \o <<Break>>

\* A string in chunks is read as the chunks, one behind the other.
LEMMA ChunkedIsRead ==
  ASSUME NEW depth \in Nat, depth <= MaxDepth, NEW major \in {2, 3}, NEW s \in Seq(Symbols)
  PROVE  /\ IsWord(Chunked(major, s))
         /\ IsRead(Chunked(major, s), depth, <<IF major = 2 THEN "bytes" ELSE "text", s>>)
<1> DEFINE w == Chunked(major, s)
           chunks == [i \in 1 .. Len(s) |-> Token(major, <<s[i]>>)]
           kind == IF major = 2 THEN "bytes" ELSE "text"
           M == Len(s)
<1>0. MaxDepth \in Nat
  BY GalleryAssumption
<1>1. M \in Nat /\ DOMAIN s = 1 .. M /\ \A i \in 1 .. M : s[i] \in Symbols
  BY LenProperties, ElementOfSeq
<1>2. chunks \in Seq(Heads) /\ Len(chunks) = M /\ \A i \in 1 .. M : chunks[i] = Token(major, <<s[i]>>)
  <2>1. \A i \in 1 .. M : Token(major, <<s[i]>>) \in Heads
    <3> TAKE i \in 1 .. M
    <3>1. <<s[i]>> \in Seq(Symbols)
      BY <1>1
    <3>2. major \in {0, 1, 2, 3, 6, 7}
      OBVIOUS
    <3> QED BY <3>1, <3>2, HeadsTyped
  <2> HIDE DEF M
  <2> QED BY <1>1, <2>1 DEF M
<1>3. w = <<Open(major)>> \o chunks \o <<Break>>
  BY <1>1 DEF Chunked
<1> HIDE DEF chunks, w
<1>4. <<Open(major)>> \in Seq(Heads) /\ <<Break>> \in Seq(Heads)
  <2>1. Open(major) \in Heads /\ Break \in Heads
    BY HeadsTyped
  <2> QED BY <2>1
<1>5. /\ w \in Seq(Heads) /\ Len(w) = M + 2
      /\ w[1] = Open(major) /\ w[M + 2] = Break
      /\ \A i \in 1 .. M : w[1 + i] = Token(major, <<s[i]>>)
  <2> DEFINE a == <<Open(major)>>
             b == <<Break>>
  <2>1. Len(a) = 1 /\ a[1] = Open(major) /\ Len(b) = 1 /\ b[1] = Break
    OBVIOUS
  <2> HIDE DEF a, b, M
  <2>2. a \in Seq(Heads) /\ b \in Seq(Heads)
    BY <1>4 DEF a, b
  <2>3. /\ a \o chunks \in Seq(Heads) /\ Len(a \o chunks) = M + 1 /\ (a \o chunks)[1] = Open(major)
        /\ \A i \in 1 .. M : (a \o chunks)[1 + i] = chunks[i]
    <3>1. /\ a \o chunks \in Seq(Heads) /\ Len(a \o chunks) = Len(a) + Len(chunks)
          /\ \A k \in 1 .. Len(a) : (a \o chunks)[k] = a[k]
          /\ \A k \in 1 .. Len(chunks) : (a \o chunks)[Len(a) + k] = chunks[k]
      <4>1. a \in Seq(Heads) /\ chunks \in Seq(Heads)
        BY <1>2, <2>2
      <4> QED BY <4>1, ConcatPlaces
    <3>2. 1 \in 1 .. Len(a) /\ Len(a) + Len(chunks) = M + 1
      BY <1>1, <1>2, <2>1
    <3> QED BY <1>2, <2>1, <3>1, <3>2
  <2> DEFINE c == a \o chunks
  <2> HIDE DEF c
  <2>4. /\ c \in Seq(Heads) /\ Len(c) = M + 1 /\ c[1] = Open(major)
        /\ \A i \in 1 .. M : c[1 + i] = chunks[i]
    BY <2>3 DEF c
  <2>5. w = c \o b
    BY <1>3 DEF a, b, c
  <2>6. w \in Seq(Heads) /\ Len(w) = M + 2 /\ (\A i \in 1 .. M + 1 : w[i] = c[i]) /\ w[M + 2] = Break
    <3>1. /\ c \o b \in Seq(Heads) /\ Len(c \o b) = Len(c) + Len(b)
          /\ \A k \in 1 .. Len(c) : (c \o b)[k] = c[k]
          /\ \A k \in 1 .. Len(b) : (c \o b)[Len(c) + k] = b[k]
      <4>1. c \in Seq(Heads) /\ b \in Seq(Heads)
        BY <2>2, <2>4
      <4> QED BY <4>1, ConcatPlaces
    <3>2. 1 \in 1 .. Len(b) /\ Len(c) + Len(b) = M + 2 /\ Len(c) + 1 = M + 2
      BY <1>1, <2>1, <2>4
    <3> QED BY <2>1, <2>4, <2>5, <3>1, <3>2
  <2>7. \A i \in 1 .. M : 1 + i \in 1 .. M + 1
    BY <1>1
  <2>8. 1 \in 1 .. M + 1
    BY <1>1
  <2> QED BY <1>2, <2>4, <2>6, <2>7, <2>8
<1>6. IsWord(w)
  <2>1. Open(major) # Break
    BY DEF Open, Break
  <2>2. w # <<>>
    BY <1>1, <1>5
  <2> QED BY <1>5, <2>1, <2>2 DEF IsWord
<1>7. IsRead(w, depth, <<kind, s>>)
  <2> SUFFICES ASSUME NEW r \in Seq(Heads), NEW at \in 1 .. Len(r) + 1, Begins(r, at, w)
               PROVE  ItemAt(r, at, depth) =
                        IF at + Len(w) - 1 <= Len(r) THEN Decoded(<<kind, s>>, at + Len(w))
                        ELSE Undecodable
    BY DEF IsRead
  <2>1. /\ ItemAt(r, at, depth) = decodeItem(r, decodeFrom(r), at, depth)
        /\ ReadsAs(r, decodeFrom(r), at, depth)
        /\ DOMAIN r = 1 .. Len(r) /\ Len(r) \in Nat
        /\ at > Len(r) \/ depth > MaxDepth => ItemAt(r, at, depth) = Undecodable
    BY ItemFacts
  <2>2. CASE at > Len(r)
    <3>1. ~ (at + Len(w) - 1 <= Len(r))
      <4> HIDE DEF M
      <4> QED BY <1>1, <1>5, <2>1, <2>2
    <3> QED BY <2>1, <2>2, <3>1
  <2>3. CASE ~ (at > Len(r))
    <3> HIDE DEF M
    <3>1. at \in 1 .. Len(r) /\ at + 1 - 1 = at /\ 1 \in 1 .. Len(w)
      BY <1>1, <1>5, <2>1, <2>3
    <3>2. r[at] = Open(major)
      <4>1. at <= Len(r) /\ at = at + 1 - 1
        BY <2>1, <3>1
      <4>2. r[at] = w[1]
        BY <3>1, <4>1, BeginsAt
      <4> QED BY <1>5, <4>2
    <3>3. r[at][1] = major /\ r[at][2]
      BY <3>2 DEF Open
    <3>4. \A i \in 1 .. M : at + i <= Len(r) => r[at + i] = Token(major, <<s[i]>>)
      <4> TAKE i \in 1 .. M
      <4> HAVE at + i <= Len(r)
      <4> DEFINE k == 1 + i
      <4>1. k \in 1 .. Len(w) /\ at + k - 1 = at + i
        BY <1>1, <1>5
      <4>2. r[at + k - 1] = w[k]
        <5> HIDE DEF k
        <5> QED BY <4>1 DEF Begins
      <4> QED BY <1>5, <4>1, <4>2
    <3> DEFINE e == at + M + 1
               IsChunk(i) == i \in DOMAIN r /\ r[i][1] = r[at][1] /\ ~ r[i][2]
               T == {i \in at + 1 .. Len(r) + 1 : ~ IsChunk(i)}
               end == EndOfChunks(r, at)
    <3>5. end \in T /\ \A i \in T : end <= i
      BY <3>1, ChunksEnd DEF EndOfChunks
    <3>6. \A i \in at + 1 .. Len(r) : i < e => IsChunk(i)
      <4> TAKE i \in at + 1 .. Len(r)
      <4> HAVE i < e
      <4> DEFINE k == i - at
      <4>1. k \in 1 .. M /\ at + k = i
        BY <1>1, <3>1
      <4>2. r[at + k] = Token(major, <<s[k]>>)
        <5> HIDE DEF k
        <5>1. at + k <= Len(r)
          BY <4>1
        <5> QED BY <3>4, <4>1, <5>1
      <4>3. r[i] = Token(major, <<s[k]>>)
        <5> HIDE DEF k
        <5> QED BY <4>1, <4>2
      <4>4. r[i][1] = major /\ ~ r[i][2]
        BY <4>3 DEF Token
      <4>5. i \in DOMAIN r
        BY <2>1, <3>1
      <4> QED BY <3>3, <4>4, <4>5
    <3>7. CASE e <= Len(r)
      <4>1. r[e] = Break
        <5> DEFINE k == M + 2
        <5>1. k \in 1 .. Len(w) /\ at + k - 1 = e
          BY <1>1, <1>5, <3>1
        <5>2. r[at + k - 1] = w[k]
          <6> HIDE DEF k, e
          <6> QED BY <3>7, <5>1 DEF Begins
        <5> QED BY <1>5, <5>1, <5>2
      <4>2. e \in T
        <5>1. r[e][1] = 7 /\ major # 7
          BY <4>1 DEF Break, Open
        <5>2. e \in at + 1 .. Len(r) + 1
          BY <1>1, <2>1, <3>1, <3>7
        <5> HIDE DEF e
        <5> QED BY <3>3, <5>1, <5>2
      <4>3. end = e
        <5>1. end <= e /\ end \in at + 1 .. Len(r) + 1 /\ ~ IsChunk(end)
          BY <3>5, <4>2
        <5>2. ~ (end < e)
          <6> SUFFICES ASSUME end < e PROVE FALSE
            OBVIOUS
          <6>1. end \in at + 1 .. Len(r)
            BY <1>1, <2>1, <3>1, <3>7, <5>1
          <6> HIDE DEF end, e, IsChunk
          <6> QED BY <3>6, <5>1, <6>1
        <5> HIDE DEF end, IsChunk
        <5> QED BY <1>1, <2>1, <3>1, <5>1, <5>2
      <4>4. ~ Refused(r, decodeFrom(r), at, depth)
        <5>1. e \in DOMAIN r
          BY <1>1, <2>1, <3>1, <3>7
        <5> HIDE DEF e
        <5> QED BY <1>0, <2>1, <3>1, <3>3, <4>1, <4>3, <5>1 DEF Refused
      <4>5. ItemAt(r, at, depth) =
              Decoded(<<kind, FlattenSeq([i \in 1 .. end - at - 1 |-> r[at + i][3]])>>, end + 1)
        <5> HIDE DEF end
        <5>1. CASE major = 2
          BY <2>1, <3>3, <4>4, <5>1 DEF ReadsAs, end
        <5>2. CASE major = 3
          BY <2>1, <3>3, <4>4, <5>2 DEF ReadsAs, end
        <5> QED BY <5>1, <5>2
      <4>6. end - at - 1 = M
        <5> HIDE DEF end
        <5> QED BY <1>1, <3>1, <4>3
      <4>7. [i \in 1 .. M |-> r[at + i][3]] = [i \in 1 .. Len(s) |-> <<s[i]>>]
        <5>1. \A i \in 1 .. M : r[at + i][3] = <<s[i]>>
          <6> TAKE i \in 1 .. M
          <6>1. at + i <= Len(r)
            BY <1>1, <3>1, <3>7
          <6>2. r[at + i] = Token(major, <<s[i]>>)
            BY <3>4, <6>1
          <6> QED BY <6>2 DEF Token
        <5> QED BY <5>1 DEF M
      <4>8. FlattenSeq([i \in 1 .. end - at - 1 |-> r[at + i][3]]) = s
        <5> HIDE DEF end
        <5> QED BY <4>6, <4>7, FlattenElements
      <4>9. end + 1 = at + Len(w) /\ at + Len(w) - 1 <= Len(r)
        <5> HIDE DEF end
        <5> QED BY <1>1, <1>5, <3>1, <3>7, <4>3
      <4> HIDE DEF end
      <4> QED BY <4>5, <4>8, <4>9
    <3>8. CASE ~ (e <= Len(r))
      <4>1. end = Len(r) + 1
        <5>1. end \in at + 1 .. Len(r) + 1 /\ ~ IsChunk(end)
          BY <3>5
        <5>2. end \in at + 1 .. Len(r) => FALSE
          <6> SUFFICES ASSUME end \in at + 1 .. Len(r) PROVE FALSE
            OBVIOUS
          <6>1. end < e
            BY <1>1, <2>1, <3>1, <3>8
          <6> HIDE DEF end, e, IsChunk
          <6> QED BY <3>6, <5>1, <6>1
        <5> HIDE DEF end, IsChunk
        <5>3. end \in Int /\ end >= at + 1 /\ end <= Len(r) + 1
          BY <2>1, <3>1, <5>1
        <5>4. ~ (end <= Len(r))
          BY <2>1, <3>1, <5>2, <5>3
        <5> QED BY <2>1, <5>3, <5>4
      <4>2. Refused(r, decodeFrom(r), at, depth)
        <5>1. end \notin DOMAIN r
          BY <2>1, <4>1
        <5> QED BY <3>3, <5>1 DEF Refused
      <4>3. ItemAt(r, at, depth) = Undecodable
        BY <2>1, <4>2 DEF ReadsAs
      <4>4. ~ (at + Len(w) - 1 <= Len(r))
        BY <1>1, <1>5, <2>1, <3>1, <3>8
      <4> QED BY <4>3, <4>4
    <3> QED BY <3>7, <3>8
  <2> QED BY <2>2, <2>3
<1> QED BY <1>6, <1>7 DEF w

(* --------------------------- lists and maps ---------------------------- *)

\* Where words are joined, each is begun at its own place.
LEMMA WordBegins ==
  ASSUME NEW r \in Seq(Heads), NEW seqs \in Seq(Seq(Heads)), NEW p, PlacesOf(p, seqs),
         NEW at \in Nat, Begins(r, at, FlattenSeq(seqs)), NEW j \in 1 .. Len(seqs)
  PROVE  Begins(r, at + p[j - 1], seqs[j])
<1> DEFINE i == j - 1
           flat == FlattenSeq(seqs)
<1>1. Len(seqs) \in Nat /\ Len(seqs[j]) \in Nat
  <2>1. seqs[j] \in Seq(Heads)
    BY ElementOfSeq
  <2> QED BY <2>1, LenProperties
<1>2. i \in 0 .. Len(seqs) /\ j \in 0 .. Len(seqs)
  BY <1>1
<1>3. /\ p[i] \in Nat /\ p[j] \in Nat /\ p[j] = p[i] + Len(seqs[j]) /\ p[j] <= Len(flat)
      /\ \A k \in 1 .. Len(seqs[j]) : flat[p[i] + k] = seqs[j][k]
      /\ Len(flat) \in Nat
  <2>1. /\ p \in [0 .. Len(seqs) -> Nat] /\ Len(flat) = p[Len(seqs)]
        /\ p[j] = p[i] + Len(seqs[j]) /\ p[j] <= Len(flat)
        /\ \A k \in 1 .. Len(seqs[j]) : flat[p[i] + k] = seqs[j][k]
    BY DEF PlacesOf
  <2>2. Len(seqs) \in 0 .. Len(seqs)
    BY <1>1
  <2> HIDE DEF flat, i
  <2> QED BY <1>2, <2>1, <2>2
<1> HIDE DEF flat
<1>4. Begins(r, at, flat)
  BY DEF flat
<1> SUFFICES ASSUME NEW k \in 1 .. Len(seqs[j]), at + p[i] + k - 1 <= Len(r)
             PROVE  r[at + p[i] + k - 1] = seqs[j][k]
  BY DEF Begins
<1> DEFINE m == p[i] + k
           q == at + p[i] + k - 1
<1> HIDE DEF i
<1>5. m \in 1 .. Len(flat) /\ q = at + m - 1
  BY <1>1, <1>3
<1>6. q <= Len(r)
  OBVIOUS
<1>7. flat[m] = seqs[j][k]
  BY <1>3
<1> HIDE DEF m, q
<1>8. r[q] = flat[m]
  BY <1>4, <1>5, <1>6, BeginsAt
<1> QED BY <1>7, <1>8 DEF q

\* One item and then the rest.
LEMMA ItemsStep ==
  ASSUME NEW r \in Seq(Heads), NEW at \in 1 .. Len(r) + 1, NEW depth \in Nat,
         NEW left \in Int, left # 0, NEW group \in {1, 2},
         NEW w, IsWord(w), Begins(r, at, w)
  PROVE  /\ ItemAt(r, at, depth) = Undecodable => ItemsAt(r, at, depth, left, group) = Undecodable
         /\ \A value : \A next \in 1 .. Len(r) + 1 : ItemAt(r, at, depth) = Decoded(value, next) =>
              /\ ItemsAt(r, next, depth, left - 1, group) = Undecodable =>
                   ItemsAt(r, at, depth, left, group) = Undecodable
              /\ \A values, e : ItemsAt(r, next, depth, left - 1, group) = Decoded(values, e) =>
                   ItemsAt(r, at, depth, left, group) = Decoded(<<value>> \o values, e)
<1> DEFINE from == decodeFrom(r)
           atBreak == at \in DOMAIN r /\ r[at] = Break /\ (Unending - left) % group = 0
           first == decodeItem(r, from, at, depth)
           rest  == from[first[1].at].items[depth][left - 1][group]
           items == ItemsAt(r, at, depth, left, group)
<1>1. items = IF left = 0 THEN Decoded(<<>>, at)
              ELSE IF left < 0 /\ atBreak THEN Decoded(<<>>, at + 1)
              ELSE IF first = Undecodable \/ rest = Undecodable THEN Undecodable
              ELSE Decoded(<<first[1].value>> \o rest[1].value, rest[1].at)
  <2>1. items = decodeItems(r, from, at, depth, left, group)
    BY DecodedFrom
  <2> HIDE DEF items, from
  <2> QED BY <2>1 DEF decodeItems
<1>2. ItemAt(r, at, depth) = first /\ DOMAIN r = 1 .. Len(r) /\ Len(r) \in Nat
  BY ItemFacts
<1>3. ~ atBreak
  <2> SUFFICES ASSUME at \in DOMAIN r, r[at] = Break PROVE FALSE
    OBVIOUS
  <2>1. w \in Seq(Heads) /\ w # <<>> /\ w[1] # Break
    BY DEF IsWord
  <2>2. 1 \in 1 .. Len(w)
    BY <2>1
  <2>3. at = at + 1 - 1 /\ at <= Len(r)
    BY <1>2
  <2>4. r[at] = w[1]
    BY <2>2, <2>3, BeginsAt
  <2> QED BY <2>1, <2>4
<1>4. items = IF first = Undecodable \/ rest = Undecodable THEN Undecodable
              ELSE Decoded(<<first[1].value>> \o rest[1].value, rest[1].at)
  <2> HIDE DEF items, first, rest, atBreak
  <2> QED BY <1>1, <1>3
<1>5. ItemAt(r, at, depth) = Undecodable => items = Undecodable
  <2> HIDE DEF items, first, rest
  <2> QED BY <1>2, <1>4
<1>6. ASSUME NEW value, NEW next \in 1 .. Len(r) + 1, ItemAt(r, at, depth) = Decoded(value, next)
      PROVE  /\ ItemsAt(r, next, depth, left - 1, group) = Undecodable => items = Undecodable
             /\ \A values, e : ItemsAt(r, next, depth, left - 1, group) = Decoded(values, e) =>
                  items = Decoded(<<value>> \o values, e)
  <2>1. first = Decoded(value, next)
    BY <1>2, <1>6
  <2>2. first # Undecodable /\ first[1].value = value /\ first[1].at = next
    <3> HIDE DEF first
    <3> QED BY <2>1 DEF Decoded, Undecodable
  <2>3. rest = ItemsAt(r, next, depth, left - 1, group)
    BY <2>2 DEF ItemsAt
  <2> HIDE DEF first, rest, items
  <2>4. rest = Undecodable => items = Undecodable
    BY <1>4
  <2>5. ASSUME NEW values, NEW e, rest = Decoded(values, e)
        PROVE  items = Decoded(<<value>> \o values, e)
    <3>1. rest # Undecodable /\ rest[1].value = values /\ rest[1].at = e
      BY <2>5 DEF Decoded, Undecodable
    <3> QED BY <1>4, <2>2, <3>1
  <2> QED BY <2>3, <2>4, <2>5
<1> QED BY <1>5, <1>6

\* One value before others.
LEMMA ValueBefore ==
  ASSUME NEW n \in Nat, NEW i \in Nat, i < n, NEW values
  PROVE  <<values[i + 1]>> \o [k \in 1 .. n - (i + 1) |-> values[i + 1 + k]] =
           [k \in 1 .. n - i |-> values[i + k]]
<1> DEFINE V == {values[j] : j \in 1 .. n}
           a == <<values[i + 1]>>
           b == [k \in 1 .. n - (i + 1) |-> values[i + 1 + k]]
           c == [k \in 1 .. n - i |-> values[i + k]]
           m == n - (i + 1)
<1>0. m \in Nat /\ m + 1 = n - i
  OBVIOUS
<1>1. a \in Seq(V) /\ Len(a) = 1 /\ a[1] = values[i + 1]
  <2>1. i + 1 \in 1 .. n
    OBVIOUS
  <2>2. values[i + 1] \in V
    BY <2>1
  <2> HIDE DEF V
  <2> QED BY <2>2
<1>2. b \in Seq(V) /\ Len(b) = m /\ \A k \in 1 .. m : b[k] = values[i + 1 + k]
  <2>1. \A k \in 1 .. m : values[i + 1 + k] \in V
    <3> TAKE k \in 1 .. m
    <3>1. i + 1 + k \in 1 .. n
      OBVIOUS
    <3> QED BY <3>1
  <2>2. b = [k \in 1 .. m |-> values[i + 1 + k]]
    OBVIOUS
  <2> HIDE DEF V, m, b
  <2> QED BY <1>0, <2>1, <2>2
<1>3. c \in Seq(V) /\ Len(c) = m + 1 /\ \A k \in 1 .. m + 1 : c[k] = values[i + k]
  <2>1. \A k \in 1 .. m + 1 : values[i + k] \in V
    <3> TAKE k \in 1 .. m + 1
    <3>1. i + k \in 1 .. n
      OBVIOUS
    <3> QED BY <3>1
  <2>2. c = [k \in 1 .. m + 1 |-> values[i + k]]
    BY <1>0
  <2> HIDE DEF V, m, c
  <2> QED BY <1>0, <2>1, <2>2
<1> HIDE DEF a, b, c, m, V
<1>4. /\ a \o b \in Seq(V) /\ Len(a \o b) = Len(a) + Len(b)
      /\ \A k \in 1 .. Len(a) : (a \o b)[k] = a[k]
      /\ \A k \in 1 .. Len(b) : (a \o b)[Len(a) + k] = b[k]
  <2>1. a \in Seq(V) /\ b \in Seq(V)
    BY <1>1, <1>2
  <2> QED BY <2>1, ConcatPlaces
<1>5. Len(a \o b) = Len(c)
  BY <1>0, <1>1, <1>2, <1>3, <1>4
<1>6. \A k \in 1 .. Len(c) : c[k] = (a \o b)[k]
  <2> TAKE k \in 1 .. Len(c)
  <2>1. CASE k = 1
    <3>1. 1 \in 1 .. Len(a) /\ 1 \in 1 .. m + 1
      BY <1>0, <1>1
    <3> QED BY <1>1, <1>3, <1>4, <2>1, <3>1
  <2>2. CASE k # 1
    <3> DEFINE l == k - 1
    <3>1. l \in 1 .. m /\ k = 1 + l /\ i + 1 + l = i + k /\ k \in 1 .. m + 1
      BY <1>0, <1>3, <2>2
    <3> HIDE DEF l
    <3>2. b[l] = values[i + k]
      BY <1>2, <3>1
    <3>3. (a \o b)[Len(a) + l] = b[l]
      BY <1>2, <1>4, <3>1
    <3>4. Len(a) + l = k
      BY <1>1, <3>1
    <3> QED BY <1>3, <3>1, <3>2, <3>3, <3>4
  <2> QED BY <2>1, <2>2
<1>7. c = a \o b
  <2>1. c \in Seq(V) /\ a \o b \in Seq(V) /\ Len(c) = Len(a \o b)
    BY <1>3, <1>4, <1>5
  <2> QED BY <1>6, <2>1, SeqEqual
<1> QED BY <1>7 DEF a, b, c, m

RunsTo(r, p, at, depth, left, group, m, values) ==
  \A i \in 0 .. m :
    /\ ItemsAt(r, at + p[m], depth, left - m, group) = Undecodable =>
         ItemsAt(r, at + p[i], depth, left - i, group) = Undecodable
    /\ \A e : ItemsAt(r, at + p[m], depth, left - m, group) = Decoded(<<>>, e) =>
         ItemsAt(r, at + p[i], depth, left - i, group) =
           Decoded([k \in 1 .. m - i |-> values[i + k]], e)

\* Items that are read one after another, as far as their place is within the field.
LEMMA ItemsRun ==
  ASSUME NEW r \in Seq(Heads), NEW seqs \in Seq(Seq(Heads)), NEW p, PlacesOf(p, seqs),
         \A j \in 1 .. Len(seqs) : IsWord(seqs[j]),
         NEW at \in 1 .. Len(r) + 1, Begins(r, at, FlattenSeq(seqs)), NEW depth \in Nat,
         NEW left \in Int, left < 0 \/ left >= Len(seqs), NEW group \in {1, 2},
         NEW m \in 0 .. Len(seqs), at + p[m] <= Len(r) + 1,
         NEW values, \A j \in 1 .. m : IsRead(seqs[j], depth, values[j])
  PROVE  RunsTo(r, p, at, depth, left, group, m, values)
<1> DEFINE end == ItemsAt(r, at + p[m], depth, left - m, group)
           Runs(i) ==
             LET items == ItemsAt(r, at + p[i], depth, left - i, group)
             IN  /\ end = Undecodable => items = Undecodable
                 /\ \A e : end = Decoded(<<>>, e) =>
                      items = Decoded([k \in 1 .. m - i |-> values[i + k]], e)
           S == {n \in Nat : n <= m => Runs(m - n)}
<1>1. Len(seqs) \in Nat /\ Len(r) \in Nat /\ m \in Nat
  BY LenProperties
<1>2. /\ \A j \in 0 .. Len(seqs) : p[j] \in Nat
      /\ \A j \in 1 .. Len(seqs) : p[j] = p[j - 1] + Len(seqs[j])
      /\ \A j \in 1 .. Len(seqs) : Len(seqs[j]) \in Nat
  <2>1. /\ p \in [0 .. Len(seqs) -> Nat]
        /\ \A j \in 1 .. Len(seqs) : p[j] = p[j - 1] + Len(seqs[j])
    BY DEF PlacesOf
  <2>2. \A j \in 1 .. Len(seqs) : Len(seqs[j]) \in Nat
    BY ElementOfSeq, LenProperties
  <2> QED BY <2>1, <2>2
<1>3. 0 \in S
  <2>1. m - 0 = m /\ m - m = 0
    BY <1>1
  <2>2. [k \in 1 .. 0 |-> values[m + k]] = <<>>
    OBVIOUS
  <2>3. Runs(m)
    <3> HIDE DEF end
    <3>1. ItemsAt(r, at + p[m], depth, left - m, group) = end
      BY DEF end
    <3>2. [k \in 1 .. m - m |-> values[m + k]] = <<>>
      BY <2>1, <2>2
    <3> QED BY <3>1, <3>2
  <2> HIDE DEF Runs
  <2> QED BY <2>1, <2>3
<1>4. ASSUME NEW n \in Nat, n \in S PROVE n + 1 \in S
  <2> SUFFICES ASSUME n + 1 <= m PROVE Runs(m - (n + 1))
    <3> HIDE DEF Runs
    <3> QED OBVIOUS
  <2> DEFINE i == m - (n + 1)
             j == i + 1
  <2>1. /\ i \in Nat /\ i < m /\ j \in 1 .. m /\ j \in 1 .. Len(seqs) /\ j - 1 = i /\ m - n = j
        /\ i \in 0 .. Len(seqs) /\ j \in 0 .. Len(seqs) /\ n <= m
    BY <1>1
  <2>2. Runs(j)
    <3> HIDE DEF Runs, j
    <3> QED BY <1>4, <2>1
  <2> HIDE DEF i
  <2>3. /\ p[i] \in Nat /\ p[j] \in Nat /\ p[j] = p[i] + Len(seqs[j]) /\ Len(seqs[j]) \in Nat
    <3> HIDE DEF j
    <3> QED BY <1>2, <2>1
  <2>4. at + p[j] <= Len(r) + 1
    <3> DEFINE T == {l \in Nat : j + l <= m => p[j] <= p[j + l]}
    <3>1. 0 \in T
      BY <2>1, <2>3
    <3>2. ASSUME NEW l \in Nat, l \in T PROVE l + 1 \in T
      <4> SUFFICES ASSUME j + (l + 1) <= m PROVE p[j] <= p[j + (l + 1)]
        OBVIOUS
      <4> DEFINE q == j + (l + 1)
      <4>1. q \in 1 .. Len(seqs) /\ q - 1 = j + l /\ j + l <= m /\ q \in 0 .. Len(seqs)
            /\ j + l \in 0 .. Len(seqs)
        BY <1>1, <2>1
      <4>2. p[j] <= p[j + l]
        BY <3>2, <4>1
      <4>3. p[q] = p[q - 1] + Len(seqs[q]) /\ Len(seqs[q]) \in Nat
        <5> HIDE DEF q, j
        <5> QED BY <1>2, <4>1
      <4>4. p[j + l] \in Nat /\ p[q] = p[j + l] + Len(seqs[q])
        <5> HIDE DEF q, j
        <5> QED BY <1>2, <4>1, <4>3
      <4> HIDE DEF q
      <4> QED BY <2>3, <4>2, <4>3, <4>4 DEF q
    <3>3. Nat \subseteq T
      <4> HIDE DEF T
      <4> QED BY <3>1, <3>2, InductionBySet
    <3>4. n \in T /\ j + n = m
      BY <2>1, <3>3
    <3>5. p[j] <= p[m]
      BY <3>4
    <3>6. p[m] \in Nat
      BY <1>2
    <3> HIDE DEF j
    <3> QED BY <1>1, <2>3, <3>5, <3>6
  <2> DEFINE x == at + p[i]
             next == at + p[j]
             w == seqs[j]
             items == ItemsAt(r, x, depth, left - i, group)
             rest == ItemsAt(r, next, depth, (left - i) - 1, group)
  <2>5. x \in 1 .. Len(r) + 1 /\ next \in 1 .. Len(r) + 1 /\ next = x + Len(w)
        /\ x + Len(w) - 1 <= Len(r)
    <3> HIDE DEF j
    <3>1. next = x + Len(w)
      BY <2>3
    <3>2. x \in Nat /\ x >= 1 /\ next \in Nat /\ next <= Len(r) + 1
      BY <1>1, <2>3, <2>4
    <3>3. Len(w) \in Nat
      BY <2>3
    <3> HIDE DEF x, next, w
    <3> QED BY <1>1, <3>1, <3>2, <3>3
  <2>6. Begins(r, x, w)
    <3>1. at \in Nat /\ j \in 1 .. Len(seqs)
      BY <1>1, <2>1
    <3>2. Begins(r, at + p[j - 1], seqs[j])
      <4> HIDE DEF j
      <4> QED BY <3>1, WordBegins
    <3>3. j - 1 = i
      BY <2>1
    <3> HIDE DEF j
    <3> QED BY <3>2, <3>3
  <2>7. ItemAt(r, x, depth) = Decoded(values[j], next)
    <3>1. IsRead(w, depth, values[j])
      <4> HIDE DEF j
      <4> QED BY <2>1
    <3> HIDE DEF x, next, w, j
    <3> QED BY <2>5, <2>6, <3>1 DEF IsRead
  <2>8. left - i \in Int /\ left - i # 0 /\ (left - i) - 1 = left - j
    BY <1>1, <2>1
  <2>9. /\ rest = Undecodable => items = Undecodable
        /\ \A others, e : rest = Decoded(others, e) => items = Decoded(<<values[j]>> \o others, e)
    <3> DEFINE l == left - i
    <3>1. l \in Int /\ l # 0
      BY <2>8
    <3>2. IsWord(w)
      <4> HIDE DEF j
      <4> QED BY <2>1
    <3> HIDE DEF x, next, w, j, l
    <3>3. /\ ItemsAt(r, next, depth, l - 1, group) = Undecodable =>
               ItemsAt(r, x, depth, l, group) = Undecodable
          /\ \A others, e : ItemsAt(r, next, depth, l - 1, group) = Decoded(others, e) =>
               ItemsAt(r, x, depth, l, group) = Decoded(<<values[j]>> \o others, e)
      <4>1. \A value : \A after \in 1 .. Len(r) + 1 : ItemAt(r, x, depth) = Decoded(value, after) =>
              /\ ItemsAt(r, after, depth, l - 1, group) = Undecodable =>
                   ItemsAt(r, x, depth, l, group) = Undecodable
              /\ \A others, e : ItemsAt(r, after, depth, l - 1, group) = Decoded(others, e) =>
                   ItemsAt(r, x, depth, l, group) = Decoded(<<value>> \o others, e)
        BY <2>5, <2>6, <3>1, <3>2, ItemsStep
      <4>2. next \in 1 .. Len(r) + 1
        BY <2>5
      <4> QED BY <2>7, <4>1, <4>2
    <3> QED BY <3>3 DEF l
  <2>10. rest = ItemsAt(r, at + p[j], depth, left - j, group)
    <3> HIDE DEF j
    <3> QED BY <2>8
  <2>11. /\ end = Undecodable => rest = Undecodable
         /\ \A e : end = Decoded(<<>>, e) => rest = Decoded([k \in 1 .. m - j |-> values[j + k]], e)
    <3> HIDE DEF end, rest, j
    <3> QED BY <2>2, <2>10
  <2>12. <<values[j]>> \o [k \in 1 .. m - j |-> values[j + k]] = [k \in 1 .. m - i |-> values[i + k]]
    BY <1>1, <2>1, ValueBefore
  <2>13. ASSUME NEW e, end = Decoded(<<>>, e)
         PROVE  items = Decoded([k \in 1 .. m - i |-> values[i + k]], e)
    <3> HIDE DEF end, rest, items, j
    <3>1. rest = Decoded([k \in 1 .. m - j |-> values[j + k]], e)
      BY <2>11, <2>13
    <3>2. items = Decoded(<<values[j]>> \o [k \in 1 .. m - j |-> values[j + k]], e)
      BY <2>9, <3>1
    <3> QED BY <2>12, <3>2
  <2>14. end = Undecodable => items = Undecodable
    <3> HIDE DEF end, rest, items, j
    <3> QED BY <2>9, <2>11
  <2>15. Runs(i)
    <3> HIDE DEF end
    <3> QED BY <2>13, <2>14
  <2> HIDE DEF Runs
  <2> QED BY <2>15 DEF i
<1>5. Nat \subseteq S
  <2> HIDE DEF S
  <2> QED BY <1>3, <1>4, InductionBySet
<1>6. \A i \in 0 .. m : Runs(i)
  <2> TAKE i \in 0 .. m
  <2> DEFINE n == m - i
  <2>1. n \in Nat /\ n <= m /\ m - n = i
    BY <1>1
  <2>2. n \in S
    BY <1>5, <2>1
  <2> HIDE DEF Runs, n
  <2> QED BY <2>1, <2>2
<1> QED BY <1>6 DEF RunsTo

\* Items of which one is not read, or reaches beyond the field, are not read.
LEMMA RunFails ==
  ASSUME NEW r \in Seq(Heads), NEW seqs \in Seq(Seq(Heads)), NEW p, PlacesOf(p, seqs),
         \A j \in 1 .. Len(seqs) : IsWord(seqs[j]),
         NEW at \in 1 .. Len(r) + 1, Begins(r, at, FlattenSeq(seqs)), NEW depth \in Nat,
         NEW left \in Int, left < 0 \/ left >= Len(seqs), NEW group \in {1, 2}, NEW values,
         \A j \in 1 .. Len(seqs) : IsRead(seqs[j], depth, values[j]) \/ IsNoItem(seqs[j], depth),
         NEW b \in 1 .. Len(seqs), IsNoItem(seqs[b], depth) \/ at + p[b] > Len(r) + 1
  PROVE  ItemsAt(r, at, depth, left, group) = Undecodable
<1> DEFINE n == Len(seqs)
           T == {j \in 1 .. n : IsNoItem(seqs[j], depth) \/ at + p[j] > Len(r) + 1}
<1>1. n \in Nat /\ Len(r) \in Nat
  BY LenProperties
<1>2. PICK c \in T : \A j \in T : c <= j
  <2>1. T \in SUBSET Nat
    OBVIOUS
  <2>2. b \in T
    OBVIOUS
  <2> HIDE DEF T
  <2> QED BY <2>1, <2>2, LeastNatural
<1> DEFINE m == c - 1
           x == at + p[m]
           w == seqs[c]
<1>3. c \in 1 .. n /\ m \in 0 .. n /\ m \in Nat /\ m < n /\ (m = 0 \/ m \in 1 .. n)
  BY <1>1
<1>4. \A j \in 1 .. m : j \in 1 .. n /\ IsRead(seqs[j], depth, values[j]) /\ at + p[j] <= Len(r) + 1
  <2> TAKE j \in 1 .. m
  <2>1. j \in 1 .. n /\ ~ (c <= j)
    BY <1>1, <1>3
  <2>2. j \notin T
    <3> HIDE DEF T
    <3> QED BY <1>2, <2>1
  <2>3. ~ IsNoItem(seqs[j], depth) /\ ~ (at + p[j] > Len(r) + 1)
    BY <2>1, <2>2
  <2>4. p[j] \in Nat
    <3>1. p \in [0 .. n -> Nat] /\ j \in 0 .. n
      BY <2>1 DEF PlacesOf
    <3> QED BY <3>1
  <2> QED BY <1>1, <2>1, <2>3, <2>4
<1>5. /\ p[m] \in Nat /\ p[c] \in Nat /\ p[c] = p[m] + Len(w) /\ p[0] = 0 /\ Len(w) \in Nat
  <2>1. /\ p \in [0 .. n -> Nat] /\ p[0] = 0
        /\ \A j \in 1 .. n : p[j] = p[j - 1] + Len(seqs[j])
    BY DEF PlacesOf
  <2>2. c \in 0 .. n
    BY <1>3
  <2>3. w \in Seq(Heads)
    BY <1>3, ElementOfSeq
  <2>4. Len(w) \in Nat
    BY <2>3, LenProperties
  <2> HIDE DEF T
  <2> QED BY <1>3, <2>1, <2>2, <2>4
<1>6. x <= Len(r) + 1 /\ x \in 1 .. Len(r) + 1
  <2>1. x <= Len(r) + 1
    <3>1. CASE m = 0
      BY <1>1, <1>5, <3>1
    <3>2. CASE m \in 1 .. n
      <4>1. m \in 1 .. m
        BY <3>2
      <4> HIDE DEF m
      <4> QED BY <1>4, <4>1
    <3> QED BY <1>3, <3>1, <3>2
  <2> HIDE DEF m
  <2> QED BY <1>1, <1>5, <2>1
<1>7. Begins(r, x, w)
  <2>1. at \in Nat
    BY <1>1
  <2> HIDE DEF T
  <2> QED BY <1>3, <2>1, WordBegins
<1>8. ItemAt(r, x, depth) = Undecodable
  <2>1. CASE IsNoItem(w, depth)
    <3> HIDE DEF x, w
    <3> QED BY <1>6, <1>7, <2>1 DEF IsNoItem
  <2>2. CASE ~ IsNoItem(w, depth)
    <3>1. at + p[c] > Len(r) + 1 /\ IsRead(w, depth, values[c])
      BY <1>3, <2>2
    <3>2. ItemAt(r, x, depth) = IF x + Len(w) - 1 <= Len(r) THEN Decoded(values[c], x + Len(w))
                                ELSE Undecodable
      <4> HIDE DEF x, w
      <4> QED BY <1>6, <1>7, <3>1 DEF IsRead
    <3>3. ~ (x + Len(w) - 1 <= Len(r))
      <4>1. x + Len(w) = at + p[c]
        <5> DEFINE u == p[m]
                   v == p[c]
                   y == Len(w)
        <5>1. u \in Nat /\ v \in Nat /\ v = u + y /\ y \in Nat /\ at \in Nat
          BY <1>1, <1>5
        <5> HIDE DEF u, v, y
        <5>2. at + u + y = at + v
          BY <5>1
        <5> QED BY <5>2 DEF u, v, y
      <4>2. at + p[c] \in Nat
        <5> DEFINE v == p[c]
        <5>1. v \in Nat /\ at \in Nat
          BY <1>1, <1>5
        <5> HIDE DEF v
        <5>2. at + v \in Nat
          BY <5>1
        <5> QED BY <5>2 DEF v
      <4>3. at + p[c] > Len(r) + 1
        BY <3>1
      <4> DEFINE e == at + p[c]
                 l == Len(w)
      <4> HIDE DEF x, l, e
      <4>4. x + l = e /\ e \in Nat /\ e > Len(r) + 1
        BY <4>1, <4>2, <4>3 DEF e, l
      <4>5. x \in Nat /\ l \in Nat
        BY <1>1, <1>5, <1>6 DEF l
      <4> QED BY <1>1, <4>4, <4>5 DEF l
    <3> HIDE DEF x, w
    <3> QED BY <3>2, <3>3
  <2> QED BY <2>1, <2>2
<1> DEFINE l == left - m
<1>9. l \in Int /\ l # 0
  BY <1>1, <1>3
<1>10. ItemsAt(r, x, depth, l, group) = Undecodable
  <2>1. IsWord(w)
    BY <1>3
  <2> HIDE DEF x, w, l
  <2> QED BY <1>6, <1>7, <1>8, <1>9, <2>1, ItemsStep
<1>11. \A i \in 0 .. m :
         ItemsAt(r, x, depth, l, group) = Undecodable =>
           ItemsAt(r, at + p[i], depth, left - i, group) = Undecodable
  <2>1. \A j \in 1 .. m : IsRead(seqs[j], depth, values[j])
    BY <1>4
  <2> HIDE DEF T, m
  <2>2. RunsTo(r, p, at, depth, left, group, m, values)
    BY <1>3, <1>6, <2>1, ItemsRun
  <2> QED BY <2>2 DEF RunsTo
<1>12. 0 \in 0 .. m /\ at + p[0] = at /\ left - 0 = left
  BY <1>1, <1>3, <1>5
<1> HIDE DEF x, l, m
<1> QED BY <1>10, <1>11, <1>12

Contents(major, values) == IF major = 4 THEN <<"list", values>> ELSE <<"map", put(values)>>

\* A list or a map is written: what stands where.
LEMMA ContainerFacts ==
  ASSUME NEW major \in {4, 5}, NEW seqs \in Seq(Seq(Heads)), NEW indefinite \in BOOLEAN
  PROVE  LET w == Container(major, seqs, indefinite)
             flat == FlattenSeq(seqs)
         IN  /\ IsWord(w) /\ flat \in Seq(Heads)
             /\ Len(w) = IF indefinite THEN Len(flat) + 2 ELSE Len(flat) + 1
             /\ w[1] = IF indefinite THEN Open(major)
                       ELSE Token(major, <<Len(seqs) \div (major - 3)>>)
             /\ \A k \in 1 .. Len(flat) : w[1 + k] = flat[k]
             /\ indefinite => w[Len(flat) + 2] = Break
<1> DEFINE w == Container(major, seqs, indefinite)
           flat == FlattenSeq(seqs)
           first == IF indefinite THEN Open(major) ELSE Token(major, <<Len(seqs) \div (major - 3)>>)
           a == <<first>>
           c == a \o flat
           b == <<Break>>
<1>1. flat \in Seq(Heads)
  BY FlattenPlaces
<1>2. Len(flat) \in Nat
  BY <1>1, LenProperties
<1>3. first \in Heads /\ first # Break /\ Break \in Heads
  <2>1. Len(seqs) \div (major - 3) \in Nat
    <3>1. Len(seqs) \in Nat
      BY LenProperties
    <3>2. major - 3 = 1 \/ major - 3 = 2
      OBVIOUS
    <3>3. \A k \in Nat : k \div 1 \in Nat /\ k \div 2 \in Nat
      OBVIOUS
    <3> QED BY <3>1, <3>2, <3>3
  <2>2. major \in 0 .. 7 /\ major # 7
    OBVIOUS
  <2>3. Open(major) \in Heads /\ Token(major, <<Len(seqs) \div (major - 3)>>) \in Heads /\ Break \in Heads
    BY <2>1, <2>2, HeadsTyped
  <2>4. Open(major) # Break /\ \A t : Token(major, t) # Break
    BY <2>2 DEF Open, Break, Token
  <2> QED BY <2>3, <2>4
<1>4. w = IF indefinite THEN c \o b ELSE c
  BY DEF Container
<1> HIDE DEF w, flat, first
<1>5. a \in Seq(Heads) /\ Len(a) = 1 /\ a[1] = first /\ b \in Seq(Heads) /\ Len(b) = 1 /\ b[1] = Break
  BY <1>3
<1> HIDE DEF a, b
<1>6. /\ c \in Seq(Heads) /\ Len(c) = Len(flat) + 1 /\ c[1] = first
      /\ \A k \in 1 .. Len(flat) : c[1 + k] = flat[k]
  <2>1. a \in Seq(Heads) /\ flat \in Seq(Heads)
    BY <1>1, <1>5
  <2>2. /\ a \o flat \in Seq(Heads) /\ Len(a \o flat) = Len(a) + Len(flat)
        /\ \A k \in 1 .. Len(a) : (a \o flat)[k] = a[k]
        /\ \A k \in 1 .. Len(flat) : (a \o flat)[Len(a) + k] = flat[k]
    BY <2>1, ConcatPlaces
  <2>3. 1 \in 1 .. Len(a) /\ Len(a) + Len(flat) = Len(flat) + 1
    BY <1>2, <1>5
  <2> QED BY <1>5, <2>2, <2>3
<1> HIDE DEF c
<1>7. /\ c \o b \in Seq(Heads) /\ Len(c \o b) = Len(flat) + 2 /\ (c \o b)[1] = first
      /\ \A k \in 1 .. Len(flat) : (c \o b)[1 + k] = flat[k]
      /\ (c \o b)[Len(flat) + 2] = Break
  <2>1. c \in Seq(Heads) /\ b \in Seq(Heads)
    BY <1>5, <1>6
  <2>2. /\ c \o b \in Seq(Heads) /\ Len(c \o b) = Len(c) + Len(b)
        /\ \A k \in 1 .. Len(c) : (c \o b)[k] = c[k]
        /\ \A k \in 1 .. Len(b) : (c \o b)[Len(c) + k] = b[k]
    BY <2>1, ConcatPlaces
  <2>3. /\ 1 \in 1 .. Len(c) /\ 1 \in 1 .. Len(b) /\ Len(c) + 1 = Len(flat) + 2
        /\ \A k \in 1 .. Len(flat) : 1 + k \in 1 .. Len(c)
    BY <1>2, <1>5, <1>6
  <2>4. (c \o b)[Len(c) + 1] = Break
    BY <1>5, <2>2, <2>3
  <2>5. Len(c) + Len(b) = Len(flat) + 2
    BY <1>5, <2>3
  <2> QED BY <1>6, <2>2, <2>3, <2>4, <2>5
<1>8. CASE indefinite
  <2>1. w = c \o b
    BY <1>4, <1>8
  <2>2. w # <<>>
    BY <1>2, <1>7, <2>1
  <2>3. IsWord(w)
    BY <1>3, <1>7, <2>1, <2>2 DEF IsWord
  <2> QED BY <1>1, <1>7, <1>8, <2>1, <2>3 DEF w, flat, first
<1>9. CASE ~ indefinite
  <2>1. w = c
    BY <1>4, <1>9
  <2>2. w # <<>>
    BY <1>2, <1>6, <2>1
  <2>3. IsWord(w)
    BY <1>3, <1>6, <2>1, <2>2 DEF IsWord
  <2> QED BY <1>1, <1>6, <1>9, <2>1, <2>3 DEF w, flat, first
<1> QED BY <1>8, <1>9

EndsWhereItemsDo(major, seqs, indefinite, depth, r, at) ==
  LET left == IF indefinite THEN Unending ELSE Len(seqs)
  IN  /\ Begins(r, at + 1, FlattenSeq(seqs))
      /\ ItemsAt(r, at + 1, depth + 1, left, major - 3) = Undecodable =>
           ItemAt(r, at, depth) = Undecodable
      /\ \A values, e : ItemsAt(r, at + 1, depth + 1, left, major - 3) = Decoded(values, e) =>
           ItemAt(r, at, depth) = Decoded(Contents(major, values), e)

\* What a list or a map is read as, from its items: they are not read, or it ends where they do.
LEMMA ContainerReads ==
  ASSUME NEW major \in {4, 5}, NEW seqs \in Seq(Seq(Heads)), NEW indefinite \in BOOLEAN,
         ~ indefinite => Len(seqs) % (major - 3) = 0, NEW depth \in Nat, depth <= MaxDepth,
         NEW r \in Seq(Heads), NEW at \in 1 .. Len(r), Begins(r, at, Container(major, seqs, indefinite))
  PROVE  EndsWhereItemsDo(major, seqs, indefinite, depth, r, at)
<1> DEFINE w == Container(major, seqs, indefinite)
           flat == FlattenSeq(seqs)
           from == decodeFrom(r)
           left == IF indefinite THEN Unending ELSE Len(seqs)
           items == ItemsAt(r, at + 1, depth + 1, left, major - 3)
<1>0. MaxDepth \in Nat /\ Len(r) \in Nat /\ Len(seqs) \in Nat
  BY GalleryAssumption, LenProperties
<1>1. /\ IsWord(w) /\ flat \in Seq(Heads)
      /\ Len(w) = IF indefinite THEN Len(flat) + 2 ELSE Len(flat) + 1
      /\ w[1] = IF indefinite THEN Open(major) ELSE Token(major, <<Len(seqs) \div (major - 3)>>)
      /\ \A k \in 1 .. Len(flat) : w[1 + k] = flat[k]
  BY ContainerFacts
<1>2. Len(flat) \in Nat
  BY <1>1, LenProperties
<1>3. Begins(r, at, w)
  OBVIOUS
<1> HIDE DEF w, flat, from, items
<1>4. r[at] = w[1]
  <2>1. 1 \in 1 .. Len(w) /\ at = at + 1 - 1 /\ at <= Len(r)
    BY <1>0, <1>1, <1>2
  <2> QED BY <1>3, <2>1, BeginsAt
<1>5. Begins(r, at + 1, flat)
  <2> SUFFICES ASSUME NEW k \in 1 .. Len(flat), at + 1 + k - 1 <= Len(r)
               PROVE  r[at + 1 + k - 1] = flat[k]
    BY DEF Begins
  <2> DEFINE l == 1 + k
             q == at + 1 + k - 1
  <2>1. l \in 1 .. Len(w) /\ q = at + l - 1 /\ q <= Len(r)
    BY <1>0, <1>1, <1>2
  <2>2. w[l] = flat[k]
    BY <1>1
  <2> HIDE DEF l, q
  <2>3. r[q] = w[l]
    BY <1>3, <2>1, BeginsAt
  <2> QED BY <2>2, <2>3 DEF q
<1>6. /\ r[at][1] = major /\ r[at][2] = indefinite
      /\ ~ indefinite => r[at][3][1] = Len(seqs) \div (major - 3)
  <2>1. CASE indefinite
    <3>1. r[at] = Open(major)
      BY <1>1, <1>4, <2>1
    <3>2. r[at][1] = major /\ r[at][2] = TRUE
      BY <3>1 DEF Open
    <3> QED BY <2>1, <3>2
  <2>2. CASE ~ indefinite
    <3>1. r[at] = Token(major, <<Len(seqs) \div (major - 3)>>)
      BY <1>1, <1>4, <2>2
    <3>2. r[at][1] = major /\ r[at][2] = FALSE /\ r[at][3][1] = Len(seqs) \div (major - 3)
      BY <3>1 DEF Token
    <3> QED BY <2>2, <3>2
  <2> QED BY <2>1, <2>2
<1>7. ItemsIn(r, from, at, depth) = items
  <2>1. left = IF r[at][2] THEN Unending ELSE (r[at][1] - 3) * r[at][3][1]
    <3>1. CASE indefinite
      BY <1>6, <3>1
    <3>2. CASE ~ indefinite
      <4>1. (major - 3) * (Len(seqs) \div (major - 3)) = Len(seqs)
        <5>1. \A n \in Nat : 1 * (n \div 1) = n
          OBVIOUS
        <5>2. \A n \in Nat : n % 2 = 0 => 2 * (n \div 2) = n
          OBVIOUS
        <5>3. CASE major = 4
          <6>1. major - 3 = 1
            BY <5>3
          <6> QED BY <1>0, <5>1, <6>1
        <5>4. CASE major = 5
          <6>1. major - 3 = 2
            BY <5>4
          <6> QED BY <1>0, <3>2, <5>2, <6>1
        <5> QED BY <5>3, <5>4
      <4> QED BY <1>6, <3>2, <4>1
    <3> QED BY <3>1, <3>2
  <2>2. r[at][1] - 3 = major - 3
    BY <1>6
  <2> QED BY <2>1, <2>2 DEF ItemsIn, ItemsAt, items, from
<1>8. /\ ItemAt(r, at, depth) = decodeItem(r, from, at, depth) /\ ReadsAs(r, from, at, depth)
      /\ DOMAIN r = 1 .. Len(r)
  <2>1. at \in 1 .. Len(r) + 1
    BY <1>0
  <2> QED BY <2>1, ItemFacts DEF from
<1>9. items = Undecodable => ItemAt(r, at, depth) = Undecodable
  <2> SUFFICES ASSUME items = Undecodable PROVE ItemAt(r, at, depth) = Undecodable
    OBVIOUS
  <2>1. Refused(r, from, at, depth)
    BY <1>6, <1>7 DEF Refused
  <2> QED BY <1>8, <2>1 DEF ReadsAs
<1>10. ASSUME NEW values, NEW e, items = Decoded(values, e)
       PROVE  ItemAt(r, at, depth) = Decoded(Contents(major, values), e)
  <2>1. items # Undecodable /\ items[1].value = values /\ items[1].at = e
    BY <1>10 DEF Decoded, Undecodable
  <2>2. ~ Refused(r, from, at, depth)
    <3>1. ~ (depth > MaxDepth) /\ at \in DOMAIN r
      BY <1>0, <1>8
    <3>2. r[at][1] \in 2 .. 5 /\ ~ (r[at][1] \in {2, 3})
      BY <1>6
    <3> QED BY <1>7, <2>1, <3>1, <3>2 DEF Refused
  <2>3. CASE major = 4
    <3>1. decodeItem(r, from, at, depth) = Decoded(<<"list", items[1].value>>, items[1].at)
      BY <1>6, <1>7, <1>8, <2>2, <2>3 DEF ReadsAs
    <3> QED BY <1>8, <2>1, <2>3, <3>1 DEF Contents
  <2>4. CASE major = 5
    <3>1. decodeItem(r, from, at, depth) = Decoded(<<"map", put(items[1].value)>>, items[1].at)
      BY <1>6, <1>7, <1>8, <2>2, <2>4 DEF ReadsAs
    <3> QED BY <1>8, <2>1, <2>4, <3>1 DEF Contents
  <2> QED BY <2>3, <2>4
<1> QED BY <1>5, <1>9, <1>10 DEF flat, items, EndsWhereItemsDo

\* Nothing is read beyond the field, and no list or map goes on where a break is misplaced.
LEMMA NoItemsAt ==
  ASSUME NEW r \in Seq(Heads), NEW at \in 1 .. Len(r) + 1, NEW depth \in Nat,
         NEW left \in Int, left # 0, NEW group \in {1, 2},
         at > Len(r) \/ (r[at] = Break /\ (Unending - left) % group # 0)
  PROVE  ItemsAt(r, at, depth, left, group) = Undecodable
<1> DEFINE from == decodeFrom(r)
           atBreak == at \in DOMAIN r /\ r[at] = Break /\ (Unending - left) % group = 0
           first == decodeItem(r, from, at, depth)
           rest  == from[first[1].at].items[depth][left - 1][group]
           items == ItemsAt(r, at, depth, left, group)
<1>1. items = IF left = 0 THEN Decoded(<<>>, at)
              ELSE IF left < 0 /\ atBreak THEN Decoded(<<>>, at + 1)
              ELSE IF first = Undecodable \/ rest = Undecodable THEN Undecodable
              ELSE Decoded(<<first[1].value>> \o rest[1].value, rest[1].at)
  <2>1. items = decodeItems(r, from, at, depth, left, group)
    BY DecodedFrom
  <2> HIDE DEF items, from
  <2> QED BY <2>1 DEF decodeItems
<1>2. /\ ItemAt(r, at, depth) = first /\ ReadsAs(r, from, at, depth)
      /\ DOMAIN r = 1 .. Len(r) /\ Len(r) \in Nat
      /\ at > Len(r) => ItemAt(r, at, depth) = Undecodable
  BY ItemFacts
<1>3. ~ atBreak
  BY <1>2
<1>4. first = Undecodable
  <2>1. CASE at > Len(r)
    BY <1>2, <2>1
  <2>2. CASE ~ (at > Len(r))
    <3>1. r[at] = Break
      BY <2>2
    <3>2. r[at][2] /\ r[at][1] \notin 2 .. 5
      BY <3>1 DEF Break, Open
    <3>3. Refused(r, from, at, depth)
      BY <3>2 DEF Refused
    <3> HIDE DEF first, from
    <3> QED BY <1>2, <3>3 DEF ReadsAs, first
  <2> QED BY <2>1, <2>2
<1> HIDE DEF items, first, rest, atBreak
<1> QED BY <1>1, <1>3, <1>4 DEF items

\* A list or a map is read, if its items are and no key is without its value; or else it is not.
LEMMA ContainerIsRead ==
  ASSUME NEW major \in {4, 5}, NEW seqs \in Seq(Seq(Heads)), NEW indefinite \in BOOLEAN,
         NEW depth \in Nat, depth <= MaxDepth, NEW values,
         \A j \in 1 .. Len(seqs) : IsWord(seqs[j]),
         \A j \in 1 .. Len(seqs) : \/ IsRead(seqs[j], depth + 1, values[j])
                                   \/ IsNoItem(seqs[j], depth + 1),
         ~ indefinite => Len(seqs) % (major - 3) = 0
  PROVE  LET w == Container(major, seqs, indefinite)
         IN  /\ IsWord(w)
             /\ (\E j \in 1 .. Len(seqs) : IsNoItem(seqs[j], depth + 1)) => IsNoItem(w, depth)
             /\ Len(seqs) % (major - 3) # 0 => IsNoItem(w, depth)
             /\ (\A j \in 1 .. Len(seqs) : IsRead(seqs[j], depth + 1, values[j]))
                  /\ Len(seqs) % (major - 3) = 0 =>
                  IsRead(w, depth, Contents(major, [k \in 1 .. Len(seqs) |-> values[k]]))
<1> DEFINE w == Container(major, seqs, indefinite)
           flat == FlattenSeq(seqs)
           n == Len(seqs)
           group == major - 3
           left == IF indefinite THEN Unending ELSE n
           AllRead == \A j \in 1 .. n : IsRead(seqs[j], depth + 1, values[j])
           vs == [k \in 1 .. n |-> values[k]]
           value == Contents(major, vs)
<1>0. MaxDepth \in Nat /\ n \in Nat /\ group \in {1, 2} /\ left \in Int /\ depth + 1 \in Nat
      /\ (left < 0 \/ left >= n)
  BY GalleryAssumption, LenProperties DEF Unending
<1>1. /\ IsWord(w) /\ flat \in Seq(Heads)
      /\ Len(w) = IF indefinite THEN Len(flat) + 2 ELSE Len(flat) + 1
      /\ indefinite => w[Len(flat) + 2] = Break
  BY ContainerFacts
<1>8. (indefinite => Len(w) = Len(flat) + 2) /\ (~ indefinite => Len(w) = Len(flat) + 1)
  BY <1>1
<1>2. PICK p : PlacesOf(p, seqs)
  BY FlattenPlaces
<1>3. p[0] = 0 /\ p[n] = Len(flat) /\ Len(flat) \in Nat
  BY <1>1, <1>2, LenProperties DEF PlacesOf
<1>4. ASSUME NEW r \in Seq(Heads), NEW at \in 1 .. Len(r) + 1, Begins(r, at, w)
      PROVE  /\ (\E j \in 1 .. n : IsNoItem(seqs[j], depth + 1)) => ItemAt(r, at, depth) = Undecodable
             /\ n % group # 0 => ItemAt(r, at, depth) = Undecodable
             /\ AllRead /\ n % group = 0 =>
                  ItemAt(r, at, depth) =
                    IF at + Len(w) - 1 <= Len(r) THEN Decoded(value, at + Len(w)) ELSE Undecodable
  <2>0. Len(r) \in Nat /\ Len(w) \in Nat /\ Len(w) >= 1
    <3>1. Len(w) \in Nat /\ Len(w) >= 1
      <4> HIDE DEF w, flat
      <4> QED BY <1>1, <1>3
    <3> QED BY <3>1, LenProperties
  <2>1. CASE at > Len(r)
    <3>1. ItemAt(r, at, depth) = Undecodable
      BY <2>1, ItemFacts
    <3>2. ~ (at + Len(w) - 1 <= Len(r))
      <4> HIDE DEF w
      <4> QED BY <2>0, <2>1
    <3> HIDE DEF w, value, AllRead
    <3> QED BY <3>1, <3>2
  <2>2. CASE ~ (at > Len(r))
    <3>1. at \in 1 .. Len(r)
      BY <2>0, <2>2
    <3>2. /\ Begins(r, at + 1, flat)
          /\ ItemsAt(r, at + 1, depth + 1, left, group) = Undecodable => ItemAt(r, at, depth) = Undecodable
          /\ \A others, e : ItemsAt(r, at + 1, depth + 1, left, group) = Decoded(others, e) =>
               ItemAt(r, at, depth) = Decoded(Contents(major, others), e)
      <4>1. Begins(r, at, Container(major, seqs, indefinite))
        BY <1>4
      <4>2. EndsWhereItemsDo(major, seqs, indefinite, depth, r, at)
        <5> HIDE DEF w, flat, value
        <5> QED BY <3>1, <4>1, ContainerReads
      <4> HIDE DEF value
      <4> QED BY <4>2 DEF EndsWhereItemsDo
    <3> DEFINE x == at + 1
               items == ItemsAt(r, x, depth + 1, left, group)
               item == ItemAt(r, at, depth)
    <3>3. x \in 1 .. Len(r) + 1
      BY <2>0, <3>1
    <3> HIDE DEF w, flat, value, AllRead, vs
    <3>4. ASSUME NEW b \in 1 .. n, IsNoItem(seqs[b], depth + 1) \/ x + p[b] > Len(r) + 1
          PROVE  item = Undecodable
      <4> DEFINE d == depth + 1
                 l == left
                 g == group
      <4> HIDE DEF x, d, l, g
      <4>1. l \in Int /\ (l < 0 \/ l >= Len(seqs)) /\ g \in {1, 2} /\ d \in Nat
        BY <1>0 DEF l, g, d
      <4>2. x \in 1 .. Len(r) + 1 /\ Begins(r, x, FlattenSeq(seqs))
        BY <3>2, <3>3 DEF flat, x
      <4>3. /\ \A j \in 1 .. Len(seqs) : IsRead(seqs[j], d, values[j]) \/ IsNoItem(seqs[j], d)
            /\ IsNoItem(seqs[b], d) \/ x + p[b] > Len(r) + 1
        BY <3>4 DEF d
      <4>4. ItemsAt(r, x, d, l, g) = Undecodable
        BY <1>2, <4>1, <4>2, <4>3, RunFails
      <4> QED BY <3>2, <4>4 DEF x, d, l, g
    <3>5. (\E j \in 1 .. n : IsNoItem(seqs[j], depth + 1)) => item = Undecodable
      <4> HIDE DEF item
      <4> QED BY <3>4
    <3>6. CASE \E j \in 1 .. n : IsNoItem(seqs[j], depth + 1) \/ x + p[j] > Len(r) + 1
      <4>1. item = Undecodable
        <5> HIDE DEF item
        <5> QED BY <3>4, <3>6
      <4>2. AllRead => ~ (at + Len(w) - 1 <= Len(r))
        <5> SUFFICES ASSUME AllRead, at + Len(w) - 1 <= Len(r) PROVE FALSE
          OBVIOUS
        <5>1. PICK j \in 1 .. n : IsNoItem(seqs[j], depth + 1) \/ x + p[j] > Len(r) + 1
          BY <3>6
        <5>2. p[j] \in Nat /\ p[j] <= Len(flat)
          <6>1. /\ p \in [0 .. n -> Nat] /\ j \in 0 .. n /\ p[j] <= Len(flat)
            BY <1>2, <5>1 DEF PlacesOf, flat
          <6> QED BY <6>1
        <5>3. x + p[j] <= Len(r) + 1
          <6>1. Len(w) >= Len(flat) + 1
            BY <1>1, <1>3
          <6> QED BY <1>3, <2>0, <5>2, <6>1
        <5>4. IsNoItem(seqs[j], depth + 1)
          <6>1. x + p[j] \in Nat
            BY <5>2, <2>0
          <6> HIDE DEF x
          <6>2. ~ (x + p[j] > Len(r) + 1)
            <7> DEFINE y == x + p[j]
            <7>1. y \in Nat /\ y <= Len(r) + 1
              BY <5>3, <6>1
            <7> HIDE DEF y
            <7>2. ~ (y > Len(r) + 1)
              BY <2>0, <7>1
            <7> QED BY <7>2 DEF y
          <6> QED BY <5>1, <6>2
        <5>5. IsRead(seqs[j], depth + 1, values[j])
          BY DEF AllRead
        <5> DEFINE s == seqs[j]
        <5>6. s \in Seq(Heads) /\ Len(s) \in Nat
          BY ElementOfSeq, LenProperties
        <5> HIDE DEF s
        <5>7. Begins(s, 1, s) /\ 1 \in 1 .. Len(s) + 1 /\ 1 + Len(s) - 1 <= Len(s)
          BY <5>6 DEF Begins
        <5>8. IsRead(s, depth + 1, values[j]) /\ IsNoItem(s, depth + 1)
          BY <5>4, <5>5 DEF s
        <5>9. /\ ItemAt(s, 1, depth + 1) = Undecodable
              /\ ItemAt(s, 1, depth + 1) = Decoded(values[j], 1 + Len(s))
          BY <5>6, <5>7, <5>8 DEF IsRead, IsNoItem
        <5> QED BY <5>9, DecodedIsSome
      <4> HIDE DEF item
      <4> QED BY <4>1, <4>2 DEF item
    <3>7. CASE ~ \E j \in 1 .. n : IsNoItem(seqs[j], depth + 1) \/ x + p[j] > Len(r) + 1
      <4>1. \A j \in 1 .. n : IsRead(seqs[j], depth + 1, values[j])
        BY <3>7
      <4> DEFINE y == x + p[n]
      <4>2. y \in 1 .. Len(r) + 1 /\ y = at + 1 + Len(flat)
        <5>1. y = at + 1 + Len(flat) /\ y \in Nat /\ y >= 1
          BY <1>3, <2>0, <3>1
        <5>2. y <= Len(r) + 1
          <6>1. CASE n = 0
            BY <1>3, <2>0, <3>1, <6>1
          <6>2. CASE n # 0
            <7>1. n \in 1 .. n
              BY <1>0, <6>2
            <7>2. ~ (y > Len(r) + 1)
              <8> HIDE DEF n
              <8> QED BY <3>7, <7>1
            <7> HIDE DEF y
            <7> QED BY <2>0, <5>1, <7>2
          <6> QED BY <6>1, <6>2
        <5> HIDE DEF y
        <5> QED BY <2>0, <5>1, <5>2
      <4> DEFINE d == depth + 1
                 l == left
                 g == group
                 end == ItemsAt(r, y, d, l - n, g)
      <4>3. \A i \in 0 .. n :
              /\ end = Undecodable => ItemsAt(r, x + p[i], d, l - i, g) = Undecodable
              /\ \A e : end = Decoded(<<>>, e) =>
                   ItemsAt(r, x + p[i], d, l - i, g) = Decoded([k \in 1 .. n - i |-> values[i + k]], e)
        <5> HIDE DEF x, d, l, g
        <5>1. l \in Int /\ (l < 0 \/ l >= Len(seqs)) /\ g \in {1, 2} /\ d \in Nat /\ n \in 0 .. Len(seqs)
          BY <1>0 DEF l, g, d
        <5>2. x \in 1 .. Len(r) + 1 /\ Begins(r, x, FlattenSeq(seqs)) /\ x + p[n] <= Len(r) + 1
          BY <2>0, <3>2, <3>3, <4>2 DEF flat, x
        <5>3. \A j \in 1 .. n : IsRead(seqs[j], d, values[j])
          BY <4>1 DEF d
        <5> DEFINE m == n
        <5>4. m \in 0 .. Len(seqs) /\ x + p[m] <= Len(r) + 1 /\ \A j \in 1 .. m : IsRead(seqs[j], d, values[j])
          BY <5>1, <5>2, <5>3
        <5> HIDE DEF m
        <5>5. RunsTo(r, p, x, d, l, g, m, values)
          BY <1>2, <5>1, <5>2, <5>4, ItemsRun
        <5> QED BY <5>5 DEF RunsTo, m
      <4>4. /\ end = Undecodable => items = Undecodable
            /\ \A e : end = Decoded(<<>>, e) => items = Decoded(vs, e)
        <5>1. 0 \in 0 .. n /\ x + p[0] = x /\ l - 0 = l
          BY <1>0, <1>3, <2>0, <3>3
        <5>2. [k \in 1 .. n - 0 |-> values[0 + k]] = vs
          <6>1. n - 0 = n
            BY <1>0
          <6>2. \A k \in 1 .. n : 0 + k = k
            BY <1>0
          <6> QED BY <6>1, <6>2 DEF vs
        <5> DEFINE start == ItemsAt(r, x + p[0], d, l - 0, g)
        <5>3. start = items
          <6> HIDE DEF x, l, d, g
          <6> QED BY <5>1 DEF d, l, g
        <5>4. /\ end = Undecodable => start = Undecodable
              /\ \A e : end = Decoded(<<>>, e) => start = Decoded([k \in 1 .. n - 0 |-> values[0 + k]], e)
          <6> HIDE DEF x, l, d, g, y, end
          <6> QED BY <4>3, <5>1
        <5> HIDE DEF start, items, end
        <5> QED BY <5>2, <5>3, <5>4
      <4>5. CASE ~ indefinite
        <5>1. end = Decoded(<<>>, y)
          <6>1. l - n = 0 /\ l - n \in Int
            BY <1>0, <4>5
          <6>2. end = decodeItems(r, decodeFrom(r), y, d, l - n, g)
            <7> HIDE DEF y, d, l, g
            <7>1. d \in Nat /\ g \in {1, 2} /\ l - n \in Int /\ y \in 1 .. Len(r) + 1
              BY <1>0, <4>2, <6>1 DEF d, g
            <7> DEFINE z == l - n
            <7>2. z \in Int
              BY <7>1
            <7> HIDE DEF z
            <7>3. ItemsAt(r, y, d, z, g) = decodeItems(r, decodeFrom(r), y, d, z, g)
              BY <7>1, <7>2, DecodedFrom
            <7> QED BY <7>3 DEF z
          <6> HIDE DEF end, y, d, l, g
          <6> QED BY <6>1, <6>2 DEF decodeItems
        <5>2. item = Decoded(value, y)
          <6> HIDE DEF end, y, d, l, g
          <6> QED BY <3>2, <4>4, <5>1 DEF value
        <5>3. at + Len(w) - 1 <= Len(r) /\ at + Len(w) = y
          <6> DEFINE u == Len(w)
                     f == Len(flat)
          <6>1. u = f + 1 /\ y = at + 1 + f /\ f \in Nat /\ at \in Nat /\ y <= Len(r) + 1
            BY <1>3, <1>8, <2>0, <3>1, <4>2, <4>5
          <6> HIDE DEF u, f, y
          <6>2. at + u - 1 <= Len(r) /\ at + u = y
            BY <2>0, <6>1
          <6> QED BY <6>2 DEF u
        <5>4. n % group = 0
          BY <4>5
        <5> HIDE DEF item, y, n, group
        <5> QED BY <3>5, <3>7, <5>2, <5>3, <5>4 DEF item, n, group
      <4>6. CASE indefinite
        <5>0. /\ l - n = -1 - n /\ l - n \in Int /\ l - n < 0 /\ Unending - (l - n) = n /\ d \in Nat
              /\ g \in {1, 2}
          BY <1>0, <4>6 DEF Unending
        <5>1. CASE y > Len(r)
          <6>1. end = Undecodable
            <7> DEFINE z == l - n
            <7> HIDE DEF y, d, l, g
            <7>1. z \in Int /\ z # 0
              BY <5>0
            <7> HIDE DEF z
            <7>2. ItemsAt(r, y, d, z, g) = Undecodable
              BY <4>2, <5>0, <5>1, <7>1, NoItemsAt
            <7> QED BY <7>2 DEF z
          <6>2. item = Undecodable
            <7> HIDE DEF end, y, d, l, g
            <7> QED BY <3>2, <4>4, <6>1
          <6>3. ~ (at + Len(w) - 1 <= Len(r))
            <7> HIDE DEF y
            <7> QED BY <1>3, <1>8, <2>0, <3>1, <4>2, <4>6, <5>1
          <6> HIDE DEF item
          <6> QED BY <6>2, <6>3 DEF item
        <5>2. CASE ~ (y > Len(r))
          <6>1. r[y] = Break
            <7> DEFINE q == Len(flat) + 2
            <7>1. q \in 1 .. Len(w) /\ y = at + q - 1 /\ y <= Len(r)
              <8> HIDE DEF y
              <8> QED BY <1>3, <1>8, <2>0, <3>1, <4>2, <4>6, <5>2
            <7>2. w[q] = Break
              BY <1>1, <4>6
            <7> HIDE DEF y, q
            <7>3. Begins(r, at, w)
              BY <1>4
            <7>5. \A k \in 1 .. Len(w) : at + k - 1 <= Len(r) => r[at + k - 1] = w[k]
              BY <7>3 DEF Begins
            <7>4. r[y] = w[q]
              BY <7>1, <7>5
            <7> QED BY <7>2, <7>4
          <6>2. CASE n % group = 0
            <7>1. end = Decoded(<<>>, y + 1)
              <8> DEFINE z == l - n
              <8> HIDE DEF y, d, l, g
              <8>1. z \in Int /\ z # 0 /\ z < 0 /\ (Unending - z) % g = 0
                BY <5>0, <6>2 DEF g
              <8> HIDE DEF z
              <8>2. ItemsAt(r, y, d, z, g) = decodeItems(r, decodeFrom(r), y, d, z, g)
                BY <4>2, <5>0, <8>1, DecodedFrom
              <8>3. y \in DOMAIN r
                BY <2>0, <4>2, <5>2
              <8>4. decodeItems(r, decodeFrom(r), y, d, z, g) = Decoded(<<>>, y + 1)
                BY <6>1, <8>1, <8>3 DEF decodeItems
              <8> QED BY <8>2, <8>4 DEF z
            <7>2. item = Decoded(value, y + 1)
              <8> HIDE DEF end, y, d, l, g
              <8> QED BY <3>2, <4>4, <7>1 DEF value
            <7>3. at + Len(w) - 1 <= Len(r) /\ at + Len(w) = y + 1
              <8> DEFINE u == Len(w)
                         f == Len(flat)
              <8>1. u = f + 2 /\ y = at + 1 + f /\ f \in Nat /\ at \in Nat /\ y <= Len(r) + 0
                BY <1>3, <1>8, <2>0, <3>1, <4>2, <4>6, <5>2
              <8> HIDE DEF u, f, y
              <8>2. at + u - 1 <= Len(r) /\ at + u = y + 1
                BY <2>0, <8>1
              <8> QED BY <8>2 DEF u
            <7> HIDE DEF item, y, n, group
            <7> QED BY <3>5, <3>7, <6>2, <7>2, <7>3 DEF item, n, group
          <6>3. CASE n % group # 0
            <7>1. end = Undecodable
              <8> DEFINE z == l - n
              <8> HIDE DEF y, d, l, g
              <8>1. z \in Int /\ z # 0 /\ (Unending - z) % g # 0
                BY <5>0, <6>3 DEF g
              <8> HIDE DEF z
              <8>2. ItemsAt(r, y, d, z, g) = Undecodable
                BY <4>2, <5>0, <6>1, <8>1, NoItemsAt
              <8> QED BY <8>2 DEF z
            <7>2. item = Undecodable
              <8> HIDE DEF end, y, d, l, g
              <8> QED BY <3>2, <4>4, <7>1
            <7> HIDE DEF item
            <7> QED BY <6>3, <7>2 DEF item
          <6> QED BY <6>2, <6>3
        <5> QED BY <5>1, <5>2
      <4> QED BY <4>5, <4>6
    <3> QED BY <3>6, <3>7
  <2> QED BY <2>1, <2>2
<1> HIDE DEF value, AllRead, w, n, group
<1>5. (\E j \in 1 .. n : IsNoItem(seqs[j], depth + 1)) => IsNoItem(w, depth)
  BY <1>4 DEF IsNoItem
<1>6. n % group # 0 => IsNoItem(w, depth)
  BY <1>4 DEF IsNoItem
<1>7. AllRead /\ n % group = 0 => IsRead(w, depth, value)
  BY <1>4 DEF IsRead
<1> QED BY <1>1, <1>5, <1>6, <1>7 DEF value, vs, AllRead, w, n, group

(* --------------------- keys, values and nested lists ------------------- *)

ValueOf(major, argument) ==
  IF major = 0 THEN <<"int", argument[1]>>
  ELSE IF major = 1 THEN <<"int", -1 - argument[1]>>
  ELSE IF major = 2 THEN <<"bytes", argument>>
  ELSE IF major = 3 THEN <<"text", argument>>
  ELSE SimpleValue(argument)

\* Two words that follow each other are two items.
LEMMA TokenIsWord ==
  ASSUME NEW t \in Heads, t # Break
  PROVE  IsWord(<<t>>)
<1>1. <<t>> \in Seq(Heads) /\ <<t>> # <<>> /\ <<t>>[1] = t
  OBVIOUS
<1> QED BY <1>1 DEF IsWord

\* A value is read as itself, in whatever way it is spelled.
LEMMA SpelledIsRead ==
  ASSUME NEW depth \in Nat, depth + 1 <= MaxDepth, NEW major \in {0, 1, 2, 3, 7},
         NEW argument \in Seq(Symbols), NEW indefinite \in BOOLEAN,
         major = 7 => argument # <<>>
  PROVE  /\ IsWord(Spelled(Token(major, argument), indefinite))
         /\ IsRead(Spelled(Token(major, argument), indefinite), depth, ValueOf(major, argument))
<1> DEFINE t == Token(major, argument)
<1>1. MaxDepth \in Nat
  BY GalleryAssumption
<1>2. depth <= MaxDepth /\ depth + 1 \in Nat
  BY <1>1
<1>3. t \in Heads /\ Token(6, <<1>>) \in Heads
  <2>1. <<1>> \in Seq(Symbols)
    BY DEF Symbols
  <2>2. CASE major \in {0, 1, 2, 3}
    BY <2>1, <2>2, HeadsTyped
  <2>3. CASE major = 7
    BY <2>1, <2>3, HeadsTyped
  <2> QED BY <2>2, <2>3
<1>4. t # Break /\ Token(6, <<1>>) # Break /\ t[1] = major /\ t[3] = argument
  BY DEF Token, Break, Open
<1>5. \A d \in {depth, depth + 1} : IsRead(<<t>>, d, ValueOf(major, argument))
  <2> TAKE d \in {depth, depth + 1}
  <2>1. d \in Nat /\ d <= MaxDepth
    BY <1>2
  <2>2. /\ IsRead(<<Token(0, argument)>>, d, <<"int", argument[1]>>)
        /\ IsRead(<<Token(1, argument)>>, d, <<"int", -1 - argument[1]>>)
        /\ IsRead(<<Token(2, argument)>>, d, <<"bytes", argument>>)
        /\ IsRead(<<Token(3, argument)>>, d, <<"text", argument>>)
        /\ IsRead(<<Token(7, argument)>>, d, SimpleValue(argument))
    BY <2>1, PlainIsRead
  <2>3. CASE major = 0
    BY <2>2, <2>3 DEF ValueOf
  <2>4. CASE major = 1
    BY <2>2, <2>4 DEF ValueOf
  <2>5. CASE major = 2
    BY <2>2, <2>5 DEF ValueOf
  <2>6. CASE major = 3
    BY <2>2, <2>6 DEF ValueOf
  <2>7. CASE major = 7
    BY <2>2, <2>7 DEF ValueOf
  <2> QED BY <2>3, <2>4, <2>5, <2>6, <2>7
<1>6. CASE ~ indefinite
  <2>1. Spelled(t, indefinite) = <<t>>
    BY <1>6 DEF Spelled
  <2>2. IsWord(<<t>>)
    BY <1>3, <1>4, TokenIsWord
  <2> QED BY <1>5, <2>1, <2>2
<1>7. CASE indefinite /\ major \in {2, 3}
  <2>1. Spelled(t, indefinite) = Chunked(major, argument)
    BY <1>4, <1>7 DEF Spelled, Chunked
  <2>2. /\ IsWord(Chunked(major, argument))
        /\ IsRead(Chunked(major, argument), depth, <<IF major = 2 THEN "bytes" ELSE "text", argument>>)
    BY <1>2, <1>7, ChunkedIsRead
  <2>3. ValueOf(major, argument) = <<IF major = 2 THEN "bytes" ELSE "text", argument>>
    BY <1>7 DEF ValueOf
  <2> QED BY <2>1, <2>2, <2>3
<1>8. CASE indefinite /\ major \notin {2, 3}
  <2>1. Spelled(t, indefinite) = <<Token(6, <<1>>), t>>
    BY <1>4, <1>8 DEF Spelled
  <2> HIDE DEF t
  <2>2. IsRead(<<t>>, depth + 1, ValueOf(major, argument))
    BY <1>5
  <2>3. IsRead(<<Token(6, <<1>>), t>>, depth, ValueOf(major, argument))
    BY <1>2, <1>3, <2>2, TaggedIsRead
  <2>4. /\ <<Token(6, <<1>>), t>> \in Seq(Heads) /\ <<Token(6, <<1>>), t>> # <<>>
        /\ <<Token(6, <<1>>), t>>[1] = Token(6, <<1>>)
    BY <1>3
  <2>5. IsWord(<<Token(6, <<1>>), t>>)
    BY <1>4, <2>4 DEF IsWord
  <2> QED BY <2>1, <2>3, <2>5 DEF t
<1> QED BY <1>6, <1>7, <1>8

\* A numeral is a text, and of one number.
LEMMA NumeralFacts ==
  /\ \A n \in Nat : Numeral(n) \in Seq(Symbols)
  /\ \A m, n : Numeral(m) = Numeral(n) => m = n
<1>1. ASSUME NEW n \in Nat PROVE Numeral(n) \in Seq(Symbols)
  <2>1. "numeral" \in Symbols /\ n \in Symbols
    BY DEF Symbols
  <2>2. \A a, b \in Symbols : <<a, b>> \in Seq(Symbols)
    OBVIOUS
  <2> QED BY <2>1, <2>2 DEF Numeral
<1>2. \A m, n : Numeral(m) = Numeral(n) => m = n
  BY DEF Numeral
<1> QED BY <1>1, <1>2

KeyValue(key, indefinite) ==
  IF indefinite THEN <<"text", Numeral(key)>> ELSE <<"int", key>>

\* A key is read as a number or as the text that spells it, and both name it.
LEMMA KeyIsRead ==
  ASSUME NEW depth \in Nat, depth <= MaxDepth, NEW key \in Nat, NEW indefinite \in BOOLEAN
  PROVE  /\ IsWord(Key(key, indefinite))
         /\ IsRead(Key(key, indefinite), depth, KeyValue(key, indefinite))
         /\ keyToString(KeyValue(key, indefinite)) = Numeral(key)
<1>1. CASE indefinite
  <2> DEFINE t == Token(3, Numeral(key))
  <2>1. Key(key, indefinite) = <<t>> /\ KeyValue(key, indefinite) = <<"text", Numeral(key)>>
    BY <1>1 DEF Key, KeyValue
  <2>2. t \in Heads /\ t # Break
    BY NumeralFacts, HeadsTyped DEF Token, Break, Open
  <2>3. IsRead(<<t>>, depth, <<"text", Numeral(key)>>)
    BY PlainIsRead
  <2> HIDE DEF t
  <2>4. IsWord(<<t>>)
    BY <2>2, TokenIsWord
  <2>5. keyToString(<<"text", Numeral(key)>>) = Numeral(key)
    BY DEF keyToString
  <2> QED BY <2>1, <2>3, <2>4, <2>5
<1>2. CASE ~ indefinite
  <2> DEFINE t == Token(0, <<key>>)
  <2>1. Key(key, indefinite) = <<t>> /\ KeyValue(key, indefinite) = <<"int", key>>
    BY <1>2 DEF Key, KeyValue
  <2>2. <<key>> \in Seq(Symbols) /\ <<key>>[1] = key
    BY DEF Symbols
  <2>3. t \in Heads /\ t # Break
    BY <2>2, HeadsTyped DEF Token, Break, Open
  <2>4. IsRead(<<t>>, depth, <<"int", key>>)
    BY <2>2, PlainIsRead
  <2> HIDE DEF t
  <2>5. IsWord(<<t>>)
    BY <2>3, TokenIsWord
  <2>6. keyToString(<<"int", key>>) = Numeral(key)
    BY DEF keyToString
  <2> QED BY <2>1, <2>4, <2>5, <2>6
<1> QED BY <1>1, <1>2

NestedLists(n) == [i \in 1 .. n |-> Token(4, <<IF i = n THEN 0 ELSE 1>>)]

\* Lists in lists are one list, that has one item or none,
LEMMA NestedIsContainer ==
  /\ NestedLists(1) = Container(4, <<>>, FALSE)
  /\ \A n \in Nat \ {0} : NestedLists(n) \in Seq(Heads) =>
       NestedLists(n + 1) = Container(4, <<NestedLists(n)>>, FALSE)
<1>1. NestedLists(1) = Container(4, <<>>, FALSE)
  <2>1. FlattenSeq(<<>>) = <<>>
    BY Zenon DEF FlattenSeq
  <2>2. Len(<<>>) \div (4 - 3) = 0
    OBVIOUS
  <2>3. Container(4, <<>>, FALSE) = <<Token(4, <<0>>)>> \o <<>>
    BY <2>1, <2>2 DEF Container
  <2>4. \A t : <<t>> \o <<>> = <<t>>
    OBVIOUS
  <2>5. NestedLists(1) = [i \in 1 .. 1 |-> Token(4, <<0>>)]
    BY DEF NestedLists
  <2>6. \A t : [i \in 1 .. 1 |-> t] = <<t>>
    OBVIOUS
  <2> QED BY <2>3, <2>4, <2>5, <2>6
<1>2. ASSUME NEW n \in Nat \ {0}, NestedLists(n) \in Seq(Heads)
      PROVE  NestedLists(n + 1) = Container(4, <<NestedLists(n)>>, FALSE)
  <2> DEFINE s == NestedLists(n)
             w == Container(4, <<s>>, FALSE)
             v == NestedLists(n + 1)
             t == Token(4, <<1>>)
  <2>1. FlattenSeq(<<s>>) = s
    BY <1>2, FlattenOne
  <2>2. Len(<<s>>) \div (4 - 3) = 1
    OBVIOUS
  <2>3. w = <<t>> \o s
    BY <2>1, <2>2 DEF Container
  <2>4. s = [i \in 1 .. n |-> Token(4, <<IF i = n THEN 0 ELSE 1>>)] /\ Len(s) = n
    BY DEF NestedLists
  <2>5. v = [i \in 1 .. n + 1 |-> Token(4, <<IF i = n + 1 THEN 0 ELSE 1>>)]
    BY DEF NestedLists
  <2>6. t \in Heads
    BY HeadsTyped
  <2>7. \A i \in 1 .. n + 1 : v[i] \in Heads
    BY <2>5, HeadsTyped
  <2>8. v \in Seq(Heads) /\ Len(v) = n + 1
    BY <2>5, <2>7
  <2>9. \A i \in 1 .. n + 1 : v[i] = IF i = 1 THEN t ELSE s[i - 1]
    BY <2>4, <2>5
  <2>10. s \in Seq(Heads)
    BY <1>2
  <2> HIDE DEF s, w, v, t
  <2>11. <<t>> \in Seq(Heads) /\ Len(<<t>>) = 1 /\ <<t>>[1] = t
    BY <2>6
  <2> DEFINE a == <<t>>
  <2>12. /\ a \o s \in Seq(Heads) /\ Len(a \o s) = Len(a) + Len(s)
         /\ \A k \in 1 .. Len(a) : (a \o s)[k] = a[k]
         /\ \A k \in 1 .. Len(s) : (a \o s)[Len(a) + k] = s[k]
    <3>1. a \in Seq(Heads)
      BY <2>11
    <3> HIDE DEF a
    <3> QED BY <2>10, <3>1, ConcatPlaces
  <2>13. Len(w) = n + 1 /\ w \in Seq(Heads) /\ w[1] = t /\ \A k \in 1 .. n : w[1 + k] = s[k]
    BY <2>3, <2>4, <2>11, <2>12
  <2>14. \A i \in 1 .. n + 1 : w[i] = v[i]
    <3> TAKE i \in 1 .. n + 1
    <3>1. CASE i = 1
      BY <2>9, <2>13, <3>1
    <3>2. CASE i # 1
      <4>1. i - 1 \in 1 .. n /\ 1 + (i - 1) = i
        BY <3>2
      <4> QED BY <2>9, <2>13, <3>2, <4>1
    <3> QED BY <3>1, <3>2
  <2> QED BY <2>8, <2>13, <2>14, SeqEqual DEF v, w, s
<1> QED BY <1>1, <1>2

\* and are read as a list unless they are nested too deep.
ReadsNested(n) ==
  /\ IsWord(NestedLists(n))
  /\ \A depth \in Nat :
       /\ depth + n - 1 > MaxDepth => IsNoItem(NestedLists(n), depth)
       /\ depth + n - 1 <= MaxDepth => \E v : IsRead(NestedLists(n), depth, <<"list", v>>)

\* Below the deepest level nothing is read.
LEMMA TooDeepIsNoItem ==
  ASSUME NEW depth \in Nat, depth > MaxDepth, NEW w
  PROVE  IsNoItem(w, depth)
BY ItemFacts DEF IsNoItem

\* If so many nested lists are read so, one more is,
LEMMA NestedStep ==
  ASSUME NEW n \in Nat \ {0}, ReadsNested(n)
  PROVE  ReadsNested(n + 1)
<1> DEFINE s == NestedLists(n)
           w == NestedLists(n + 1)
           seqs == <<s>>
<1>1. MaxDepth \in Nat
  BY GalleryAssumption
<1>2. IsWord(s) /\ s \in Seq(Heads)
  BY DEF ReadsNested, IsWord
<1>3. w = Container(4, seqs, FALSE)
  BY <1>2, NestedIsContainer
<1> HIDE DEF s, w
<1>4. seqs \in Seq(Seq(Heads)) /\ Len(seqs) = 1 /\ seqs[1] = s
  BY <1>2
<1> HIDE DEF seqs
<1>5. (4 - 3) = 1 /\ Len(seqs) % 1 = 0
  BY <1>4
<1>6. IsWord(w)
  BY <1>3, <1>4, ContainerFacts
<1>7. ASSUME NEW depth \in Nat, depth <= MaxDepth, NEW values,
             IsRead(s, depth + 1, values[1]) \/ IsNoItem(s, depth + 1)
      PROVE  /\ IsNoItem(s, depth + 1) => IsNoItem(w, depth)
             /\ IsRead(s, depth + 1, values[1]) => \E v : IsRead(w, depth, <<"list", v>>)
  <2>1. \A j \in 1 .. Len(seqs) : IsWord(seqs[j])
    BY <1>2, <1>4
  <2>2. \A j \in 1 .. Len(seqs) : \/ IsRead(seqs[j], depth + 1, values[j])
                                  \/ IsNoItem(seqs[j], depth + 1)
    BY <1>4, <1>7
  <2>3. Len(seqs) % (4 - 3) = 0
    BY <1>5
  <2>4. /\ (\E j \in 1 .. Len(seqs) : IsNoItem(seqs[j], depth + 1)) =>
               IsNoItem(Container(4, seqs, FALSE), depth)
        /\ (\A j \in 1 .. Len(seqs) : IsRead(seqs[j], depth + 1, values[j]))
             /\ Len(seqs) % (4 - 3) = 0 =>
             IsRead(Container(4, seqs, FALSE), depth,
                    Contents(4, [k \in 1 .. Len(seqs) |-> values[k]]))
    BY <1>4, <1>7, <2>1, <2>2, <2>3, ContainerIsRead
  <2>5. \A v : Contents(4, v) = <<"list", v>>
    BY DEF Contents
  <2>6. IsNoItem(s, depth + 1) => IsNoItem(w, depth)
    <3>1. 1 \in 1 .. Len(seqs) /\ seqs[1] = s
      BY <1>4
    <3>2. IsNoItem(s, depth + 1) => \E j \in 1 .. Len(seqs) : IsNoItem(seqs[j], depth + 1)
      BY <3>1, Zenon
    <3> QED BY <1>3, <2>4, <3>2
  <2>7. ASSUME IsRead(s, depth + 1, values[1])
        PROVE  \E v : IsRead(w, depth, <<"list", v>>)
    <3>1. \A j \in 1 .. Len(seqs) : IsRead(seqs[j], depth + 1, values[j])
      BY <1>4, <2>7
    <3> QED BY <1>3, <2>3, <2>4, <2>5, <3>1
  <2> QED BY <2>6, <2>7
<1>8. ASSUME NEW depth \in Nat, depth + (n + 1) - 1 > MaxDepth
      PROVE  IsNoItem(w, depth)
  <2>1. CASE depth > MaxDepth
    BY <2>1, TooDeepIsNoItem
  <2>2. CASE depth <= MaxDepth
    <3>1. depth + 1 \in Nat /\ (depth + 1) + n - 1 > MaxDepth
      BY <1>8
    <3>2. IsNoItem(s, depth + 1)
      BY <3>1 DEF ReadsNested, s
    <3> QED BY <1>7, <2>2, <3>2
  <2> QED BY <1>1, <2>1, <2>2
<1>9. ASSUME NEW depth \in Nat, depth + (n + 1) - 1 <= MaxDepth
      PROVE  \E v : IsRead(w, depth, <<"list", v>>)
  <2>1. depth <= MaxDepth /\ depth + 1 \in Nat /\ (depth + 1) + n - 1 <= MaxDepth
    BY <1>1, <1>9
  <2>2. PICK u : IsRead(s, depth + 1, <<"list", u>>)
    BY <2>1 DEF ReadsNested, s
  <2> DEFINE values == << <<"list", u>> >>
  <2>3. IsRead(s, depth + 1, values[1])
    BY <2>2
  <2> HIDE DEF values
  <2> QED BY <1>7, <2>1, <2>3
<1> QED BY <1>6, <1>8, <1>9 DEF ReadsNested, w

\* so all are: lists that are nested too deep are refused and no others.
LEMMA NestedIsRead ==
  ASSUME NEW n \in Nat \ {0}
  PROVE  ReadsNested(n)
<1>1. ReadsNested(1)
  <2> DEFINE w == NestedLists(1)
             seqs == <<>>
             values == <<>>
  <2>1. w = Container(4, seqs, FALSE)
    BY NestedIsContainer
  <2> HIDE DEF w
  <2>2. seqs \in Seq(Seq(Heads)) /\ Len(seqs) = 0
    OBVIOUS
  <2> HIDE DEF seqs, values
  <2>3. IsWord(w)
    BY <2>1, <2>2, ContainerFacts
  <2>4. ASSUME NEW depth \in Nat, depth + 1 - 1 <= MaxDepth
        PROVE  \E v : IsRead(w, depth, <<"list", v>>)
    <3>1. depth <= MaxDepth
      BY <2>4
    <3>2. Len(seqs) % (4 - 3) = 0 /\ \A j \in 1 .. Len(seqs) : FALSE
      BY <2>2
    <3>3. IsRead(Container(4, seqs, FALSE), depth,
                 Contents(4, [k \in 1 .. Len(seqs) |-> values[k]]))
      <4>1. \A j \in 1 .. Len(seqs) : IsWord(seqs[j])
        BY <3>2
      <4>2. \A j \in 1 .. Len(seqs) : \/ IsRead(seqs[j], depth + 1, values[j])
                                      \/ IsNoItem(seqs[j], depth + 1)
        BY <3>2
      <4>3. \A j \in 1 .. Len(seqs) : IsRead(seqs[j], depth + 1, values[j])
        BY <3>2
      <4> QED BY <2>2, <3>1, <3>2, <4>1, <4>2, <4>3, ContainerIsRead
    <3> QED BY <2>1, <3>3 DEF Contents
  <2>5. ASSUME NEW depth \in Nat, depth + 1 - 1 > MaxDepth
        PROVE  IsNoItem(w, depth)
    BY <2>5, TooDeepIsNoItem
  <2> QED BY <2>3, <2>4, <2>5 DEF ReadsNested, w
<1> DEFINE S == {k \in Nat : ReadsNested(k + 1)}
<1>2. 0 \in S
  <2>1. 0 + 1 = 1
    OBVIOUS
  <2> QED BY <1>1, <2>1
<1>3. \A k \in Nat : k \in S => k + 1 \in S
  <2> SUFFICES ASSUME NEW k \in Nat, ReadsNested(k + 1) PROVE ReadsNested((k + 1) + 1)
    OBVIOUS
  <2>1. k + 1 \in Nat \ {0}
    OBVIOUS
  <2> QED BY <2>1, NestedStep
<1>4. n - 1 \in S
  <2> HIDE DEF S
  <2>1. Nat \subseteq S
    BY <1>2, <1>3, InductionBySet
  <2>2. n - 1 \in Nat
    OBVIOUS
  <2> QED BY <2>1, <2>2
<1>5. n - 1 + 1 = n
  OBVIOUS
<1> QED BY <1>4, <1>5

(* --------------------------------- maps -------------------------------- *)

\* What a map of so many pairs has at a key: the last value that was put there.
MapOf(map, m, keys, values) ==
  \A key \in Nat :
    /\ (\A j \in 1 .. m : keys[j] # key) => atKey(map, key) = undefined
    /\ \A j \in 1 .. m : keys[j] = key /\ (\A i \in j + 1 .. m : keys[i] # key) =>
         atKey(map, key) = values[j]

\* The greatest of some numbers.
LEMMA MaxIsLast ==
  ASSUME NEW T, T \subseteq Int, NEW last \in T, \A i \in T : i <= last
  PROVE  Max(T) = last
<1>1. \E x \in T : \A y \in T : x >= y
  <2>1. \A y \in T : last >= y
    OBVIOUS
  <2> QED BY <2>1
<1>2. Max(T) \in T /\ \A y \in T : Max(T) >= y
  <2> DEFINE P(x) == x \in T /\ \A y \in T : x >= y
  <2>1. P(CHOOSE x : P(x))
    <3>1. \E x : P(x)
      BY <1>1
    <3> HIDE DEF P
    <3> QED BY <3>1
  <2>2. Max(T) = CHOOSE x : P(x)
    BY DEF Max
  <2> QED BY <2>1, <2>2
<1>3. Max(T) \in Int /\ last \in Int /\ Max(T) <= last /\ Max(T) >= last
  BY <1>2
<1> QED BY <1>3

\* put keeps, of a key that is repeated, the last value.
LEMMA PutIsMap ==
  ASSUME NEW m \in Nat, NEW items, DOMAIN items = 1 .. 2 * m, NEW keys, NEW values,
         \A j \in 1 .. m : /\ keyToString(items[2 * j - 1]) = Numeral(keys[j])
                           /\ items[2 * j] = values[j]
  PROVE  MapOf(put(items), m, keys, values)
<1> DEFINE odd == {i \in DOMAIN items : i % 2 = 1}
           Named(key) == {i \in odd : keyToString(items[i]) = key}
           names == {keyToString(items[i]) : i \in odd}
           map == put(items)
<1>1. map = [key \in names |-> items[Max(Named(key)) + 1]]
  BY DEF put
<1>2. \A i : i \in odd <=> \E j \in 1 .. m : i = 2 * j - 1
  <2>1. ASSUME NEW j \in 1 .. m PROVE 2 * j - 1 \in odd
    OBVIOUS
  <2>2. ASSUME NEW i \in odd PROVE \E j \in 1 .. m : i = 2 * j - 1
    <3>1. i \in 1 .. 2 * m /\ i % 2 = 1
      OBVIOUS
    <3> DEFINE j == (i + 1) \div 2
    <3>2. i \in Int /\ 1 <= i /\ i <= 2 * m
      BY <3>1
    <3>3. j \in Int /\ i = 2 * j - 1
      BY <3>1, <3>2
    <3> HIDE DEF j
    <3>4. j \in 1 .. m
      BY <3>2, <3>3
    <3> QED BY <3>3, <3>4
  <2> QED BY <2>1, <2>2
<1>3. odd \subseteq Int
  BY <1>2
<1> HIDE DEF map
<1>4. ASSUME NEW key \in Nat
      PROVE  /\ (\A j \in 1 .. m : keys[j] # key) => atKey(map, key) = undefined
             /\ \A j \in 1 .. m : keys[j] = key /\ (\A i \in j + 1 .. m : keys[i] # key) =>
                  atKey(map, key) = values[j]
  <2>1. \A j \in 1 .. m : 2 * j - 1 \in Named(Numeral(key)) <=> keys[j] = key
    <3> TAKE j \in 1 .. m
    <3>1. 2 * j - 1 \in odd
      BY <1>2
    <3>2. keyToString(items[2 * j - 1]) = Numeral(keys[j])
      OBVIOUS
    <3> HIDE DEF odd
    <3> QED BY <3>1, <3>2, NumeralFacts
  <2>2. DOMAIN map = names
    BY <1>1
  <2>3. ASSUME \A j \in 1 .. m : keys[j] # key PROVE atKey(map, key) = undefined
    <3>1. Named(Numeral(key)) = {}
      <4> HIDE DEF odd
      <4> QED BY <1>2, <2>1, <2>3
    <3>2. Numeral(key) \notin names
      <4> HIDE DEF odd
      <4> QED BY <3>1
    <3> QED BY <2>2, <3>2 DEF atKey
  <2>4. ASSUME NEW j \in 1 .. m, keys[j] = key, \A i \in j + 1 .. m : keys[i] # key
        PROVE  atKey(map, key) = values[j]
    <3> DEFINE T == Named(Numeral(key))
               last == 2 * j - 1
    <3>1. last \in T
      BY <2>1, <2>4
    <3>2. \A i \in T : i <= last
      <4> TAKE i \in T
      <4>1. i \in odd
        OBVIOUS
      <4>2. PICK k \in 1 .. m : i = 2 * k - 1
        BY <1>2, <4>1
      <4>3. keys[k] = key
        BY <2>1, <4>2
      <4>4. k <= j
        BY <2>4, <4>3
      <4> QED BY <4>2, <4>4
    <3>3. Numeral(key) \in names
      <4> HIDE DEF odd
      <4> QED BY <3>1
    <3>4. last \in Int /\ last + 1 = 2 * j
      OBVIOUS
    <3>5. T \subseteq Int
      BY <1>3
    <3> HIDE DEF T, last, odd
    <3>6. Max(T) = last
      BY <3>1, <3>2, <3>4, <3>5, MaxIsLast
    <3>7. map[Numeral(key)] = items[Max(T) + 1]
      BY <1>1, <3>3 DEF T
    <3>8. map[Numeral(key)] = items[2 * j]
      BY <3>4, <3>6, <3>7
    <3> QED BY <2>2, <3>3, <3>8 DEF atKey
  <2> QED BY <2>3, <2>4
<1> QED BY <1>4 DEF MapOf, map

\* The words of a map: so many keys, each before its value.
MapWords(m, seqs, keys, flags, values, depth) ==
  /\ m \in Nat /\ seqs \in Seq(Seq(Heads)) /\ Len(seqs) = 2 * m
  /\ \A j \in 1 .. m :
       /\ keys[j] \in Nat /\ flags[j] \in BOOLEAN
       /\ seqs[2 * j - 1] = Key(keys[j], flags[j])
       /\ IsWord(seqs[2 * j])
       /\ IsRead(seqs[2 * j], depth, values[j]) \/ IsNoItem(seqs[2 * j], depth)

\* What is read as each of the words of a map.
WordValue(keys, flags, values, i) ==
  IF i % 2 = 1 THEN KeyValue(keys[(i + 1) \div 2], flags[(i + 1) \div 2]) ELSE values[i \div 2]

\* A place in a map is a key's or a value's.
LEMMA PlaceInMap ==
  ASSUME NEW m \in Nat, NEW i \in 1 .. 2 * m
  PROVE  \E j \in 1 .. m : \/ i = 2 * j - 1 /\ i % 2 = 1 /\ (i + 1) \div 2 = j
                           \/ i = 2 * j /\ i % 2 # 1 /\ i \div 2 = j
<1>1. i \in Int /\ 1 <= i /\ i <= 2 * m
  OBVIOUS
<1>2. CASE i % 2 = 1
  <2> DEFINE j == (i + 1) \div 2
  <2>1. j \in Int /\ i = 2 * j - 1
    BY <1>1, <1>2
  <2>2. j = (i + 1) \div 2
    OBVIOUS
  <2> HIDE DEF j
  <2>3. j \in 1 .. m
    BY <1>1, <2>1
  <2> QED BY <1>2, <2>1, <2>2, <2>3
<1>3. CASE i % 2 # 1
  <2> DEFINE j == i \div 2
  <2>1. j \in Int /\ i = 2 * j
    BY <1>1, <1>3
  <2>2. j = i \div 2
    OBVIOUS
  <2> HIDE DEF j
  <2>3. j \in 1 .. m
    BY <1>1, <2>1
  <2> QED BY <1>3, <2>1, <2>2, <2>3
<1> QED BY <1>2, <1>3

\* Each of the words of a map is read as it says, or it is a value that is nowhere read.
LEMMA MapWordsRead ==
  ASSUME NEW m, NEW seqs, NEW keys, NEW flags, NEW values, NEW depth \in Nat, depth <= MaxDepth,
         MapWords(m, seqs, keys, flags, values, depth), NEW i \in 1 .. 2 * m
  PROVE  /\ IsWord(seqs[i])
         /\ \/ IsRead(seqs[i], depth, WordValue(keys, flags, values, i))
            \/ IsNoItem(seqs[i], depth)
         /\ \A j \in 1 .. m : i = 2 * j /\ IsRead(seqs[i], depth, values[j]) =>
                                IsRead(seqs[i], depth, WordValue(keys, flags, values, i))
         /\ i % 2 = 1 => IsRead(seqs[i], depth, WordValue(keys, flags, values, i))
<1>1. PICK j \in 1 .. m : \/ i = 2 * j - 1 /\ i % 2 = 1 /\ (i + 1) \div 2 = j
                          \/ i = 2 * j /\ i % 2 # 1 /\ i \div 2 = j
  BY PlaceInMap DEF MapWords
<1>2. CASE i = 2 * j - 1 /\ i % 2 = 1 /\ (i + 1) \div 2 = j
  <2>1. WordValue(keys, flags, values, i) = KeyValue(keys[j], flags[j])
    BY <1>2 DEF WordValue
  <2>2. keys[j] \in Nat /\ flags[j] \in BOOLEAN /\ seqs[i] = Key(keys[j], flags[j])
    BY <1>2 DEF MapWords
  <2>3. IsWord(seqs[i]) /\ IsRead(seqs[i], depth, KeyValue(keys[j], flags[j]))
    BY <2>2, KeyIsRead
  <2> HIDE DEF IsWord
  <2> QED BY <2>1, <2>3
<1>3. CASE i = 2 * j /\ i % 2 # 1 /\ i \div 2 = j
  <2>1. WordValue(keys, flags, values, i) = values[j]
    BY <1>3 DEF WordValue
  <2>2. IsWord(seqs[i]) /\ (IsRead(seqs[i], depth, values[j]) \/ IsNoItem(seqs[i], depth))
    BY <1>3 DEF MapWords
  <2>3. \A k \in 1 .. m : i = 2 * k => k = j
    BY <1>3 DEF MapWords
  <2> QED BY <1>3, <2>1, <2>2, <2>3
<1> QED BY <1>1, <1>2, <1>3

\* A map is read with the last value of each key, and only if all its values are read.
LEMMA MapIsRead ==
  ASSUME NEW m, NEW seqs, NEW keys, NEW flags, NEW values, NEW depth \in Nat, depth + 1 <= MaxDepth,
         MapWords(m, seqs, keys, flags, values, depth + 1), NEW indefinite \in BOOLEAN
  PROVE  LET w == Container(5, seqs, indefinite)
         IN  /\ IsWord(w)
             /\ (\E j \in 1 .. m : IsNoItem(seqs[2 * j], depth + 1)) => IsNoItem(w, depth)
             /\ (\A j \in 1 .. m : IsRead(seqs[2 * j], depth + 1, values[j])) =>
                  \E map : IsRead(w, depth, <<"map", map>>) /\ MapOf(map, m, keys, values)
<1> DEFINE w == Container(5, seqs, indefinite)
           vals == [i \in 1 .. 2 * m |-> WordValue(keys, flags, values, i)]
           d == depth + 1
<1>1. MaxDepth \in Nat
  BY GalleryAssumption
<1>2. d \in Nat /\ d <= MaxDepth /\ depth <= MaxDepth
  BY <1>1
<1>3. m \in Nat /\ seqs \in Seq(Seq(Heads)) /\ Len(seqs) = 2 * m /\ 5 \in {4, 5}
  BY DEF MapWords
<1>4. \A i \in 1 .. 2 * m : vals[i] = WordValue(keys, flags, values, i)
  OBVIOUS
<1>5. MapWords(m, seqs, keys, flags, values, d)
  OBVIOUS
<1> HIDE DEF w, vals, d
<1>6. \A i \in 1 .. Len(seqs) : IsWord(seqs[i])
  <2> TAKE i \in 1 .. Len(seqs)
  <2>1. i \in 1 .. 2 * m
    BY <1>3
  <2> QED BY <1>2, <1>5, <2>1, MapWordsRead
<1>7. \A i \in 1 .. Len(seqs) : IsRead(seqs[i], d, vals[i]) \/ IsNoItem(seqs[i], d)
  <2> TAKE i \in 1 .. Len(seqs)
  <2>1. i \in 1 .. 2 * m
    BY <1>3
  <2>2. IsRead(seqs[i], d, WordValue(keys, flags, values, i)) \/ IsNoItem(seqs[i], d)
    BY <1>2, <1>5, <2>1, MapWordsRead
  <2> QED BY <1>4, <2>1, <2>2
<1>8. ~ indefinite => Len(seqs) % (5 - 3) = 0
  BY <1>3
<1>9. Len(seqs) % (5 - 3) = 0
  BY <1>3
<1>10. /\ IsWord(w)
       /\ (\E i \in 1 .. Len(seqs) : IsNoItem(seqs[i], d)) => IsNoItem(w, depth)
       /\ (\A i \in 1 .. Len(seqs) : IsRead(seqs[i], d, vals[i])) /\ Len(seqs) % (5 - 3) = 0 =>
            IsRead(w, depth, Contents(5, [k \in 1 .. Len(seqs) |-> vals[k]]))
  BY <1>2, <1>3, <1>6, <1>7, <1>8, ContainerIsRead DEF w, d
<1>11. (\E j \in 1 .. m : IsNoItem(seqs[2 * j], d)) => IsNoItem(w, depth)
  <2> SUFFICES ASSUME NEW j \in 1 .. m, IsNoItem(seqs[2 * j], d) PROVE IsNoItem(w, depth)
    OBVIOUS
  <2>1. 2 * j \in 1 .. Len(seqs)
    BY <1>3
  <2> QED BY <1>10, <2>1
<1>12. ASSUME \A j \in 1 .. m : IsRead(seqs[2 * j], d, values[j])
       PROVE  \E map : IsRead(w, depth, <<"map", map>>) /\ MapOf(map, m, keys, values)
  <2> DEFINE items == [k \in 1 .. Len(seqs) |-> vals[k]]
  <2>1. \A i \in 1 .. Len(seqs) : IsRead(seqs[i], d, vals[i])
    <3> TAKE i \in 1 .. Len(seqs)
    <3>1. i \in 1 .. 2 * m
      BY <1>3
    <3>2. PICK j \in 1 .. m : (i = 2 * j - 1 /\ i % 2 = 1) \/ (i = 2 * j /\ i % 2 # 1)
      BY <1>3, <3>1, PlaceInMap
    <3>3. CASE i % 2 = 1
      <4>1. IsRead(seqs[i], d, WordValue(keys, flags, values, i))
        BY <1>2, <1>5, <3>1, <3>3, MapWordsRead
      <4> QED BY <1>4, <3>1, <4>1
    <3>4. CASE i = 2 * j
      <4>1. IsRead(seqs[i], d, values[j])
        BY <1>12, <3>4
      <4>2. IsRead(seqs[i], d, WordValue(keys, flags, values, i))
        BY <1>2, <1>5, <3>1, <3>4, <4>1, MapWordsRead
      <4> QED BY <1>4, <3>1, <4>2
    <3> QED BY <3>2, <3>3, <3>4
  <2>2. IsRead(w, depth, Contents(5, items))
    BY <1>9, <1>10, <2>1
  <2>3. Contents(5, items) = <<"map", put(items)>>
    BY DEF Contents
  <2>4. DOMAIN items = 1 .. 2 * m /\ \A i \in 1 .. 2 * m : items[i] = vals[i]
    BY <1>3
  <2> HIDE DEF items
  <2>5. \A j \in 1 .. m : /\ keyToString(items[2 * j - 1]) = Numeral(keys[j])
                          /\ items[2 * j] = values[j]
    <3> TAKE j \in 1 .. m
    <3>1. /\ 2 * j - 1 \in 1 .. 2 * m /\ (2 * j - 1) % 2 = 1 /\ ((2 * j - 1) + 1) \div 2 = j
          /\ 2 * j \in 1 .. 2 * m /\ (2 * j) % 2 # 1 /\ (2 * j) \div 2 = j
      BY <1>3
    <3>2. keys[j] \in Nat /\ flags[j] \in BOOLEAN
      BY <1>5 DEF MapWords
    <3>3. items[2 * j - 1] = KeyValue(keys[j], flags[j])
      BY <1>4, <2>4, <3>1 DEF WordValue
    <3>4. items[2 * j] = values[j]
      BY <1>4, <2>4, <3>1 DEF WordValue
    <3>5. keyToString(KeyValue(keys[j], flags[j])) = Numeral(keys[j])
      BY <1>2, <3>2, KeyIsRead
    <3> QED BY <3>3, <3>4, <3>5
  <2>6. MapOf(put(items), m, keys, values)
    BY <1>3, <2>4, <2>5, PutIsMap
  <2> QED BY <2>2, <2>3, <2>6
<1> QED BY <1>10, <1>11, <1>12 DEF w, d

\* A map whose last key has no value is not read.
LEMMA HalfMapIsNoItem ==
  ASSUME NEW m, NEW seqs, NEW keys, NEW flags, NEW values, NEW depth \in Nat, depth + 1 <= MaxDepth,
         MapWords(m, seqs, keys, flags, values, depth + 1), NEW key \in Nat, NEW flag \in BOOLEAN
  PROVE  IsNoItem(Container(5, Append(seqs, Key(key, flag)), TRUE), depth)
<1> DEFINE k == Key(key, flag)
           more == Append(seqs, k)
           vals == [i \in 1 .. 2 * m + 1 |-> IF i = 2 * m + 1 THEN KeyValue(key, flag)
                                             ELSE WordValue(keys, flags, values, i)]
           d == depth + 1
<1>1. MaxDepth \in Nat
  BY GalleryAssumption
<1>2. d \in Nat /\ d <= MaxDepth /\ depth <= MaxDepth
  BY <1>1
<1>3. m \in Nat /\ seqs \in Seq(Seq(Heads)) /\ Len(seqs) = 2 * m
  BY DEF MapWords
<1>4. MapWords(m, seqs, keys, flags, values, d)
  OBVIOUS
<1>5. /\ \A i \in 1 .. 2 * m : vals[i] = WordValue(keys, flags, values, i)
      /\ vals[2 * m + 1] = KeyValue(key, flag)
  BY <1>3
<1> HIDE DEF vals, d
<1>6. IsWord(k) /\ IsRead(k, d, KeyValue(key, flag)) /\ k \in Seq(Heads)
  BY <1>2, KeyIsRead DEF IsWord
<1> HIDE DEF k
<1>7. /\ more \in Seq(Seq(Heads)) /\ Len(more) = 2 * m + 1 /\ more[2 * m + 1] = k
      /\ \A i \in 1 .. 2 * m : more[i] = seqs[i]
  BY <1>3, <1>6, AppendProperties
<1> HIDE DEF more
<1>8. \A i \in 1 .. 2 * m + 1 : /\ IsWord(more[i])
                                /\ IsRead(more[i], d, vals[i]) \/ IsNoItem(more[i], d)
  <2> TAKE i \in 1 .. 2 * m + 1
  <2>1. CASE i = 2 * m + 1
    BY <1>5, <1>6, <1>7, <2>1
  <2>2. CASE i # 2 * m + 1
    <3>1. i \in 1 .. 2 * m
      BY <1>3, <2>2
    <3>2. /\ IsWord(seqs[i])
          /\ IsRead(seqs[i], d, WordValue(keys, flags, values, i)) \/ IsNoItem(seqs[i], d)
      BY <1>2, <1>4, <3>1, MapWordsRead
    <3> QED BY <1>5, <1>7, <3>1, <3>2
  <2> QED BY <2>1, <2>2
<1>9. Len(more) % (5 - 3) # 0
  BY <1>3, <1>7
<1>10. \A i \in 1 .. Len(more) : IsWord(more[i])
  BY <1>7, <1>8
<1>11. \A i \in 1 .. Len(more) : IsRead(more[i], d, vals[i]) \/ IsNoItem(more[i], d)
  BY <1>7, <1>8
<1>12. IsNoItem(Container(5, more, TRUE), depth)
  BY <1>2, <1>7, <1>9, <1>10, <1>11, ContainerIsRead DEF d
<1> QED BY <1>12 DEF more, k

\* decodeCbor takes the first item, if nothing stands behind it.
LEMMA DecodeFacts ==
  ASSUME NEW r \in Seq(Heads)
  PROVE  /\ ItemAt(r, 1, 0) = Undecodable => decodeCbor(r) = Undecodable
         /\ \A value, next : ItemAt(r, 1, 0) = Decoded(value, next) =>
              decodeCbor(r) = IF next = Len(r) + 1 THEN <<value>> ELSE Undecodable
<1> DEFINE item == ItemAt(r, 1, 0)
<1>1. decodeCbor(r) = IF item = Undecodable THEN Undecodable
                      ELSE IF item[1].at # Len(r) + 1 THEN Undecodable ELSE <<item[1].value>>
  BY DEF decodeCbor, ItemAt
<1> HIDE DEF item
<1>2. ASSUME NEW value, NEW next, item = Decoded(value, next)
      PROVE  decodeCbor(r) = IF next = Len(r) + 1 THEN <<value>> ELSE Undecodable
  BY <1>1, <1>2, DecodedIsSome
<1> QED BY <1>1, <1>2 DEF item

\* A field is decoded as its item, and nothing less than the whole field, nor more.
LEMMA FieldIsRead ==
  ASSUME NEW w, IsWord(w), NEW value, IsRead(w, 0, value) \/ IsNoItem(w, 0)
  PROVE  /\ IsRead(w, 0, value) => decodeCbor(w) = <<value>>
         /\ IsNoItem(w, 0) => decodeCbor(w) = Undecodable
         /\ \A cut \in 0 .. Len(w) - 1 : decodeCbor(SubSeq(w, 1, cut)) = Undecodable
         /\ \A t \in Heads : decodeCbor(Append(w, t)) = Undecodable
<1>1. w \in Seq(Heads) /\ Len(w) \in Nat
  BY LenProperties DEF IsWord
<1> HIDE DEF IsWord
<1>2. ASSUME NEW r \in Seq(Heads), Begins(r, 1, w), Len(r) \in Nat
      PROVE  /\ IsNoItem(w, 0) => decodeCbor(r) = Undecodable
             /\ IsRead(w, 0, value) =>
                  decodeCbor(r) = IF Len(w) = Len(r) THEN <<value>> ELSE Undecodable
  <2>1. 1 \in 1 .. Len(r) + 1
    BY <1>2
  <2>2. IsNoItem(w, 0) => ItemAt(r, 1, 0) = Undecodable
    BY <1>2, <2>1 DEF IsNoItem
  <2>3. IsRead(w, 0, value) =>
          ItemAt(r, 1, 0) = IF 1 + Len(w) - 1 <= Len(r) THEN Decoded(value, 1 + Len(w))
                            ELSE Undecodable
    BY <1>2, <2>1 DEF IsRead
  <2>4. CASE IsNoItem(w, 0) /\ ~ IsRead(w, 0, value)
    BY <2>2, <2>4, DecodeFacts
  <2>5. CASE IsRead(w, 0, value) /\ Len(w) <= Len(r)
    <3>1. 1 + Len(w) - 1 <= Len(r)
      BY <1>1, <1>2, <2>5
    <3>2. ItemAt(r, 1, 0) = Decoded(value, 1 + Len(w))
      BY <2>3, <2>5, <3>1
    <3>3. decodeCbor(r) = IF 1 + Len(w) = Len(r) + 1 THEN <<value>> ELSE Undecodable
      BY <3>2, DecodeFacts
    <3>4. ~ IsNoItem(w, 0)
      BY <2>2, <3>2, DecodedIsSome
    <3>5. 1 + Len(w) = Len(r) + 1 <=> Len(w) = Len(r)
      BY <1>1, <1>2
    <3> QED BY <3>3, <3>4, <3>5
  <2>6. CASE IsRead(w, 0, value) /\ ~ (Len(w) <= Len(r))
    <3>1. ~ (1 + Len(w) - 1 <= Len(r)) /\ Len(w) # Len(r)
      BY <1>1, <1>2, <2>6
    <3>2. ItemAt(r, 1, 0) = Undecodable
      BY <2>3, <2>6, <3>1
    <3> QED BY <3>1, <3>2, DecodeFacts
  <2> QED BY <2>4, <2>5, <2>6
<1>3. ASSUME NEW cut \in 0 .. Len(w) - 1
      PROVE  decodeCbor(SubSeq(w, 1, cut)) = Undecodable
  <2> DEFINE r == SubSeq(w, 1, cut)
  <2>1. /\ 1 \in 1 .. Len(w) + 1 /\ cut \in 1 - 1 .. Len(w)
    BY <1>1
  <2>2. /\ r \in Seq(Heads) /\ Len(r) = IF 1 <= cut THEN cut - 1 + 1 ELSE 0
        /\ \A i \in 1 .. cut - 1 + 1 : r[i] = w[1 + i - 1]
    BY <1>1, <2>1, SubSeqProperties
  <2> HIDE DEF r
  <2>3. Len(r) = cut /\ \A i \in 1 .. cut : r[i] = w[i]
    BY <2>2
  <2>4. Begins(r, 1, w)
    BY <1>1, <2>3 DEF Begins
  <2>5. Len(w) # Len(r) /\ Len(r) \in Nat
    BY <1>1, <2>3
  <2> QED BY <1>2, <2>2, <2>4, <2>5 DEF r
<1>4. ASSUME NEW t \in Heads
      PROVE  decodeCbor(Append(w, t)) = Undecodable
  <2> DEFINE r == Append(w, t)
  <2>1. r \in Seq(Heads) /\ Len(r) = Len(w) + 1 /\ \A i \in 1 .. Len(w) : r[i] = w[i]
    BY <1>1, AppendProperties
  <2> HIDE DEF r
  <2>2. Begins(r, 1, w)
    BY <1>1, <2>1 DEF Begins
  <2>3. Len(w) # Len(r) /\ Len(r) \in Nat
    BY <1>1, <2>1
  <2> QED BY <1>2, <2>1, <2>2, <2>3 DEF r
<1>5. IsNoItem(w, 0) => decodeCbor(w) = Undecodable
  <2>1. Begins(w, 1, w)
    BY <1>1 DEF Begins
  <2> QED BY <1>1, <1>2, <2>1
<1>6. IsRead(w, 0, value) => decodeCbor(w) = <<value>>
  <2>1. Begins(w, 1, w)
    BY <1>1 DEF Begins
  <2> QED BY <1>1, <1>2, <2>1
<1> QED BY <1>3, <1>4, <1>5, <1>6

\* One more sequence is joined to the others.
LEMMA FlattenAppend ==
  ASSUME NEW X, NEW seqs \in Seq(Seq(X)), NEW s \in Seq(X)
  PROVE  FlattenSeq(Append(seqs, s)) = FlattenSeq(seqs) \o s
<1> DEFINE more == Append(seqs, s)
           N == Len(seqs)
           flat == FlattenSeq(seqs)
           long == FlattenSeq(more)
<1>1. /\ N \in Nat /\ more \in Seq(Seq(X)) /\ Len(more) = N + 1 /\ more[N + 1] = s
      /\ \A i \in 1 .. N : more[i] = seqs[i]
  BY LenProperties, AppendProperties
<1>2. flat \in Seq(X) /\ \E p : PlacesOf(p, seqs)
  BY FlattenPlaces
<1>3. long \in Seq(X) /\ \E q : PlacesOf(q, more)
  <2> HIDE DEF more
  <2> QED BY <1>1, FlattenPlaces
<1>4. PICK p : PlacesOf(p, seqs)
  BY <1>2
<1>5. PICK q : PlacesOf(q, more)
  BY <1>3
<1> HIDE DEF more
<1>6. /\ p \in [0 .. N -> Nat] /\ p[0] = 0 /\ Len(flat) = p[N]
      /\ \A j \in 1 .. N : /\ p[j] = p[j - 1] + Len(seqs[j])
                           /\ \A k \in 1 .. Len(seqs[j]) : flat[p[j - 1] + k] = seqs[j][k]
  BY <1>4 DEF PlacesOf
<1>7. /\ q \in [0 .. N + 1 -> Nat] /\ q[0] = 0 /\ Len(long) = q[N + 1]
      /\ \A j \in 1 .. N + 1 : /\ q[j] = q[j - 1] + Len(more[j])
                               /\ \A k \in 1 .. Len(more[j]) : long[q[j - 1] + k] = more[j][k]
  BY <1>1, <1>5 DEF PlacesOf
<1> HIDE DEF flat, long, N
<1> DEFINE S == {k \in Nat : k <= N => q[k] = p[k] /\ \A i \in 1 .. p[k] : long[i] = flat[i]}
<1>8. 0 \in S
  BY <1>6, <1>7
<1>9. ASSUME NEW k \in Nat, k \in S PROVE k + 1 \in S
  <2> SUFFICES ASSUME k + 1 <= N
               PROVE  q[k + 1] = p[k + 1] /\ \A i \in 1 .. p[k + 1] : long[i] = flat[i]
    OBVIOUS
  <2>1. q[k] = p[k] /\ (\A i \in 1 .. p[k] : long[i] = flat[i]) /\ k + 1 - 1 = k
    BY <1>1, <1>9
  <2>2. k + 1 \in 1 .. N /\ k + 1 \in 1 .. N + 1 /\ k \in 0 .. N /\ k + 1 \in 0 .. N
    BY <1>1
  <2> DEFINE t == seqs[k + 1]
             a == p[k]
             b == p[k + 1]
  <2>3. more[k + 1] = t
    BY <1>1, <2>2
  <2>4. b = a + Len(t) /\ \A i \in 1 .. Len(t) : flat[a + i] = t[i]
    BY <1>6, <2>1, <2>2
  <2>5. q[k + 1] = a + Len(t) /\ \A i \in 1 .. Len(t) : long[a + i] = t[i]
    BY <1>7, <2>1, <2>2, <2>3
  <2>6. a \in Nat /\ b \in Nat
    BY <1>6, <2>2
  <2>7. Len(t) \in Nat
    <3>1. t \in Seq(X)
      BY <2>2, ElementOfSeq DEF N
    <3> QED BY <3>1, LenProperties
  <2>8. \A i \in 1 .. a : long[i] = flat[i]
    BY <2>1
  <2> HIDE DEF t, a, b
  <2> DEFINE l == Len(t)
  <2> HIDE DEF l
  <2>9. \A i \in 1 .. b : long[i] = flat[i]
    <3> TAKE i \in 1 .. b
    <3>1. CASE i <= a
      BY <2>6, <2>8, <3>1
    <3>2. CASE i > a
      <4> DEFINE j == i - a
      <4>1. j \in 1 .. l /\ a + j = i
        BY <2>4, <2>6, <2>7, <3>2 DEF l
      <4> HIDE DEF j
      <4>2. long[a + j] = flat[a + j]
        BY <2>4, <2>5, <4>1 DEF l
      <4> QED BY <4>1, <4>2
    <3> QED BY <2>6, <3>1, <3>2
  <2>10. q[k + 1] = b
    BY <2>4, <2>5
  <2> QED BY <2>9, <2>10 DEF b
<1>10. q[N] = p[N] /\ \A i \in 1 .. p[N] : long[i] = flat[i]
  <2>1. N \in S
    <3> HIDE DEF S
    <3> QED BY <1>1, <1>8, <1>9, InductionBySet
  <2> QED BY <1>1, <2>1
<1> DEFINE f == Len(flat)
           l == Len(s)
           c == flat \o s
<1>11. f \in Nat /\ l \in Nat
  BY <1>2, LenProperties
<1>12. /\ c \in Seq(X) /\ Len(c) = f + l
       /\ \A i \in 1 .. f : c[i] = flat[i]
       /\ \A i \in 1 .. l : c[f + i] = s[i]
  BY <1>2, ConcatPlaces
<1>13. q[N] = f /\ \A i \in 1 .. f : long[i] = flat[i]
  BY <1>6, <1>10
<1>14. Len(long) = f + l /\ \A i \in 1 .. l : long[f + i] = s[i]
  <2> DEFINE j == N + 1
  <2>1. j \in 1 .. N + 1 /\ j - 1 = N
    BY <1>1
  <2>2. more[j] = s /\ Len(long) = q[j]
    BY <1>1, <1>7
  <2> HIDE DEF j, f
  <2>3. q[j] = q[j - 1] + Len(more[j]) /\ \A k \in 1 .. Len(more[j]) : long[q[j - 1] + k] = more[j][k]
    BY <1>7, <2>1
  <2>4. q[j] = f + Len(s) /\ \A k \in 1 .. Len(s) : long[f + k] = s[k]
    BY <1>13, <2>1, <2>2, <2>3
  <2> QED BY <2>2, <2>4
<1> HIDE DEF f, l, c
<1>15. \A i \in 1 .. f + l : long[i] = c[i]
  <2> TAKE i \in 1 .. f + l
  <2>1. CASE i <= f
    BY <1>11, <1>12, <1>13, <2>1
  <2>2. CASE i > f
    <3> DEFINE j == i - f
    <3>1. j \in 1 .. l /\ f + j = i
      BY <1>11, <2>2
    <3> HIDE DEF j
    <3>2. long[f + j] = c[f + j]
      BY <1>12, <1>14, <3>1
    <3> QED BY <3>1, <3>2
  <2> QED BY <1>11, <2>1, <2>2
<1>16. long = c
  BY <1>3, <1>12, <1>14, <1>15, SeqEqual
<1> QED BY <1>16 DEF long, c, flat, more

(* ------------------------- numbers and their digits -------------------- *)

Octets == 0 .. ByteValues - 1

\* The digit at a place, which is zero behind the last.
Digit(s, i) == IF i <= Len(s) THEN s[i] ELSE 0

\* The number that the digits from a place on spell.
Spelling(g, s) ==
  /\ g \in [Nat -> Nat]
  /\ \A i \in Nat \ {0} : g[i] = Digit(s, i) + ByteValues * g[i + 1]
  /\ \A i \in Nat : i > Len(s) => g[i] = 0

\* The equation of LittleEndian has a solution.
LEMMA NumbersExist ==
  ASSUME NEW s, Len(s) \in Nat
  PROVE  \E f : f = [i \in 1 .. Len(s) + 1 |->
                       IF i > Len(s) THEN 0 ELSE s[i] + ByteValues * f[i + 1]]
<1> DEFINE N == Len(s)
           Step(f, i) == IF i > N THEN 0 ELSE s[i] + ByteValues * f[i + 1]
           Upto(f, k) == \A i \in 1 .. N + 1 : i > N + 1 - k => f[i] = Step(f, i)
           S == {k \in Nat : \E f : Upto(f, k)}
<1>1. 0 \in S
  <2>1. \A i \in 1 .. N + 1 : ~ (i > N + 1 - 0)
    OBVIOUS
  <2>2. Upto(<<>>, 0)
    <3> HIDE DEF N, Step
    <3> QED BY <2>1
  <2> HIDE DEF Upto, N
  <2> QED BY <2>2
<1>2. ASSUME NEW k \in Nat, k \in S PROVE k + 1 \in S
  <2>1. PICK g : Upto(g, k)
    <3> HIDE DEF Upto, N
    <3> QED BY <1>2
  <2> DEFINE j == N + 1 - k
             f == [i \in 1 .. N + 1 |-> IF i = j THEN Step(g, j) ELSE g[i]]
  <2>2. \A i \in 1 .. N + 1 : f[i] = IF i = j THEN Step(g, j) ELSE g[i]
    <3> HIDE DEF N, Step, j
    <3> QED OBVIOUS
  <2> HIDE DEF f
  <2>3. ASSUME NEW i \in 1 .. N + 1, i > N + 1 - (k + 1) PROVE f[i] = Step(f, i)
    <3>1. Step(f, i) = Step(g, i)
      <4>1. CASE i > N
        BY <4>1
      <4>2. CASE ~ (i > N)
        <5>1. i + 1 \in 1 .. N + 1 /\ i + 1 # j
          BY <2>3, <4>2
        <5>2. f[i + 1] = g[i + 1]
          <6> HIDE DEF N, Step, j
          <6> QED BY <2>2, <5>1
        <5> QED BY <5>2
      <4> QED BY <4>1, <4>2
    <3>2. CASE i = j
      <4> HIDE DEF N, Step
      <4> QED BY <2>2, <3>1, <3>2
    <3>3. CASE i # j
      <4>1. i > N + 1 - k
        BY <2>3, <3>3
      <4> HIDE DEF N, Step, j
      <4> QED BY <2>1, <2>2, <3>1, <3>3, <4>1
    <3> QED BY <3>2, <3>3
  <2>4. Upto(f, k + 1)
    <3> HIDE DEF N, Step
    <3> QED BY <2>3
  <2> HIDE DEF Upto
  <2> QED BY <2>4
<1>3. N + 1 \in S
  <2>1. N + 1 \in Nat
    OBVIOUS
  <2> HIDE DEF S, N
  <2> QED BY <1>1, <1>2, <2>1, InductionBySet
<1>4. PICK g : Upto(g, N + 1)
  <2> HIDE DEF Upto, N
  <2> QED BY <1>3
<1> DEFINE f == [i \in 1 .. N + 1 |-> g[i]]
<1>5. \A i \in 1 .. N + 1 : f[i] = g[i]
  OBVIOUS
<1>6. f = [i \in 1 .. N + 1 |-> f[i]]
  OBVIOUS
<1> HIDE DEF f
<1>7. ASSUME NEW i \in 1 .. N + 1 PROVE f[i] = Step(f, i)
  <2>1. g[i] = Step(g, i) /\ f[i] = g[i]
    BY <1>4, <1>5
  <2>2. CASE i > N
    BY <2>1, <2>2
  <2>3. CASE ~ (i > N)
    <3>1. i + 1 \in 1 .. N + 1
      BY <2>3
    <3>2. f[i + 1] = g[i + 1]
      BY <1>5, <3>1
    <3> QED BY <2>1, <2>3, <3>2
  <2> QED BY <2>2, <2>3
<1>8. f = [i \in 1 .. N + 1 |-> Step(f, i)]
  <2> HIDE DEF Step, N
  <2> QED BY <1>6, <1>7
<1> QED BY <1>8

\* A digit is a byte.
LEMMA DigitTyped ==
  ASSUME NEW s \in Seq(Octets), NEW i \in Nat \ {0}
  PROVE  Digit(s, i) \in Octets
<1>1. Len(s) \in Nat /\ ByteValues \in Nat \ {0}
  BY LenProperties, GalleryAssumption
<1>2. CASE i <= Len(s)
  <2>1. i \in 1 .. Len(s)
    BY <1>1, <1>2
  <2> QED BY <1>2, <2>1, ElementOfSeq DEF Digit
<1>3. CASE ~ (i <= Len(s))
  BY <1>1, <1>3 DEF Digit, Octets
<1> QED BY <1>2, <1>3

\* The digits of a number spell it from the first on.
LEMMA SpellingExists ==
  ASSUME NEW s \in Seq(Octets)
  PROVE  \E g : Spelling(g, s) /\ LittleEndian(s) = g[1]
<1> DEFINE N == Len(s)
           Is(f) == f = [i \in 1 .. Len(s) + 1 |->
                           IF i > Len(s) THEN 0 ELSE s[i] + ByteValues * f[i + 1]]
           f == CHOOSE h : Is(h)
<1>1. N \in Nat /\ ByteValues \in Nat /\ Octets \subseteq Nat
  BY LenProperties, GalleryAssumption DEF Octets
<1>2. Is(f)
  <2>1. \E h : Is(h)
    BY <1>1, NumbersExist
  <2> HIDE DEF Is
  <2> QED BY <2>1
<1>3. LittleEndian(s) = f[1]
  BY DEF LittleEndian
<1> HIDE DEF f
<1>4. \A i \in 1 .. N + 1 : f[i] = IF i > N THEN 0 ELSE s[i] + ByteValues * f[i + 1]
  BY <1>2
<1> HIDE DEF Is
<1> DEFINE S == {k \in Nat : k <= N => f[N + 1 - k] \in Nat}
<1>5. 0 \in S
  BY <1>1, <1>4
<1>6. ASSUME NEW k \in Nat, k \in S PROVE k + 1 \in S
  <2> SUFFICES ASSUME k + 1 <= N PROVE f[N + 1 - (k + 1)] \in Nat
    OBVIOUS
  <2> DEFINE i == N - k
  <2>1. i \in 1 .. N /\ N + 1 - (k + 1) = i /\ N + 1 - k = i + 1 /\ i \in 1 .. N + 1 /\ ~ (i > N)
    BY <1>1
  <2> HIDE DEF i
  <2>2. f[i + 1] \in Nat
    BY <1>6, <1>1, <2>1
  <2>3. s[i] \in Nat
    BY <1>1, <2>1, ElementOfSeq
  <2>4. f[i] = s[i] + ByteValues * f[i + 1]
    BY <1>4, <2>1
  <2>5. ByteValues * f[i + 1] \in Nat
    BY <1>1, <2>2
  <2> QED BY <2>1, <2>3, <2>4, <2>5
<1>7. \A i \in 1 .. N + 1 : f[i] \in Nat
  <2> TAKE i \in 1 .. N + 1
  <2>1. N + 1 - i \in S
    <3>1. N + 1 - i \in Nat
      BY <1>1
    <3> HIDE DEF S
    <3> QED BY <1>5, <1>6, <3>1, InductionBySet
  <2>2. N + 1 - (N + 1 - i) = i /\ N + 1 - i <= N
    BY <1>1
  <2> QED BY <2>1, <2>2
<1> DEFINE g == [i \in Nat |-> IF i \in 1 .. N + 1 THEN f[i] ELSE 0]
<1>8. g \in [Nat -> Nat] /\ \A i \in Nat : g[i] = IF i \in 1 .. N + 1 THEN f[i] ELSE 0
  BY <1>7
<1> HIDE DEF g
<1>9. ASSUME NEW i \in Nat \ {0} PROVE g[i] = Digit(s, i) + ByteValues * g[i + 1]
  <2>1. i \in Nat /\ i + 1 \in Nat
    OBVIOUS
  <2>2. CASE i <= N
    <3>1. i \in 1 .. N + 1 /\ i + 1 \in 1 .. N + 1 /\ ~ (i > N)
      BY <1>1, <2>2
    <3>2. g[i] = f[i] /\ g[i + 1] = f[i + 1] /\ f[i] = s[i] + ByteValues * f[i + 1]
      BY <1>4, <1>8, <2>1, <3>1
    <3> QED BY <2>2, <3>2 DEF Digit
  <2>3. CASE i > N
    <3>1. i + 1 \notin 1 .. N + 1
      BY <1>1, <2>3
    <3>2. g[i + 1] = 0
      BY <1>8, <2>1, <3>1
    <3>3. g[i] = 0
      <4>1. CASE i = N + 1
        <5>1. i \in 1 .. N + 1 /\ i > N
          BY <1>1, <4>1
        <5> QED BY <1>4, <1>8, <2>1, <5>1
      <4>2. CASE i # N + 1
        <5>1. i \notin 1 .. N + 1
          BY <1>1, <2>3, <4>2
        <5> QED BY <1>8, <2>1, <5>1
      <4> QED BY <4>1, <4>2
    <3>4. Digit(s, i) = 0
      BY <1>1, <2>3 DEF Digit
    <3>5. 0 = 0 + ByteValues * 0
      BY <1>1
    <3> QED BY <3>2, <3>3, <3>4, <3>5
  <2> QED BY <1>1, <2>2, <2>3
<1>10. ASSUME NEW i \in Nat, i > N PROVE g[i] = 0
  <2>1. CASE i = N + 1
    <3>1. i \in 1 .. N + 1 /\ i > N
      BY <1>1, <2>1
    <3> QED BY <1>4, <1>8, <3>1
  <2>2. CASE i # N + 1
    <3>1. i \notin 1 .. N + 1
      BY <1>1, <1>10, <2>2
    <3> QED BY <1>8, <3>1
  <2> QED BY <2>1, <2>2
<1>11. Spelling(g, s)
  BY <1>8, <1>9, <1>10 DEF Spelling
<1>12. g[1] = f[1]
  <2>1. 1 \in Nat /\ 1 \in 1 .. N + 1
    BY <1>1
  <2> QED BY <1>8, <2>1
<1> QED BY <1>3, <1>11, <1>12

\* Digits that are nowhere greater spell no greater number,
LEMMA LesserNumber ==
  ASSUME NEW a \in Seq(Octets), NEW b \in Seq(Octets),
         \A i \in Nat \ {0} : Digit(a, i) <= Digit(b, i)
  PROVE  LittleEndian(a) \in Nat /\ LittleEndian(b) \in Nat /\ LittleEndian(a) <= LittleEndian(b)
<1>1. PICK g : Spelling(g, a) /\ LittleEndian(a) = g[1]
  BY SpellingExists
<1>2. PICK h : Spelling(h, b) /\ LittleEndian(b) = h[1]
  BY SpellingExists
<1> DEFINE M == Len(a) + Len(b) + 1
           S == {k \in Nat : k < M => g[M - k] <= h[M - k]}
<1>3. ByteValues \in Nat /\ Len(a) \in Nat /\ Len(b) \in Nat /\ M \in Nat /\ M >= 1
  BY LenProperties, GalleryAssumption
<1>4. \A i \in Nat : g[i] \in Nat /\ h[i] \in Nat
  BY <1>1, <1>2 DEF Spelling
<1>5. \A i \in Nat \ {0} : /\ g[i] = Digit(a, i) + ByteValues * g[i + 1]
                           /\ h[i] = Digit(b, i) + ByteValues * h[i + 1]
  BY <1>1, <1>2 DEF Spelling
<1>6. g[M] = 0 /\ h[M] = 0
  <2>1. M > Len(a) /\ M > Len(b)
    BY <1>3
  <2> HIDE DEF M
  <2> QED BY <1>1, <1>2, <1>3, <2>1 DEF Spelling
<1>7. \A i \in Nat \ {0} : Digit(a, i) \in Nat /\ Digit(b, i) \in Nat
  <2>1. Octets \subseteq Nat
    BY <1>3 DEF Octets
  <2> QED BY <2>1, DigitTyped
<1> HIDE DEF M
<1>8. 0 \in S
  BY <1>3, <1>6
<1>9. ASSUME NEW k \in Nat, k \in S PROVE k + 1 \in S
  <2> SUFFICES ASSUME k + 1 < M PROVE g[M - (k + 1)] <= h[M - (k + 1)]
    OBVIOUS
  <2> DEFINE i == M - (k + 1)
  <2>1. i \in Nat \ {0} /\ i + 1 = M - k /\ k < M /\ i \in Nat /\ i + 1 \in Nat
    BY <1>3
  <2>2. g[i + 1] <= h[i + 1]
    BY <1>9, <2>1
  <2> HIDE DEF i
  <2> DEFINE x == g[i + 1]
             y == h[i + 1]
             c == Digit(a, i)
             d == Digit(b, i)
             B == ByteValues
  <2>3. /\ x \in Nat /\ y \in Nat /\ c \in Nat /\ d \in Nat /\ B \in Nat /\ x <= y /\ c <= d
        /\ g[i] = c + B * x /\ h[i] = d + B * y
    BY <1>3, <1>4, <1>5, <1>7, <2>1, <2>2
  <2> HIDE DEF x, y, c, d, B
  <2>4. B * x <= B * y /\ B * x \in Nat /\ B * y \in Nat
    <3>1. B * y = B * x + B * (y - x) /\ B * (y - x) >= 0
      BY <2>3, Z3
    <3>2. B * x \in Nat /\ B * y \in Nat
      BY <2>3
    <3>3. B * (y - x) \in Int
      BY <2>3
    <3> QED BY <3>1, <3>2, <3>3
  <2>5. g[i] <= h[i]
    BY <2>3, <2>4
  <2> QED BY <2>5 DEF i
<1>10. g[1] <= h[1]
  <2>1. M - 1 \in Nat /\ M - 1 < M /\ M - (M - 1) = 1
    BY <1>3
  <2>2. M - 1 \in S
    <3> HIDE DEF S
    <3> QED BY <1>8, <1>9, <2>1, InductionBySet
  <2> QED BY <2>1, <2>2
<1> QED BY <1>1, <1>2, <1>4, <1>10

\* so that the same digits, zeros behind them or not, spell the same number,
LEMMA SameNumber ==
  ASSUME NEW a \in Seq(Octets), NEW b \in Seq(Octets),
         \A i \in Nat \ {0} : Digit(a, i) = Digit(b, i)
  PROVE  LittleEndian(a) = LittleEndian(b)
<1>1. \A i \in Nat \ {0} : Digit(a, i) \in Int /\ Digit(b, i) \in Int
  <2>1. Octets \subseteq Int
    BY GalleryAssumption DEF Octets
  <2> QED BY <2>1, DigitTyped
<1>2. \A i \in Nat \ {0} : Digit(a, i) <= Digit(b, i) /\ Digit(b, i) <= Digit(a, i)
  BY <1>1
<1>3. LittleEndian(a) \in Nat /\ LittleEndian(b) \in Nat /\ LittleEndian(a) <= LittleEndian(b)
  BY <1>2, LesserNumber
<1>4. LittleEndian(b) <= LittleEndian(a)
  BY <1>2, LesserNumber
<1> QED BY <1>3, <1>4

\* and no other digits do.
LEMMA SameDigits ==
  ASSUME NEW a \in Seq(Octets), NEW b \in Seq(Octets), LittleEndian(a) = LittleEndian(b)
  PROVE  \A i \in Nat \ {0} : Digit(a, i) = Digit(b, i)
<1>1. PICK g : Spelling(g, a) /\ LittleEndian(a) = g[1]
  BY SpellingExists
<1>2. PICK h : Spelling(h, b) /\ LittleEndian(b) = h[1]
  BY SpellingExists
<1>3. ByteValues \in Nat \ {0}
  BY GalleryAssumption
<1>4. \A i \in Nat : g[i] \in Nat /\ h[i] \in Nat
  BY <1>1, <1>2 DEF Spelling
<1>5. \A i \in Nat \ {0} : /\ g[i] = Digit(a, i) + ByteValues * g[i + 1]
                           /\ h[i] = Digit(b, i) + ByteValues * h[i + 1]
  BY <1>1, <1>2 DEF Spelling
<1>6. ASSUME NEW i \in Nat \ {0}, g[i] = h[i]
      PROVE  Digit(a, i) = Digit(b, i) /\ g[i + 1] = h[i + 1]
  <2> DEFINE x == g[i + 1]
             y == h[i + 1]
             c == Digit(a, i)
             d == Digit(b, i)
             B == ByteValues
  <2>1. i + 1 \in Nat
    OBVIOUS
  <2>2. c \in 0 .. B - 1 /\ d \in 0 .. B - 1
    BY DigitTyped DEF Octets
  <2>3. x \in Nat /\ y \in Nat /\ B \in Nat \ {0} /\ c + B * x = d + B * y
    BY <1>3, <1>4, <1>5, <1>6, <2>1
  <2> HIDE DEF x, y, c, d, B
  <2>4. ~ (x < y)
    <3> SUFFICES ASSUME x < y PROVE FALSE
      OBVIOUS
    <3>1. B * y = B * x + B + B * (y - x - 1) /\ B * (y - x - 1) >= 0
      BY <2>3, Z3
    <3>2. B * x \in Int /\ B * y \in Int /\ B * (y - x - 1) \in Int
      BY <2>3
    <3> QED BY <2>2, <2>3, <3>1, <3>2
  <2>5. ~ (y < x)
    <3> SUFFICES ASSUME y < x PROVE FALSE
      OBVIOUS
    <3>1. B * x = B * y + B + B * (x - y - 1) /\ B * (x - y - 1) >= 0
      BY <2>3, Z3
    <3>2. B * x \in Int /\ B * y \in Int /\ B * (x - y - 1) \in Int
      BY <2>3
    <3> QED BY <2>2, <2>3, <3>1, <3>2
  <2>6. x = y
    BY <2>3, <2>4, <2>5
  <2>7. c = d
    <3>1. B * x = B * y /\ B * x \in Int
      BY <2>3, <2>6
    <3> QED BY <2>2, <2>3, <3>1
  <2> QED BY <2>6, <2>7 DEF x, y, c, d
<1> DEFINE S == {k \in Nat : g[k + 1] = h[k + 1]}
<1>7. 0 \in S
  <2>1. g[1] = h[1]
    BY <1>1, <1>2
  <2>2. 0 + 1 = 1
    OBVIOUS
  <2> QED BY <2>1, <2>2
<1>8. \A k \in Nat : k \in S => k + 1 \in S
  <2> SUFFICES ASSUME NEW k \in Nat, g[k + 1] = h[k + 1] PROVE g[(k + 1) + 1] = h[(k + 1) + 1]
    OBVIOUS
  <2>1. k + 1 \in Nat \ {0}
    OBVIOUS
  <2> QED BY <1>6, <2>1
<1>9. ASSUME NEW i \in Nat \ {0} PROVE Digit(a, i) = Digit(b, i)
  <2>1. i - 1 \in Nat /\ i - 1 + 1 = i
    OBVIOUS
  <2>2. i - 1 \in S
    <3> HIDE DEF S
    <3> QED BY <1>7, <1>8, <2>1, InductionBySet
  <2>3. g[i] = h[i]
    BY <2>1, <2>2
  <2> QED BY <1>6, <2>3
<1> QED BY <1>9

\* A sequence of so many bytes is a function on its places.
LEMMA BytesOfWidth ==
  ASSUME NEW X, NEW w \in Nat
  PROVE  \A s : s \in [1 .. w -> X] <=> s \in Seq(X) /\ Len(s) = w
<1>1. ASSUME NEW s \in [1 .. w -> X] PROVE s \in Seq(X) /\ Len(s) = w
  OBVIOUS
<1>2. ASSUME NEW s \in Seq(X), Len(s) = w PROVE s \in [1 .. w -> X]
  BY <1>2, LenProperties
<1> QED BY <1>1, <1>2

\* What an index can spell.
LEMMA IndexIsBounded ==
  ASSUME NEW s \in Seq(Octets), Len(s) <= IndexBytes
  PROVE  LittleEndian(s) \in 0 .. MAX_INSCRIPTION_INDEX /\ MAX_INSCRIPTION_INDEX \in Nat
<1> DEFINE top == [i \in 1 .. IndexBytes |-> ByteValues - 1]
<1>1. IndexBytes \in Nat /\ ByteValues \in Nat \ {0} /\ Len(s) \in Nat
  BY LenProperties, GalleryAssumption
<1>2. ByteValues - 1 \in Octets
  BY <1>1 DEF Octets
<1>3. top \in [1 .. IndexBytes -> Octets] /\ \A i \in 1 .. IndexBytes : top[i] = ByteValues - 1
  BY <1>2
<1>4. MAX_INSCRIPTION_INDEX = LittleEndian(top)
  BY DEF MAX_INSCRIPTION_INDEX
<1> HIDE DEF top
<1>5. top \in Seq(Octets) /\ Len(top) = IndexBytes
  BY <1>1, <1>3, BytesOfWidth
<1>6. ASSUME NEW i \in Nat \ {0} PROVE Digit(s, i) <= Digit(top, i)
  <2>1. Digit(s, i) \in 0 .. ByteValues - 1 /\ Digit(top, i) \in 0 .. ByteValues - 1
    BY <1>5, DigitTyped DEF Octets
  <2>2. CASE i <= Len(s)
    <3>1. i <= Len(top) /\ i \in 1 .. IndexBytes
      BY <1>1, <1>5, <2>2
    <3>2. Digit(top, i) = ByteValues - 1
      BY <1>3, <3>1 DEF Digit
    <3> QED BY <1>1, <2>1, <3>2
  <2>3. CASE ~ (i <= Len(s))
    <3>1. Digit(s, i) = 0
      BY <2>3 DEF Digit
    <3> QED BY <1>1, <2>1, <3>1
  <2> QED BY <2>2, <2>3
<1>7. /\ LittleEndian(s) \in Nat /\ LittleEndian(top) \in Nat
      /\ LittleEndian(s) <= LittleEndian(top)
  BY <1>5, <1>6, LesserNumber
<1> QED BY <1>4, <1>7

\* Digits spell their number in the fewest that can unless the last of them is zero.
LEMMA ShortestForm ==
  ASSUME NEW s \in Seq(Octets), NEW w \in Nat \ {0}, Len(s) = w
  PROVE  /\ \A a \in Seq(Octets) : Len(a) < w /\ LittleEndian(a) = LittleEndian(s) => s[w] = 0
         /\ s[w] = 0 => \E a \in [1 .. w - 1 -> Octets] : LittleEndian(a) = LittleEndian(s)
<1>1. ASSUME NEW a \in Seq(Octets), Len(a) < w, LittleEndian(a) = LittleEndian(s)
      PROVE  s[w] = 0
  <2>1. Digit(a, w) = Digit(s, w)
    BY <1>1, SameDigits
  <2>2. Len(a) \in Nat
    BY LenProperties
  <2>3. ~ (w <= Len(a)) /\ w <= Len(s)
    BY <1>1, <2>2
  <2> QED BY <2>1, <2>3 DEF Digit
<1>2. ASSUME s[w] = 0
      PROVE  \E a \in [1 .. w - 1 -> Octets] : LittleEndian(a) = LittleEndian(s)
  <2> DEFINE a == [i \in 1 .. w - 1 |-> s[i]]
  <2>1. \A i \in 1 .. w - 1 : s[i] \in Octets
    <3> TAKE i \in 1 .. w - 1
    <3>1. i \in 1 .. Len(s)
      OBVIOUS
    <3> QED BY <3>1, ElementOfSeq
  <2>2. a \in [1 .. w - 1 -> Octets] /\ \A i \in 1 .. w - 1 : a[i] = s[i]
    BY <2>1
  <2> HIDE DEF a
  <2>3. w - 1 \in Nat
    OBVIOUS
  <2>4. a \in Seq(Octets) /\ Len(a) = w - 1
    BY <2>2, <2>3, BytesOfWidth
  <2>5. \A i \in Nat \ {0} : Digit(a, i) = Digit(s, i)
    <3> TAKE i \in Nat \ {0}
    <3>1. CASE i <= w - 1
      <4>1. i \in 1 .. w - 1 /\ i <= Len(s) /\ i <= Len(a)
        BY <2>4, <3>1
      <4> QED BY <2>2, <4>1 DEF Digit
    <3>2. CASE i = w
      <4>1. ~ (i <= Len(a)) /\ i <= Len(s)
        BY <2>4, <3>2
      <4> QED BY <1>2, <3>2, <4>1 DEF Digit
    <3>3. CASE i > w
      <4>1. ~ (i <= Len(a)) /\ ~ (i <= Len(s))
        BY <2>4, <3>3
      <4> QED BY <4>1 DEF Digit
    <3> QED BY <3>1, <3>2, <3>3
  <2>6. LittleEndian(a) = LittleEndian(s)
    BY <2>4, <2>5, SameNumber
  <2> QED BY <2>2, <2>6
<1> QED BY <1>1, <1>2

\* A sequence is cut in two in one way.
LEMMA CutInTwo ==
  ASSUME NEW X, NEW s \in Seq(X), NEW a \in Nat, NEW b \in Nat, a <= b, b <= Len(s)
  PROVE  /\ SubSeq(s, a + 1, b) \in Seq(X) /\ Len(SubSeq(s, a + 1, b)) = b - a
         /\ SubSeq(s, 1, b) = SubSeq(s, 1, a) \o SubSeq(s, a + 1, b)
         /\ \A t \in Seq(X) : SubSeq(s, 1, b) = SubSeq(s, 1, a) \o t => t = SubSeq(s, a + 1, b)
<1> DEFINE l == Len(s)
           h == SubSeq(s, 1, a)
           m == SubSeq(s, a + 1, b)
           v == SubSeq(s, 1, b)
           c == h \o m
<1>1. l \in Nat /\ \A i \in 1 .. l : s[i] \in X
  BY LenProperties, ElementOfSeq
<1>2. b <= l
  OBVIOUS
<1>3. h \in Seq(X) /\ Len(h) = a /\ \A i \in 1 .. a : h[i] = s[i]
  <2>1. \A i \in 1 .. a : s[i] \in X
    BY <1>1, <1>2
  <2>2. /\ h \in Seq(X) /\ Len(h) = IF 1 <= a THEN a - 1 + 1 ELSE 0
        /\ \A i \in 1 .. a - 1 + 1 : h[i] = s[1 + i - 1]
    BY <2>1, SubSeqProperties
  <2> HIDE DEF h
  <2>3. \A i \in 1 .. a : 1 + i - 1 = i /\ i \in 1 .. a - 1 + 1
    OBVIOUS
  <2> QED BY <2>2, <2>3
<1>4. v \in Seq(X) /\ Len(v) = b /\ \A i \in 1 .. b : v[i] = s[i]
  <2>1. \A i \in 1 .. b : s[i] \in X
    BY <1>1, <1>2
  <2>2. /\ v \in Seq(X) /\ Len(v) = IF 1 <= b THEN b - 1 + 1 ELSE 0
        /\ \A i \in 1 .. b - 1 + 1 : v[i] = s[1 + i - 1]
    BY <2>1, SubSeqProperties
  <2> HIDE DEF v
  <2>3. \A i \in 1 .. b : 1 + i - 1 = i /\ i \in 1 .. b - 1 + 1
    OBVIOUS
  <2> QED BY <2>2, <2>3
<1>5. m \in Seq(X) /\ Len(m) = b - a /\ \A i \in 1 .. b - a : m[i] = s[a + i]
  <2>1. \A i \in a + 1 .. b : s[i] \in X
    BY <1>1, <1>2
  <2>2. /\ m \in Seq(X) /\ Len(m) = IF a + 1 <= b THEN b - (a + 1) + 1 ELSE 0
        /\ \A i \in 1 .. b - (a + 1) + 1 : m[i] = s[a + 1 + i - 1]
    BY <2>1, SubSeqProperties
  <2> HIDE DEF m
  <2>3. \A i \in 1 .. b - a : a + 1 + i - 1 = a + i /\ i \in 1 .. b - (a + 1) + 1
    OBVIOUS
  <2> QED BY <2>2, <2>3
<1> HIDE DEF l, h, m, v
<1>6. ASSUME NEW t \in Seq(X)
      PROVE  v = h \o t <=> Len(t) = b - a /\ \A i \in 1 .. b - a : t[i] = s[a + i]
  <2> DEFINE u == h \o t
             n == Len(t)
  <2>1. n \in Nat
    BY LenProperties
  <2>2. /\ u \in Seq(X) /\ Len(u) = a + n /\ \A i \in 1 .. a : u[i] = h[i]
        /\ \A i \in 1 .. n : u[a + i] = t[i]
    <3>1. h \in Seq(X) /\ t \in Seq(X)
      BY <1>3
    <3>2. /\ h \o t \in Seq(X) /\ Len(h \o t) = Len(h) + Len(t)
          /\ \A k \in 1 .. Len(h) : (h \o t)[k] = h[k]
          /\ \A k \in 1 .. Len(t) : (h \o t)[Len(h) + k] = t[k]
      BY <3>1, ConcatPlaces
    <3> QED BY <1>3, <3>2
  <2> HIDE DEF u, n
  <2>3. ASSUME v = u PROVE n = b - a /\ \A i \in 1 .. b - a : t[i] = s[a + i]
    <3>1. n = b - a
      BY <1>4, <2>1, <2>2, <2>3
    <3>2. \A i \in 1 .. b - a : i \in 1 .. n /\ a + i \in 1 .. b
      BY <3>1
    <3> QED BY <1>4, <2>2, <2>3, <3>1, <3>2
  <2>4. ASSUME n = b - a, \A i \in 1 .. b - a : t[i] = s[a + i] PROVE v = u
    <3>1. Len(u) = b
      BY <2>1, <2>2, <2>4
    <3>2. \A i \in 1 .. b : u[i] = v[i]
      <4> TAKE i \in 1 .. b
      <4>1. CASE i <= a
        BY <1>3, <1>4, <2>2, <4>1
      <4>2. CASE i > a
        <5> DEFINE j == i - a
        <5>1. j \in 1 .. b - a /\ a + j = i /\ j \in 1 .. n
          BY <2>4, <4>2
        <5> HIDE DEF j
        <5>2. u[a + j] = s[a + j]
          BY <2>2, <2>4, <5>1
        <5> QED BY <1>4, <5>1, <5>2
      <4> QED BY <4>1, <4>2
    <3> QED BY <1>4, <2>2, <3>1, <3>2, SeqEqual
  <2> QED BY <2>3, <2>4 DEF u, n
<1>7. v = h \o m
  BY <1>5, <1>6
<1>8. ASSUME NEW t \in Seq(X), v = h \o t PROVE t = m
  <2>1. Len(t) = Len(m) /\ \A i \in 1 .. Len(t) : t[i] = m[i]
    BY <1>5, <1>6, <1>8
  <2> QED BY <1>5, <2>1, SeqEqual
<1> QED BY <1>5, <1>7, <1>8 DEF v, h, m

(* --------------------------- ids that are read ------------------------- *)

TxidOctets == [1 .. TxidBytes -> Octets]

WithNumber(width, n) == {digits \in [1 .. width -> Octets] : LittleEndian(digits) = n}

\* The widths that an id may have for its index.
FormOf(width, n) ==
  /\ width \in 0 .. IndexBytes
  /\ width = IndexBytes \/ \A less \in 0 .. width - 1 : WithNumber(less, n) = {}

\* The forms of an id are its txid with the digits of its index, in one of the widths.
LEMMA FormsOfId ==
  \A txid, n, v : v \in IdForms(txid, n) <=>
    \E width : FormOf(width, n) /\ \E digits \in WithNumber(width, n) : v = txid \o digits
<1> TAKE txid, n, v
<1> DEFINE Shortest(width) == \A less \in 0 .. width - 1 : WithNumber(less, n) = {}
           widths == {width \in 0 .. IndexBytes : width = IndexBytes \/ Shortest(width)}
           all == UNION {WithNumber(width, n) : width \in widths}
<1>1. IdForms(txid, n) = {txid \o digits : digits \in all}
  BY DEF IdForms, WithNumber, Octets
<1>2. \A digits : digits \in all <=> \E width : FormOf(width, n) /\ digits \in WithNumber(width, n)
  <2>1. \A width : width \in widths <=> FormOf(width, n)
    BY DEF FormOf
  <2> HIDE DEF widths
  <2> QED BY <2>1
<1> HIDE DEF all
<1> QED BY <1>1, <1>2

\* An id that is read is the one that has this form.
LEMMA IdOfForm ==
  ASSUME NEW v \in Seq(Octets), NEW txid \in TxidOctets, NEW n, v \in IdForms(txid, n)
  PROVE  parseInscriptionIdValue(v) = <<InscriptionId(txid, n)>>
<1>1. PICK width : FormOf(width, n) /\ \E digits \in WithNumber(width, n) : v = txid \o digits
  BY FormsOfId
<1>2. PICK digits \in WithNumber(width, n) : v = txid \o digits
  BY <1>1
<1>3. TxidBytes \in Nat /\ IndexBytes \in Nat /\ width \in 0 .. IndexBytes /\ width \in Nat
  BY <1>1, GalleryAssumption DEF FormOf
<1>4. txid \in Seq(Octets) /\ Len(txid) = TxidBytes
  BY <1>3, BytesOfWidth DEF TxidOctets
<1>5. digits \in [1 .. width -> Octets] /\ LittleEndian(digits) = n
  BY <1>2 DEF WithNumber
<1>6. digits \in Seq(Octets) /\ Len(digits) = width
  BY <1>3, <1>5, BytesOfWidth
<1> DEFINE T == TxidBytes
           l == Len(v)
<1>7. l = T + width /\ \A k \in 1 .. T : v[k] = txid[k]
  <2>1. Len(txid \o digits) = Len(txid) + Len(digits) /\ \A k \in 1 .. Len(txid) : (txid \o digits)[k] = txid[k]
    BY <1>4, <1>6, ConcatPlaces
  <2> QED BY <1>2, <1>4, <1>6, <2>1
<1>8. \A k \in 1 .. width : v[T + k] = digits[k]
  <2>1. \A k \in 1 .. Len(digits) : (txid \o digits)[Len(txid) + k] = digits[k]
    BY <1>4, <1>6, ConcatPlaces
  <2> QED BY <1>2, <1>4, <1>6, <2>1
<1>9. l - T = width /\ T <= l /\ l <= l /\ T \in Nat /\ l \in Nat
  BY <1>3, <1>7
<1>10. SubSeq(v, 1, l) = v
  <2>1. \A i \in 1 .. l : v[i] \in Octets
    BY ElementOfSeq
  <2>2. /\ SubSeq(v, 1, l) \in Seq(Octets) /\ Len(SubSeq(v, 1, l)) = IF 1 <= l THEN l - 1 + 1 ELSE 0
        /\ \A i \in 1 .. l - 1 + 1 : SubSeq(v, 1, l)[i] = v[1 + i - 1]
    <3> HIDE DEF l
    <3> QED BY <1>9, <2>1, SubSeqProperties
  <2> HIDE DEF l
  <2>3. Len(SubSeq(v, 1, l)) = l /\ \A i \in 1 .. l : SubSeq(v, 1, l)[i] = v[i]
    BY <1>9, <2>2
  <2> QED BY <2>2, <2>3, SeqEqual DEF l
<1>11. SubSeq(v, 1, T) = txid
  <2>1. \A i \in 1 .. T : v[i] \in Octets
    BY <1>9, ElementOfSeq
  <2>2. /\ SubSeq(v, 1, T) \in Seq(Octets) /\ Len(SubSeq(v, 1, T)) = IF 1 <= T THEN T - 1 + 1 ELSE 0
        /\ \A i \in 1 .. T - 1 + 1 : SubSeq(v, 1, T)[i] = v[1 + i - 1]
    <3> HIDE DEF T
    <3> QED BY <1>9, <2>1, SubSeqProperties
  <2>3. Len(SubSeq(v, 1, T)) = T /\ \A i \in 1 .. T : SubSeq(v, 1, T)[i] = txid[i]
    BY <1>3, <1>7, <2>2
  <2> QED BY <1>4, <2>2, <2>3, SeqEqual
<1>12. SubSeq(v, T + 1, l) = digits
  <2> HIDE DEF T
  <2>1. \A t \in Seq(Octets) : SubSeq(v, 1, l) = SubSeq(v, 1, T) \o t => t = SubSeq(v, T + 1, l)
    BY <1>9, CutInTwo
  <2>2. SubSeq(v, 1, l) = SubSeq(v, 1, T) \o digits
    BY <1>2, <1>10, <1>11
  <2> HIDE DEF l
  <2> QED BY <1>6, <2>1, <2>2
<1>13. width \notin {0, IndexBytes} => Last(v) # 0
  <2> SUFFICES ASSUME width # 0, width # IndexBytes, Last(v) = 0 PROVE FALSE
    OBVIOUS
  <2>1. Last(v) = v[l]
    BY DEF Last
  <2>2. width \in 1 .. width /\ width \in Nat \ {0} /\ width - 1 \in 0 .. width - 1
    BY <1>3
  <2>3. v[l] = digits[width]
    BY <1>7, <1>8, <2>2
  <2>4. \E a \in [1 .. width - 1 -> Octets] : LittleEndian(a) = LittleEndian(digits)
    BY <1>6, <2>1, <2>2, <2>3, ShortestForm
  <2>5. WithNumber(width - 1, n) # {}
    BY <1>5, <2>4 DEF WithNumber
  <2> QED BY <1>1, <2>2, <2>5 DEF FormOf
<1> HIDE DEF T, l
<1>14. parseInscriptionIdValue(v) =
         IF width \notin 0 .. IndexBytes \/ (width \notin {0, IndexBytes} /\ Last(v) = 0) THEN <<>>
         ELSE <<InscriptionId(txid, LittleEndian(digits))>>
  BY <1>9, <1>11, <1>12 DEF parseInscriptionIdValue, T, l
<1> QED BY <1>3, <1>5, <1>13, <1>14

\* What is read for an id has that form.
LEMMA FormOfId ==
  ASSUME NEW v \in Seq(Octets), parseInscriptionIdValue(v) # <<>>
  PROVE  \E txid \in TxidOctets, n \in 0 .. MAX_INSCRIPTION_INDEX : v \in IdForms(txid, n)
<1> DEFINE T == TxidBytes
           l == Len(v)
           width == l - T
           txid == SubSeq(v, 1, T)
           digits == SubSeq(v, T + 1, l)
           n == LittleEndian(digits)
<1>1. /\ width \in 0 .. IndexBytes
      /\ width \notin {0, IndexBytes} => Last(v) # 0
  BY DEF parseInscriptionIdValue
<1>2. T \in Nat /\ l \in Nat /\ IndexBytes \in Nat
  BY LenProperties, GalleryAssumption
<1>3. T <= l /\ width \in Nat /\ l <= l
  BY <1>1, <1>2
<1>4. /\ digits \in Seq(Octets) /\ Len(digits) = width
      /\ SubSeq(v, 1, l) = txid \o digits
  <2>1. v \in Seq(Octets) /\ T \in Nat /\ l \in Nat /\ T <= l /\ l <= Len(v)
    BY <1>2, <1>3
  <2> HIDE DEF T, l
  <2> QED BY <2>1, CutInTwo
<1>5. txid \in Seq(Octets) /\ Len(txid) = T
  <2>1. \A i \in 1 .. T : v[i] \in Octets
    BY <1>2, <1>3, ElementOfSeq
  <2>2. txid \in Seq(Octets) /\ Len(txid) = IF 1 <= T THEN T - 1 + 1 ELSE 0
    <3> HIDE DEF T
    <3> QED BY <1>2, <2>1, SubSeqProperties
  <2> QED BY <1>2, <2>2
<1>6. txid \in TxidOctets
  BY <1>2, <1>5, BytesOfWidth DEF TxidOctets
<1>7. SubSeq(v, 1, l) = v
  <2>1. \A i \in 1 .. l : v[i] \in Octets
    BY ElementOfSeq
  <2>2. /\ SubSeq(v, 1, l) \in Seq(Octets) /\ Len(SubSeq(v, 1, l)) = IF 1 <= l THEN l - 1 + 1 ELSE 0
        /\ \A i \in 1 .. l - 1 + 1 : SubSeq(v, 1, l)[i] = v[1 + i - 1]
    <3> HIDE DEF l
    <3> QED BY <1>2, <2>1, SubSeqProperties
  <2> HIDE DEF l, width, digits, n
  <2>3. Len(SubSeq(v, 1, l)) = l /\ \A i \in 1 .. l : SubSeq(v, 1, l)[i] = v[i]
    BY <1>2, <2>2
  <2> QED BY <2>2, <2>3, SeqEqual DEF l
<1>8. v = txid \o digits
  BY <1>4, <1>7
<1>9. n \in 0 .. MAX_INSCRIPTION_INDEX
  <2>1. Len(digits) <= IndexBytes
    BY <1>1, <1>2, <1>4
  <2> HIDE DEF digits
  <2> QED BY <1>4, <2>1, IndexIsBounded
<1>10. width # 0 => digits[width] = Last(v)
  <2> SUFFICES ASSUME width # 0 PROVE digits[width] = Last(v)
    OBVIOUS
  <2>1. (txid \o digits)[Len(txid) + width] = digits[width]
    <3>1. width \in 1 .. Len(digits)
      BY <1>3, <1>4
    <3> HIDE DEF txid, digits, width
    <3> QED BY <1>4, <1>5, <3>1, ConcatPlaces
  <2>2. T + width = l
    BY <1>2
  <2> HIDE DEF width, T, l, txid, digits
  <2>3. v[l] = digits[width]
    BY <1>5, <1>8, <2>1, <2>2
  <2> QED BY <2>3 DEF Last, l
<1> HIDE DEF txid, digits, width, T, l
<1>11. digits \in WithNumber(width, n)
  BY <1>3, <1>4, BytesOfWidth DEF WithNumber
<1>12. FormOf(width, n)
  <2>1. CASE width = IndexBytes
    BY <1>1, <2>1 DEF FormOf
  <2>2. CASE width # IndexBytes
    <3>1. ASSUME NEW less \in 0 .. width - 1, WithNumber(less, n) # {} PROVE FALSE
      <4>1. PICK a \in [1 .. less -> Octets] : LittleEndian(a) = n
        BY <3>1 DEF WithNumber
      <4>2. less \in Nat /\ less < width /\ width \in Nat \ {0}
        BY <1>3
      <4>3. a \in Seq(Octets) /\ Len(a) = less
        BY <4>2, BytesOfWidth
      <4>4. digits[width] = 0
        BY <1>4, <4>1, <4>2, <4>3, ShortestForm
      <4> QED BY <1>1, <1>10, <2>2, <4>2, <4>4
    <3> QED BY <1>1, <3>1 DEF FormOf
  <2> QED BY <2>1, <2>2
<1> HIDE DEF n
<1>13. v \in IdForms(txid, n)
  BY <1>8, <1>11, <1>12, FormsOfId
<1> QED BY <1>6, <1>9, <1>13

\* The txid in a place of the packed ones is the one behind those before it.
LEMMA PackedTxid ==
  ASSUME NEW p \in Seq(Octets), NEW i \in Nat \ {0}, TxidBytes * i <= Len(p)
  PROVE  /\ SubSeq(p, TxidBytes * (i - 1) + 1, TxidBytes * i) \in TxidOctets
         /\ \A t \in TxidOctets : SubSeq(p, 1, TxidBytes * i) = SubSeq(p, 1, TxidBytes * (i - 1)) \o t <=>
                               t = SubSeq(p, TxidBytes * (i - 1) + 1, TxidBytes * i)
<1> DEFINE T == TxidBytes
           a == T * (i - 1)
           b == T * i
           t0 == SubSeq(p, a + 1, b)
<1>1. T \in Nat
  BY GalleryAssumption
<1>2. a \in Nat /\ b \in Nat /\ b = a + T
  <2>1. i - 1 \in Nat
    OBVIOUS
  <2> HIDE DEF T
  <2> QED BY <1>1, <2>1
<1>3. b <= Len(p)
  OBVIOUS
<1> HIDE DEF a, b, T
<1>4. a <= b /\ b - a = T
  BY <1>1, <1>2
<1>5. /\ t0 \in Seq(Octets) /\ Len(t0) = b - a
      /\ SubSeq(p, 1, b) = SubSeq(p, 1, a) \o t0
      /\ \A t \in Seq(Octets) : SubSeq(p, 1, b) = SubSeq(p, 1, a) \o t => t = t0
  <2>1. p \in Seq(Octets) /\ a \in Nat /\ b \in Nat /\ a <= b /\ b <= Len(p)
    BY <1>2, <1>3, <1>4
  <2> HIDE DEF Octets
  <2> QED BY <2>1, CutInTwo
<1> HIDE DEF t0
<1>6. t0 \in TxidOctets /\ TxidOctets \subseteq Seq(Octets)
  BY <1>1, <1>4, <1>5, BytesOfWidth DEF TxidOctets, T
<1> QED BY <1>5, <1>6 DEF a, b, T, t0

(* ---------------------------- what is declared ------------------------- *)

GalleryTyped ==
  gallery \in [packed : {<<>>} \cup {<<Token(2, txids)>> : txids \in TxidLists},
               indefinite : BOOLEAN, twice : BOOLEAN, entries : Seq(Entries \X BOOLEAN)]

\* What is read as a value that is written, or is not.
SaidOf(value) == IF value = <<>> THEN undefined ELSE ValueOf(value[1][1], value[1][3])

EntrySays(entry, v) ==
  IF entry.lists > 0 THEN v[1] = "list"
  ELSE /\ v[1] = "map"
       /\ atKey(v[2], ITEM_KEY_ID) = SaidOf(entry.id)
       /\ atKey(v[2], ITEM_KEY_INDEX) = SaidOf(entry.index)

\* Something is given, and that is all that is declared, or nothing is.
MemberOf(member, S) == \/ member = <<>> /\ S = {}
                       \/ \E x : member = <<x>> /\ S = {x}

IdFacts(entry) ==
  \/ entry.id = <<>>
  \/ \E major \in {2, 3} : \E argument \in Seq(Symbols) :
       entry.id = <<Token(major, argument)>> /\ (major = 2 => argument \in Seq(Octets))

IndexFacts(entry) ==
  \/ entry.index = <<>>
  \/ \E major \in {0, 1} : \E n \in Nat : entry.index = <<Token(major, <<n>>)>>
  \/ \E n \in 0 .. 23 : entry.index = <<Token(7, <<n>>)>>
  \/ \E width \in 24 .. 27 : \E n \in Int : entry.index = <<Token(7, <<width, n>>)>>

\* Octets are symbols, and numbers.
LEMMA BytesAreSymbols == Octets \subseteq Symbols /\ Octets \subseteq Nat /\ Seq(Octets) \subseteq Seq(Symbols)
<1>1. Octets \subseteq Nat
  BY GalleryAssumption DEF Octets
<1>2. Octets \subseteq Symbols
  BY <1>1 DEF Symbols
<1>3. \A X, Y : X \subseteq Y => Seq(X) \subseteq Seq(Y)
  OBVIOUS
<1> QED BY <1>1, <1>2, <1>3

\* An entry has an id and an index of the kinds that are written, or neither.
LEMMA EntryFacts ==
  ASSUME NEW entry \in Entries
  PROVE  IdFacts(entry) /\ IndexFacts(entry) /\ entry.lists \in Nat
<1>1. IsEntry(entry)
  BY GalleryAssumption
<1>2. entry.lists \in Nat
  BY <1>1 DEF IsEntry
<1>3. ASSUME entry.id # <<>> PROVE IdFacts(entry)
  <2>1. PICK major \in {2, 3} : entry.id = <<Token(major, entry.id[1][3])>>
    BY <1>1, <1>3 DEF IsEntry
  <2> DEFINE argument == entry.id[1][3]
  <2>2. entry.id[1][1] = major
    BY <2>1 DEF Token
  <2>3. argument \in Seq(IF major = 2 THEN Octets ELSE STRING)
    BY <1>1, <1>3, <2>2 DEF IsEntry, Octets
  <2>4. argument \in Seq(Symbols) /\ (major = 2 => argument \in Seq(Octets))
    <3>1. CASE major = 2
      BY <2>3, <3>1, BytesAreSymbols
    <3>2. CASE major = 3
      <4>1. argument \in Seq(STRING)
        BY <2>3, <3>2
      <4>2. \A X, Y : X \subseteq Y => Seq(X) \subseteq Seq(Y)
        OBVIOUS
      <4>3. STRING \subseteq Symbols
        BY DEF Symbols
      <4>4. Seq(STRING) \subseteq Seq(Symbols)
        BY <4>2, <4>3
      <4> QED BY <3>2, <4>1, <4>4
    <3> QED BY <3>1, <3>2
  <2>5. entry.id = <<Token(major, argument)>>
    BY <2>1
  <2> HIDE DEF argument
  <2> QED BY <2>4, <2>5 DEF IdFacts
<1>4. ASSUME entry.index # <<>> PROVE IndexFacts(entry)
  <2> DEFINE token == entry.index[1]
             argument == token[3]
  <2>1. entry.index = <<token>> /\ IsIndex(token)
    BY <1>1, <1>4 DEF IsEntry
  <2>2. token = Token(token[1], argument)
    BY <2>1 DEF IsIndex
  <2> HIDE DEF token
  <2>3. CASE token[1] \in {0, 1} /\ argument = <<argument[1]>> /\ argument[1] \in Nat
    BY <2>1, <2>2, <2>3 DEF IndexFacts
  <2>4. CASE token[1] = 7 /\ argument = <<argument[1]>> /\ argument[1] \in 0 .. 23
    BY <2>1, <2>2, <2>4 DEF IndexFacts
  <2>5. CASE token[1] = 7 /\ argument \in (24 .. 27) \X Int
    <3>1. PICK width \in 24 .. 27, n \in Int : argument = <<width, n>>
      BY <2>5
    <3>2. entry.index = <<Token(7, <<width, n>>)>>
      BY <2>1, <2>2, <2>5, <3>1
    <3> QED BY <3>2 DEF IndexFacts
  <2>6. ({24} \X (0 .. 255)) \cup ((25 .. 27) \X Int) \subseteq (24 .. 27) \X Int
    OBVIOUS
  <2> QED BY <2>1, <2>3, <2>4, <2>5, <2>6 DEF IsIndex
<1> QED BY <1>2, <1>3, <1>4 DEF IdFacts, IndexFacts

IndexToken(entry) ==
  IF entry.index \in {<<>>, <<Token(7, <<23>>)>>} THEN Token(0, <<0>>) ELSE entry.index[1]

\* What the index of an entry is read as, and of which number it is a form.
LEMMA IndexSays ==
  ASSUME NEW entry, IndexFacts(entry)
  PROVE  LET said == SaidOf(entry.index)
             IsForm(n) == IndexToken(entry) \in NumberForms(n)
         IN  \/ said = undefined /\ \A n \in Nat : IsForm(n) <=> n = 0
             \/ \E m \in 20 .. 22 : said = <<"simple", m>> /\ \A n \in Nat : ~ IsForm(n)
             \/ \E k \in Int : said = <<"int", k>> /\ \A n \in Nat : IsForm(n) <=> n = k
<1> DEFINE said == SaidOf(entry.index)
           token == IndexToken(entry)
           IsForm(n) == token \in NumberForms(n)
           Goal == \/ said = undefined /\ \A n \in Nat : IsForm(n) <=> n = 0
                   \/ \E m \in 20 .. 22 : said = <<"simple", m>> /\ \A n \in Nat : ~ IsForm(n)
                   \/ \E k \in Int : said = <<"int", k>> /\ \A n \in Nat : IsForm(n) <=> n = k
<1>1. /\ \A m, n : Token(0, <<m>>) \in NumberForms(n) <=> m = n
      /\ \A m, n : Token(1, <<m>>) \notin NumberForms(n)
      /\ \A m, n \in Nat : Token(7, <<m>>) \in NumberForms(n) <=> m = n /\ m \in 0 .. 19
      /\ \A n : \A width \in 24 .. 27 : \A m : Token(7, <<width, m>>) \in NumberForms(n) <=> m = n
  <2>1. ASSUME NEW n, NEW t
        PROVE  t \in NumberForms(n) <=> \/ t = Token(0, <<n>>)
                                        \/ \E width \in 24 .. 27 : t = Token(7, <<width, n>>)
                                        \/ n \in 0 .. 19 /\ t = Token(7, <<n>>)
    BY DEF NumberForms
  <2>2. ASSUME NEW m, NEW n
        PROVE  Token(0, <<m>>) \in NumberForms(n) <=> m = n
    <3> DEFINE t == Token(0, <<m>>)
    <3>1. /\ t = Token(0, <<n>>) <=> m = n
          /\ t # Token(7, <<n>>) /\ \A width : t # Token(7, <<width, n>>)
      BY DEF Token
    <3> HIDE DEF t
    <3>2. t \in NumberForms(n) <=> m = n
      BY <2>1, <3>1
    <3> QED BY <3>2 DEF t
  <2>3. ASSUME NEW m, NEW n
        PROVE  Token(1, <<m>>) \notin NumberForms(n)
    <3> DEFINE t == Token(1, <<m>>)
    <3>1. /\ t # Token(0, <<n>>)
          /\ t # Token(7, <<n>>) /\ \A width : t # Token(7, <<width, n>>)
      BY DEF Token
    <3> HIDE DEF t
    <3>2. t \notin NumberForms(n)
      BY <2>1, <3>1
    <3> QED BY <3>2 DEF t
  <2>4. ASSUME NEW m \in Nat, NEW n \in Nat
        PROVE  Token(7, <<m>>) \in NumberForms(n) <=> m = n /\ m \in 0 .. 19
    <3> DEFINE t == Token(7, <<m>>)
    <3>1. /\ t = Token(7, <<n>>) <=> m = n
          /\ t # Token(0, <<n>>) /\ \A width : t # Token(7, <<width, n>>)
      BY DEF Token
    <3> HIDE DEF t
    <3>2. t \in NumberForms(n) <=> m = n /\ m \in 0 .. 19
      BY <2>1, <3>1
    <3> QED BY <3>2 DEF t
  <2>5. ASSUME NEW n, NEW width \in 24 .. 27, NEW m
        PROVE  Token(7, <<width, m>>) \in NumberForms(n) <=> m = n
    <3> DEFINE t == Token(7, <<width, m>>)
    <3>1. /\ \A w : t = Token(7, <<w, n>>) <=> w = width /\ m = n
          /\ t # Token(0, <<n>>) /\ t # Token(7, <<n>>)
      BY DEF Token
    <3> HIDE DEF t
    <3>2. t \in NumberForms(n) <=> m = n
      BY <2>1, <3>1
    <3> QED BY <3>2 DEF t
  <2> QED BY <2>2, <2>3, <2>4, <2>5
<1>2. Token(7, <<23>>)[1] = 7
  BY DEF Token
<1>3. \A major, argument : Token(major, argument)[1] = major /\ Token(major, argument)[3] = argument
  BY DEF Token
<1>4. ASSUME entry.index = <<>> PROVE Goal
  <2>1. said = undefined /\ token = Token(0, <<0>>)
    BY <1>4 DEF SaidOf, IndexToken
  <2> HIDE DEF said, token
  <2> QED BY <1>1, <2>1
<1>5. ASSUME NEW n \in Nat, entry.index = <<Token(0, <<n>>)>> PROVE Goal
  <2>1. said = <<"int", n>> /\ token = Token(0, <<n>>) /\ n \in Int
    <3> DEFINE t == Token(0, <<n>>)
    <3>1. t[1] = 0 /\ t[3] = <<n>> /\ <<n>>[1] = n
      BY <1>3
    <3>2. entry.index = <<t>>
      BY <1>5
    <3> HIDE DEF t
    <3>3. ValueOf(0, <<n>>) = <<"int", n>>
      BY DEF ValueOf
    <3>4. said = ValueOf(0, <<n>>)
      BY <3>1, <3>2 DEF SaidOf
    <3>5. token = t
      BY <1>2, <3>1, <3>2 DEF IndexToken
    <3> QED BY <3>3, <3>4, <3>5 DEF t
  <2> HIDE DEF said, token
  <2> QED BY <1>1, <2>1
<1>6. ASSUME NEW n \in Nat, entry.index = <<Token(1, <<n>>)>> PROVE Goal
  <2> DEFINE k == -1 - n
  <2>1. said = <<"int", k>> /\ token = Token(1, <<n>>)
    <3> DEFINE t == Token(1, <<n>>)
    <3>1. t[1] = 1 /\ t[3] = <<n>> /\ <<n>>[1] = n
      BY <1>3
    <3>2. entry.index = <<t>>
      BY <1>6
    <3> HIDE DEF t
    <3>3. ValueOf(1, <<n>>) = <<"int", k>>
      BY DEF ValueOf
    <3>4. said = ValueOf(1, <<n>>)
      BY <3>1, <3>2 DEF SaidOf
    <3>5. token = t
      BY <1>2, <3>1, <3>2 DEF IndexToken
    <3> QED BY <3>3, <3>4, <3>5 DEF t
  <2>2. k \in Int /\ k \notin Nat
    OBVIOUS
  <2> HIDE DEF said, token, k
  <2>3. \A m \in Nat : IsForm(m) <=> m = k
    BY <1>1, <2>1, <2>2
  <2> QED BY <2>1, <2>2, <2>3
<1>7. ASSUME NEW n \in 0 .. 23, entry.index = <<Token(7, <<n>>)>> PROVE Goal
  <2>1. said = SimpleValue(<<n>>)
    BY <1>7 DEF SaidOf, ValueOf, Token
  <2>2. SimpleValue(<<n>>) = IF n \in 20 .. 23 THEN <<"simple", n>> ELSE <<"int", n>>
    BY DEF SimpleValue, Last
  <2>3. token = IF n = 23 THEN Token(0, <<0>>) ELSE Token(7, <<n>>)
    BY <1>7 DEF IndexToken, Token
  <2>4. n \in Nat /\ n \in Int
    OBVIOUS
  <2>5. undefined = <<"simple", 23>>
    BY DEF undefined
  <2> HIDE DEF said, token
  <2>6. CASE n = 23
    BY <1>1, <2>1, <2>2, <2>3, <2>5, <2>6
  <2>7. CASE n \in 20 .. 22
    <3>1. said = <<"simple", n>> /\ \A m \in Nat : ~ IsForm(m)
      BY <1>1, <2>1, <2>2, <2>3, <2>4, <2>7
    <3> QED BY <2>7, <3>1
  <2>8. CASE n \in 0 .. 19
    <3>1. said = <<"int", n>> /\ \A m \in Nat : IsForm(m) <=> m = n
      BY <1>1, <2>1, <2>2, <2>3, <2>4, <2>8
    <3> QED BY <2>4, <3>1
  <2>9. n = 23 \/ n \in 20 .. 22 \/ n \in 0 .. 19
    OBVIOUS
  <2> HIDE DEF Goal
  <2> QED BY <2>6, <2>7, <2>8, <2>9
<1>8. ASSUME NEW width \in 24 .. 27, NEW n \in Int, entry.index = <<Token(7, <<width, n>>)>> PROVE Goal
  <2>1. said = SimpleValue(<<width, n>>)
    BY <1>8 DEF SaidOf, ValueOf, Token
  <2>2. SimpleValue(<<width, n>>) = <<"int", n>>
    <3>1. width \notin 20 .. 23 /\ <<width, n>>[1] = width /\ <<width, n>>[2] = n /\ Len(<<width, n>>) = 2
      OBVIOUS
    <3> QED BY <3>1 DEF SimpleValue, Last
  <2>3. token = Token(7, <<width, n>>)
    <3>1. <<width, n>> # <<23>>
      OBVIOUS
    <3>2. Token(7, <<width, n>>) # Token(7, <<23>>)
      BY <3>1 DEF Token
    <3> QED BY <1>8, <3>2 DEF IndexToken
  <2> HIDE DEF said, token
  <2>4. \A m \in Nat : IsForm(m) <=> m = n
    BY <1>1, <2>3
  <2> QED BY <2>1, <2>2, <2>4
<1>9. Goal
  <2> HIDE DEF Goal
  <2> QED BY <1>4, <1>5, <1>6, <1>7, <1>8 DEF IndexFacts, Goal
<1> QED BY <1>9

\* The index that is read is the one that is declared.
LEMMA IndexIsDeclared ==
  ASSUME NEW entry, IndexFacts(entry)
  PROVE  LET read == inscriptionIndex(SaidOf(entry.index))
         IN  \/ read = <<>> /\ \A n \in 0 .. MAX_INSCRIPTION_INDEX : IndexToken(entry) \notin NumberForms(n)
             \/ \E m \in 0 .. MAX_INSCRIPTION_INDEX :
                  /\ read = <<m>>
                  /\ \A n \in 0 .. MAX_INSCRIPTION_INDEX : IndexToken(entry) \in NumberForms(n) <=> n = m
<1> DEFINE said == SaidOf(entry.index)
           IsForm(n) == IndexToken(entry) \in NumberForms(n)
           MAX == MAX_INSCRIPTION_INDEX
<1>1. MAX \in Nat
  <2>1. <<>> \in Seq(Octets) /\ Len(<<>>) = 0 /\ 0 <= IndexBytes
    BY GalleryAssumption
  <2> QED BY <2>1, IndexIsBounded
<1>2. 0 \in 0 .. MAX /\ \A n \in 0 .. MAX : n \in Nat
  BY <1>1
<1>3. /\ inscriptionIndex(undefined) = <<0>>
      /\ \A m \in 20 .. 22 : inscriptionIndex(<<"simple", m>>) = <<>>
      /\ \A k \in Int : inscriptionIndex(<<"int", k>>) = IF k \in 0 .. MAX THEN <<k>> ELSE <<>>
  BY DEF inscriptionIndex, undefined
<1>4. \/ said = undefined /\ \A n \in Nat : IsForm(n) <=> n = 0
      \/ \E m \in 20 .. 22 : said = <<"simple", m>> /\ \A n \in Nat : ~ IsForm(n)
      \/ \E k \in Int : said = <<"int", k>> /\ \A n \in Nat : IsForm(n) <=> n = k
  BY IndexSays
<1> HIDE DEF said, IsForm, MAX
<1>5. CASE said = undefined /\ \A n \in Nat : IsForm(n) <=> n = 0
  BY <1>2, <1>3, <1>5 DEF said, IsForm, MAX
<1>6. ASSUME NEW m \in 20 .. 22, said = <<"simple", m>>, \A n \in Nat : ~ IsForm(n)
      PROVE  inscriptionIndex(said) = <<>> /\ \A n \in 0 .. MAX : ~ IsForm(n)
  BY <1>2, <1>3, <1>6
<1>7. ASSUME NEW k \in Int, said = <<"int", k>>, \A n \in Nat : IsForm(n) <=> n = k
      PROVE  \/ inscriptionIndex(said) = <<>> /\ \A n \in 0 .. MAX : ~ IsForm(n)
             \/ \E m \in 0 .. MAX : inscriptionIndex(said) = <<m>> /\ \A n \in 0 .. MAX : IsForm(n) <=> n = m
  BY <1>2, <1>3, <1>7
<1>8. \/ inscriptionIndex(said) = <<>> /\ \A n \in 0 .. MAX : ~ IsForm(n)
      \/ \E m \in 0 .. MAX : inscriptionIndex(said) = <<m>> /\ \A n \in 0 .. MAX : IsForm(n) <=> n = m
  BY <1>2, <1>3, <1>4, <1>6, <1>7
<1> QED BY <1>8 DEF said, IsForm, MAX

\* An entry names an id: in its own bytes, or by its place among the packed txids.
Inline(entry) == entry.id # <<>> /\ entry.id[1][1] = 2

Packed == {gallery.packed[j][3] : j \in DOMAIN gallery.packed}

ByPlace(i, txid) ==
  \E packed \in Packed :
    /\ TxidBytes * i <= Len(packed)
    /\ SubSeq(packed, 1, TxidBytes * i) = SubSeq(packed, 1, TxidBytes * (i - 1)) \o txid

NamesId(entry, i, txid, n) ==
  \/ Inline(entry) /\ entry.id[1][3] \in IdForms(txid, n)
  \/ ~ Inline(entry) /\ IndexToken(entry) \in NumberForms(n) /\ ByPlace(i, txid)

\* What is declared at a place is the id that the entry there names.
LEMMA DeclaredFacts ==
  ASSUME NEW i, NEW entry, entry = gallery.entries[i][1]
  PROVE  \A x : x \in DeclaredAt(i) <=>
           /\ ~ (entry.lists > 0)
           /\ \E txid \in TxidOctets : \E n \in 0 .. MAX_INSCRIPTION_INDEX :
                NamesId(entry, i, txid, n) /\ x = InscriptionId(txid, n)
<1> DEFINE declared == {w \in TxidOctets \X (0 .. MAX_INSCRIPTION_INDEX) : NamesId(entry, i, w[1], w[2])}
           all == {InscriptionId(w[1], w[2]) : w \in declared}
<1>1. DeclaredAt(i) = IF entry.lists > 0 THEN {} ELSE all
  BY Zenon DEF DeclaredAt, NamesId, Inline, Packed, ByPlace, IndexToken, TxidOctets, Octets
<1>2. \A x : x \in all <=> \E txid \in TxidOctets : \E n \in 0 .. MAX_INSCRIPTION_INDEX :
                             NamesId(entry, i, txid, n) /\ x = InscriptionId(txid, n)
  <2>1. ASSUME NEW x \in all
        PROVE  \E txid \in TxidOctets : \E n \in 0 .. MAX_INSCRIPTION_INDEX :
                 NamesId(entry, i, txid, n) /\ x = InscriptionId(txid, n)
    <3>1. PICK w \in declared : x = InscriptionId(w[1], w[2])
      OBVIOUS
    <3>2. w[1] \in TxidOctets /\ w[2] \in 0 .. MAX_INSCRIPTION_INDEX /\ NamesId(entry, i, w[1], w[2])
      OBVIOUS
    <3> QED BY <3>1, <3>2
  <2>2. ASSUME NEW txid \in TxidOctets, NEW n \in 0 .. MAX_INSCRIPTION_INDEX, NamesId(entry, i, txid, n)
        PROVE  InscriptionId(txid, n) \in all
    <3> DEFINE w == <<txid, n>>
    <3>1. w \in TxidOctets \X (0 .. MAX_INSCRIPTION_INDEX) /\ w[1] = txid /\ w[2] = n
      OBVIOUS
    <3> HIDE DEF w
    <3>2. w \in declared
      BY <2>2, <3>1
    <3> HIDE DEF declared
    <3> QED BY <3>1, <3>2
  <2> HIDE DEF all
  <2> QED BY <2>1, <2>2
<1> HIDE DEF all
<1> QED BY <1>1, <1>2

\* What the entry at a place gives is what is declared there.
LEMMA MemberIsDeclared ==
  ASSUME GalleryTyped, NEW i \in Nat \ {0}, NEW entry \in Entries, entry = gallery.entries[i][1],
         NEW v, EntrySays(entry, v)
  PROVE  MemberOf(MemberAt(i, v, SaidOf(gallery.packed)), DeclaredAt(i))
<1> DEFINE m == MemberAt(i, v, SaidOf(gallery.packed))
           D == DeclaredAt(i)
           Named(x) == \E txid \in TxidOctets : \E n \in 0 .. MAX_INSCRIPTION_INDEX :
                         NamesId(entry, i, txid, n) /\ x = InscriptionId(txid, n)
<1>1. \A x : x \in D <=> ~ (entry.lists > 0) /\ Named(x)
  <2>1. entry = gallery.entries[i][1]
    OBVIOUS
  <2>2. \A x : x \in DeclaredAt(i) <=>
           /\ ~ (entry.lists > 0)
           /\ \E txid \in TxidOctets : \E n \in 0 .. MAX_INSCRIPTION_INDEX :
                NamesId(entry, i, txid, n) /\ x = InscriptionId(txid, n)
    BY <2>1, DeclaredFacts
  <2> QED BY <2>2
<1>2. IdFacts(entry) /\ IndexFacts(entry)
  BY EntryFacts
<1> HIDE DEF D
<1>3. CASE entry.lists > 0
  <2>1. v[1] # "map"
    BY <1>3 DEF EntrySays
  <2>2. m = <<>>
    BY <2>1 DEF MemberAt
  <2>3. D = {}
    BY <1>1, <1>3
  <2> QED BY <2>2, <2>3 DEF MemberOf, D
<1> DEFINE serialized == SaidOf(entry.id)
           index == inscriptionIndex(SaidOf(entry.index))
           packed == SaidOf(gallery.packed)
           txidLE == SubSeq(packed[2], TxidBytes * (i - 1) + 1, TxidBytes * i)
<1>4. ASSUME ~ (entry.lists > 0)
      PROVE  m = IF serialized[1] = "bytes" THEN parseInscriptionIdValue(serialized[2])
                 ELSE IF packed[1] # "bytes" THEN <<>>
                 ELSE IF Len(packed[2]) < TxidBytes * i \/ index = <<>> THEN <<>>
                 ELSE <<InscriptionId(txidLE, index[1])>>
  <2>1. /\ v[1] = "map" /\ atKey(v[2], ITEM_KEY_ID) = serialized
        /\ atKey(v[2], ITEM_KEY_INDEX) = SaidOf(entry.index)
    BY <1>4 DEF EntrySays
  <2> DEFINE a == atKey(v[2], ITEM_KEY_ID)
             c == inscriptionIndex(atKey(v[2], ITEM_KEY_INDEX))
  <2>2. m = IF v[1] # "map" THEN <<>>
            ELSE IF a[1] = "bytes" THEN parseInscriptionIdValue(a[2])
            ELSE IF packed[1] # "bytes" THEN <<>>
            ELSE IF Len(packed[2]) < TxidBytes * i \/ c = <<>> THEN <<>>
            ELSE <<InscriptionId(txidLE, c[1])>>
    BY Zenon DEF MemberAt
  <2>3. a = serialized /\ c = index
    BY <2>1
  <2> HIDE DEF m, a, c, serialized, index, packed, txidLE
  <2> QED BY <2>1, <2>2, <2>3
<1> HIDE DEF m
<1>5. CASE ~ (entry.lists > 0) /\ Inline(entry)
  <2>1. PICK value \in Seq(Octets) : entry.id = <<Token(2, value)>>
    <3>1. PICK major \in {2, 3} : \E argument \in Seq(Symbols) :
            entry.id = <<Token(major, argument)>> /\ (major = 2 => argument \in Seq(Octets))
      BY <1>2, <1>5 DEF IdFacts, Inline
    <3>2. major = 2
      BY <1>5, <3>1 DEF Inline, Token
    <3> QED BY <3>1, <3>2
  <2>2. entry.id[1][3] = value /\ serialized = <<"bytes", value>>
    BY <2>1 DEF SaidOf, ValueOf, Token
  <2>3. m = parseInscriptionIdValue(value)
    <3> HIDE DEF serialized, packed
    <3> QED BY <1>4, <1>5, <2>2
  <2>4. \A txid, n : NamesId(entry, i, txid, n) <=> value \in IdForms(txid, n)
    BY <1>5, <2>2 DEF NamesId
  <2>5. \A txid \in TxidOctets : \A n : value \in IdForms(txid, n) => m = <<InscriptionId(txid, n)>>
    BY <2>3, IdOfForm
  <2>6. \A x : x \in D => m = <<x>>
    BY <1>1, <2>4, <2>5
  <2>7. m # <<>> => \E x : x \in D
    <3> SUFFICES ASSUME m # <<>> PROVE \E x : x \in D
      OBVIOUS
    <3>1. PICK txid \in TxidOctets, n \in 0 .. MAX_INSCRIPTION_INDEX : value \in IdForms(txid, n)
      BY <2>3, FormOfId
    <3>2. Named(InscriptionId(txid, n))
      BY <2>4, <3>1
    <3> HIDE DEF Named
    <3> QED BY <1>1, <1>5, <3>2
  <2>8. CASE D = {}
    BY <2>7, <2>8 DEF MemberOf, D, m
  <2>9. CASE D # {}
    <3>1. PICK x : x \in D
      BY <2>9
    <3>2. m = <<x>>
      BY <2>6, <3>1
    <3>3. \A y \in D : y = x
      <4> TAKE y \in D
      <4>1. m = <<y>>
        BY <2>6
      <4>2. <<x>> = <<y>>
        BY <3>2, <4>1
      <4> QED BY <4>2
    <3>4. D = {x}
      BY <3>1, <3>3
    <3> QED BY <3>2, <3>4 DEF MemberOf, D, m
  <2> QED BY <2>8, <2>9
<1>6. CASE ~ (entry.lists > 0) /\ ~ Inline(entry)
  <2>1. serialized[1] # "bytes"
    <3>1. CASE entry.id = <<>>
      BY <3>1 DEF SaidOf, undefined
    <3>2. ASSUME NEW major \in {2, 3}, NEW argument, entry.id = <<Token(major, argument)>>
          PROVE  serialized[1] # "bytes"
      <4>1. major = 3
        BY <1>6, <3>2 DEF Inline, Token
      <4> QED BY <3>2, <4>1 DEF SaidOf, ValueOf, Token
    <3> QED BY <1>2, <3>1, <3>2 DEF IdFacts
  <2> HIDE DEF serialized
  <2>2. \/ index = <<>> /\ \A n \in 0 .. MAX_INSCRIPTION_INDEX : IndexToken(entry) \notin NumberForms(n)
        \/ \E k \in 0 .. MAX_INSCRIPTION_INDEX :
             index = <<k>> /\ \A n \in 0 .. MAX_INSCRIPTION_INDEX : IndexToken(entry) \in NumberForms(n) <=> n = k
    BY <1>2, IndexIsDeclared
  <2> HIDE DEF index
  <2>3. \A txid, n : NamesId(entry, i, txid, n) <=> IndexToken(entry) \in NumberForms(n) /\ ByPlace(i, txid)
    BY <1>6 DEF NamesId
  <2>4. CASE gallery.packed = <<>>
    <3>1. Packed = {} /\ packed = <<"simple", 23>>
      BY <2>4 DEF Packed, SaidOf, undefined
    <3>2. packed[1] # "bytes"
      BY <3>1
    <3> HIDE DEF packed
    <3>3. m = <<>>
      BY <1>4, <1>6, <2>1, <3>2
    <3>4. \A txid : ~ ByPlace(i, txid)
      BY <3>1 DEF ByPlace
    <3>5. D = {}
      BY <1>1, <2>3, <3>4
    <3> QED BY <3>3, <3>5 DEF MemberOf, D, m
  <2>5. ASSUME NEW p \in Seq(Octets), gallery.packed = <<Token(2, p)>>
        PROVE  MemberOf(m, D)
    <3>1. packed = <<"bytes", p>>
      BY <2>5 DEF SaidOf, ValueOf, Token
    <3>2. Packed = {p}
      BY <2>5 DEF Packed, Token
    <3>3. packed[1] = "bytes" /\ packed[2] = p
      BY <3>1
    <3> HIDE DEF packed
    <3> DEFINE b == TxidBytes * i
    <3>4. \A txid : ByPlace(i, txid) <=> /\ b <= Len(p)
                                         /\ SubSeq(p, 1, b) = SubSeq(p, 1, TxidBytes * (i - 1)) \o txid
      BY <3>2 DEF ByPlace
    <3>5. m = IF Len(p) < b \/ index = <<>> THEN <<>> ELSE <<InscriptionId(txidLE, index[1])>>
      BY <1>4, <1>6, <2>1, <3>3
    <3>6. b \in Nat /\ Len(p) \in Nat
      BY LenProperties, GalleryAssumption
    <3>7. CASE Len(p) < b
      <4>1. ~ (b <= Len(p))
        BY <3>6, <3>7
      <4>2. D = {}
        BY <1>1, <2>3, <3>4, <4>1
      <4>3. m = <<>>
        BY <3>5, <3>7
      <4> QED BY <4>2, <4>3 DEF MemberOf
    <3>8. CASE ~ (Len(p) < b) /\ index = <<>>
      <4>1. \A n \in 0 .. MAX_INSCRIPTION_INDEX : IndexToken(entry) \notin NumberForms(n)
        BY <2>2, <3>8
      <4>2. D = {}
        BY <1>1, <2>3, <4>1
      <4>3. m = <<>>
        BY <3>5, <3>8
      <4> QED BY <4>2, <4>3 DEF MemberOf
    <3>9. CASE ~ (Len(p) < b) /\ index # <<>>
      <4>1. PICK k \in 0 .. MAX_INSCRIPTION_INDEX :
              index = <<k>> /\ \A n \in 0 .. MAX_INSCRIPTION_INDEX : IndexToken(entry) \in NumberForms(n) <=> n = k
        BY <2>2, <3>9
      <4>2. b <= Len(p)
        BY <3>6, <3>9
      <4> DEFINE t == SubSeq(p, TxidBytes * (i - 1) + 1, TxidBytes * i)
      <4>3. /\ t \in TxidOctets
            /\ \A txid \in TxidOctets : ByPlace(i, txid) <=> txid = t
        BY <3>4, <4>2, PackedTxid
      <4>4. m = <<InscriptionId(t, k)>>
        BY <3>3, <3>5, <3>9, <4>1
      <4> HIDE DEF t
      <4>5. \A x : Named(x) <=> x = InscriptionId(t, k)
        BY <2>3, <4>1, <4>3
      <4>6. D = {InscriptionId(t, k)}
        <5> HIDE DEF Named
        <5> QED BY <1>1, <1>6, <4>5
      <4> QED BY <4>4, <4>6 DEF MemberOf
    <3> QED BY <3>7, <3>8, <3>9
  <2>6. gallery.packed = <<>> \/ \E p \in Seq(Octets) : gallery.packed = <<Token(2, p)>>
    <3>1. gallery.packed \in {<<>>} \cup {<<Token(2, txids)>> : txids \in TxidLists}
      BY DEF GalleryTyped
    <3>2. TxidLists \subseteq Seq(Octets)
      BY GalleryAssumption DEF Octets
    <3> QED BY <3>1, <3>2
  <2>7. CASE gallery.packed # <<>>
    <3>1. MemberOf(m, D)
      <4> HIDE DEF packed
      <4> QED BY <2>5, <2>6, <2>7
    <3> QED BY <3>1 DEF m, D
  <2> QED BY <2>4, <2>7
<1> QED BY <1>3, <1>5, <1>6

(* ----------------------- the maps that are written --------------------- *)

\* The last value of a key, which is undefined where there is none.
LastAt(m, keys, values, key, x) ==
  \/ x = undefined /\ \A j \in 1 .. m : keys[j] # key
  \/ \E j \in 1 .. m : keys[j] = key /\ values[j] = x /\ \A i \in j + 1 .. m : keys[i] # key

\* The words of a map that is read as good as they are, with this at the two keys of the code.
MapSays(s, depth, good, x0, x2) ==
  \E m, keys, flags, values :
    /\ MapWords(m, s, keys, flags, values, depth)
    /\ good => \A j \in 1 .. m : IsRead(s[2 * j], depth, values[j])
    /\ ~ good => \E j \in 1 .. m : IsNoItem(s[2 * j], depth)
    /\ LastAt(m, keys, values, 0, x0)
    /\ LastAt(m, keys, values, 2, x2)

\* No words say that both keys are undefined.
LEMMA NoWords ==
  ASSUME NEW depth
  PROVE  MapSays(<<>>, depth, TRUE, undefined, undefined)
<1> DEFINE n == <<>>
<1>1. n \in Seq(Seq(Heads)) /\ Len(n) = 2 * 0
  OBVIOUS
<1>2. \A j \in 1 .. 0 : FALSE
  OBVIOUS
<1> HIDE DEF n
<1>3. MapWords(0, n, n, n, n, depth)
  BY <1>1, <1>2 DEF MapWords
<1>4. LastAt(0, n, n, 0, undefined) /\ LastAt(0, n, n, 2, undefined)
  BY <1>2 DEF LastAt
<1>5. MapSays(n, depth, TRUE, undefined, undefined)
  BY <1>2, <1>3, <1>4 DEF MapSays
<1> QED BY <1>5 DEF n

\* The last value of a key is the one that is added for it, or the one before.
LEMMA LastExtends ==
  ASSUME NEW m \in Nat, NEW keys, NEW values, NEW key, NEW x, LastAt(m, keys, values, key, x),
         NEW more, NEW given, \A j \in 1 .. m : more[j] = keys[j] /\ given[j] = values[j]
  PROVE  LastAt(m + 1, more, given, key, IF more[m + 1] = key THEN given[m + 1] ELSE x)
<1>1. CASE more[m + 1] = key
  <2>1. m + 1 \in 1 .. m + 1 /\ \A i \in m + 1 + 1 .. m + 1 : FALSE
    OBVIOUS
  <2> QED BY <1>1, <2>1 DEF LastAt
<1>2. CASE more[m + 1] # key /\ x = undefined /\ \A j \in 1 .. m : keys[j] # key
  <2>1. \A j \in 1 .. m + 1 : j \in 1 .. m \/ j = m + 1
    OBVIOUS
  <2>2. \A j \in 1 .. m + 1 : more[j] # key
    BY <1>2, <2>1
  <2> QED BY <1>2, <2>2 DEF LastAt
<1>3. ASSUME more[m + 1] # key, NEW j \in 1 .. m, keys[j] = key, values[j] = x,
             \A i \in j + 1 .. m : keys[i] # key
      PROVE  LastAt(m + 1, more, given, key, x)
  <2>1. j \in 1 .. m + 1 /\ more[j] = key /\ given[j] = x
    BY <1>3
  <2>2. \A i \in j + 1 .. m + 1 : more[i] # key
    <3> TAKE i \in j + 1 .. m + 1
    <3>1. CASE i = m + 1
      BY <1>3, <3>1
    <3>2. CASE i # m + 1
      <4>1. i \in j + 1 .. m /\ i \in 1 .. m
        BY <3>2
      <4> QED BY <1>3, <4>1
    <3> QED BY <3>1, <3>2
  <2> QED BY <2>1, <2>2 DEF LastAt
<1> QED BY <1>1, <1>2, <1>3 DEF LastAt

Put(key, v, at, x) == IF key = at THEN v ELSE x

WordAdds(w, v, depth, good, both) ==
  /\ IsWord(w) /\ both \in BOOLEAN
  /\ IsRead(w, depth, v) \/ IsNoItem(w, depth)
  /\ both => good /\ IsRead(w, depth, v)
  /\ ~ both => ~ good \/ IsNoItem(w, depth)

\* A key and a value are written behind the others.
LEMMA WordsExtend ==
  ASSUME NEW depth \in Nat, NEW s, NEW good \in BOOLEAN, NEW x0, NEW x2, MapSays(s, depth, good, x0, x2),
         NEW key \in {0, 2}, NEW flag \in BOOLEAN, NEW w, NEW v, NEW both,
         WordAdds(w, v, depth, good, both)
  PROVE  MapSays(s \o <<Key(key, flag), w>>, depth, both, Put(key, v, 0, x0), Put(key, v, 2, x2))
<1>0. /\ IsWord(w) /\ both \in BOOLEAN
      /\ IsRead(w, depth, v) \/ IsNoItem(w, depth)
      /\ both => good /\ IsRead(w, depth, v)
      /\ ~ both => ~ good \/ IsNoItem(w, depth)
  BY DEF WordAdds
<1> DEFINE y0 == Put(key, v, 0, x0)
           y2 == Put(key, v, 2, x2)
<1>18. y0 = (IF key = 0 THEN v ELSE x0) /\ y2 = (IF key = 2 THEN v ELSE x2)
  BY DEF Put
<1> HIDE DEF y0, y2
<1>1. PICK m, keys, flags, values :
        /\ MapWords(m, s, keys, flags, values, depth)
        /\ good => \A j \in 1 .. m : IsRead(s[2 * j], depth, values[j])
        /\ ~ good => \E j \in 1 .. m : IsNoItem(s[2 * j], depth)
        /\ LastAt(m, keys, values, 0, x0)
        /\ LastAt(m, keys, values, 2, x2)
  BY DEF MapSays
<1>2. m \in Nat /\ s \in Seq(Seq(Heads)) /\ Len(s) = 2 * m
  BY <1>1 DEF MapWords
<1> DEFINE k == Key(key, flag)
           t == <<k, w>>
           more == s \o t
           keys2 == [j \in 1 .. m + 1 |-> IF j = m + 1 THEN key ELSE keys[j]]
           flags2 == [j \in 1 .. m + 1 |-> IF j = m + 1 THEN flag ELSE flags[j]]
           values2 == [j \in 1 .. m + 1 |-> IF j = m + 1 THEN v ELSE values[j]]
<1>3. /\ keys2[m + 1] = key /\ flags2[m + 1] = flag /\ values2[m + 1] = v
      /\ \A j \in 1 .. m : keys2[j] = keys[j] /\ flags2[j] = flags[j] /\ values2[j] = values[j]
  BY <1>2
<1> HIDE DEF keys2, flags2, values2
<1>4. k \in Seq(Heads) /\ w \in Seq(Heads)
  <2>1. IsWord(k) /\ IsWord(w)
    <3>1. 0 \in Nat /\ 0 <= MaxDepth /\ key \in Nat /\ flag \in BOOLEAN
      BY GalleryAssumption
    <3>2. IsWord(Key(key, flag))
      BY <3>1, KeyIsRead
    <3> QED BY <1>0, <3>2 DEF k
  <2> QED BY <2>1 DEF IsWord
<1> HIDE DEF k
<1>5. t \in Seq(Seq(Heads)) /\ Len(t) = 2 /\ t[1] = k /\ t[2] = w
  BY <1>4
<1> HIDE DEF t
<1>6. /\ more \in Seq(Seq(Heads)) /\ Len(more) = 2 * m + 2
      /\ \A i \in 1 .. 2 * m : more[i] = s[i]
      /\ more[2 * m + 1] = k /\ more[2 * m + 2] = w
  <2>1. /\ s \o t \in Seq(Seq(Heads)) /\ Len(s \o t) = Len(s) + Len(t)
        /\ \A i \in 1 .. Len(s) : (s \o t)[i] = s[i]
        /\ \A i \in 1 .. Len(t) : (s \o t)[Len(s) + i] = t[i]
    <3>1. s \in Seq(Seq(Heads)) /\ t \in Seq(Seq(Heads))
      BY <1>2, <1>5
    <3> DEFINE X == Seq(Heads)
    <3> HIDE DEF X
    <3>2. s \in Seq(X) /\ t \in Seq(X)
      BY <3>1 DEF X
    <3>3. /\ s \o t \in Seq(X) /\ Len(s \o t) = Len(s) + Len(t)
          /\ \A i \in 1 .. Len(s) : (s \o t)[i] = s[i]
          /\ \A i \in 1 .. Len(t) : (s \o t)[Len(s) + i] = t[i]
      BY <3>2, ConcatPlaces
    <3> QED BY <3>3 DEF X
  <2>2. 1 \in 1 .. Len(t) /\ 2 \in 1 .. Len(t)
    BY <1>5
  <2> QED BY <1>2, <1>5, <2>1, <2>2
<1> HIDE DEF more
<1>7. \A j \in 1 .. m + 1 : j \in 1 .. m \/ j = m + 1
  BY <1>2
<1>8. \A j \in 1 .. m : 2 * j \in 1 .. 2 * m /\ 2 * j - 1 \in 1 .. 2 * m
  BY <1>2
<1>9. 2 * (m + 1) = 2 * m + 2 /\ 2 * (m + 1) - 1 = 2 * m + 1 /\ m + 1 \in 1 .. m + 1 /\ m + 1 \in Nat
  BY <1>2
<1>10. MapWords(m + 1, more, keys2, flags2, values2, depth)
  <2>1. ASSUME NEW j \in 1 .. m + 1
        PROVE  /\ keys2[j] \in Nat /\ flags2[j] \in BOOLEAN
               /\ more[2 * j - 1] = Key(keys2[j], flags2[j])
               /\ IsWord(more[2 * j])
               /\ IsRead(more[2 * j], depth, values2[j]) \/ IsNoItem(more[2 * j], depth)
    <3>1. CASE j \in 1 .. m
      <4>1. more[2 * j - 1] = s[2 * j - 1] /\ more[2 * j] = s[2 * j]
        BY <1>6, <1>8, <3>1
      <4>2. keys2[j] = keys[j] /\ flags2[j] = flags[j] /\ values2[j] = values[j]
        BY <1>3, <3>1
      <4>3. /\ keys[j] \in Nat /\ flags[j] \in BOOLEAN
            /\ s[2 * j - 1] = Key(keys[j], flags[j])
            /\ IsWord(s[2 * j])
            /\ IsRead(s[2 * j], depth, values[j]) \/ IsNoItem(s[2 * j], depth)
        BY <1>1, <3>1 DEF MapWords
      <4> QED BY <4>1, <4>2, <4>3
    <3>2. CASE j = m + 1
      <4>1. more[2 * j - 1] = k /\ more[2 * j] = w
        BY <1>6, <1>9, <3>2
      <4>2. keys2[j] = key /\ flags2[j] = flag /\ values2[j] = v
        BY <1>3, <3>2
      <4>3. key \in Nat /\ (IsRead(w, depth, v) \/ IsNoItem(w, depth))
        BY <1>0
      <4> QED BY <1>0, <4>1, <4>2, <4>3 DEF k
    <3> QED BY <1>7, <3>1, <3>2
  <2>2. Len(more) = 2 * (m + 1)
    BY <1>6, <1>9
  <2> QED BY <1>6, <1>9, <2>1, <2>2 DEF MapWords
<1>11. ASSUME both, NEW j \in 1 .. m + 1 PROVE IsRead(more[2 * j], depth, values2[j])
  <2>1. CASE j \in 1 .. m
    <3>1. more[2 * j] = s[2 * j] /\ values2[j] = values[j]
      BY <1>3, <1>6, <1>8, <2>1
    <3> QED BY <1>0, <1>1, <1>11, <2>1, <3>1
  <2>2. CASE j = m + 1
    <3>1. more[2 * j] = w /\ values2[j] = v
      BY <1>3, <1>6, <1>9, <2>2
    <3> QED BY <1>0, <1>11, <3>1
  <2> QED BY <1>7, <2>1, <2>2
<1>12. ASSUME ~ both PROVE \E j \in 1 .. m + 1 : IsNoItem(more[2 * j], depth)
  <2>1. CASE ~ good
    <3>1. PICK j \in 1 .. m : IsNoItem(s[2 * j], depth)
      BY <1>1, <2>1
    <3>2. more[2 * j] = s[2 * j] /\ j \in 1 .. m + 1
      BY <1>2, <1>6, <1>8
    <3> QED BY <3>1, <3>2
  <2>2. CASE IsNoItem(w, depth)
    <3>1. more[2 * (m + 1)] = w
      BY <1>6, <1>9
    <3> QED BY <1>9, <2>2, <3>1
  <2> QED BY <1>0, <1>12, <2>1, <2>2
<1>13. /\ LastAt(m + 1, keys2, values2, 0, IF keys2[m + 1] = 0 THEN values2[m + 1] ELSE x0)
       /\ LastAt(m + 1, keys2, values2, 2, IF keys2[m + 1] = 2 THEN values2[m + 1] ELSE x2)
  <2>1. /\ LastAt(m, keys, values, 0, x0) /\ LastAt(m, keys, values, 2, x2) /\ m \in Nat
        /\ \A j \in 1 .. m : keys2[j] = keys[j] /\ values2[j] = values[j]
    BY <1>1, <1>2, <1>3
  <2>2. LastAt(m + 1, keys2, values2, 0, IF keys2[m + 1] = 0 THEN values2[m + 1] ELSE x0)
    BY <2>1, LastExtends
  <2>3. LastAt(m + 1, keys2, values2, 2, IF keys2[m + 1] = 2 THEN values2[m + 1] ELSE x2)
    BY <2>1, LastExtends
  <2> QED BY <2>2, <2>3
<1>14. /\ LastAt(m + 1, keys2, values2, 0, IF key = 0 THEN v ELSE x0)
       /\ LastAt(m + 1, keys2, values2, 2, IF key = 2 THEN v ELSE x2)
  BY <1>3, <1>13
<1>15. both => \A j \in 1 .. m + 1 : IsRead(more[2 * j], depth, values2[j])
  BY <1>11
<1>16. ~ both => \E j \in 1 .. m + 1 : IsNoItem(more[2 * j], depth)
  BY <1>12
<1>17. MapSays(more, depth, both, y0, y2)
  <2>1. LastAt(m + 1, keys2, values2, 0, y0) /\ LastAt(m + 1, keys2, values2, 2, y2)
    BY <1>14, <1>18
  <2> QED BY <1>10, <1>15, <1>16, <2>1 DEF MapSays
<1> QED BY <1>17 DEF more, t, k, y0, y2

\* A value that may be written: bytes, a text, a number or what is simple.
IsValue(value) ==
  \/ value = <<>>
  \/ \E major \in {0, 1, 2, 3, 7} : \E argument \in Seq(Symbols) :
       value = <<Token(major, argument)>> /\ (major = 7 => argument # <<>>)

PutPair(key, value, at, x) == IF key = at /\ value # <<>> THEN SaidOf(value) ELSE x

\* A pair adds its value at its key, and one without a value adds nothing.
LEMMA PairExtends ==
  ASSUME NEW depth \in Nat, depth + 1 <= MaxDepth, NEW s, NEW good \in BOOLEAN, NEW x0, NEW x2,
         MapSays(s, depth, good, x0, x2), NEW key \in {0, 2}, NEW flag \in BOOLEAN,
         NEW value, IsValue(value)
  PROVE  MapSays(s \o Pair(key, value, flag), depth, good,
                 PutPair(key, value, 0, x0), PutPair(key, value, 2, x2))
<1>1. CASE value = <<>>
  <2>1. s \in Seq(Seq(Heads))
    BY DEF MapSays, MapWords
  <2>2. Pair(key, value, flag) = <<>>
    BY <1>1 DEF Pair
  <2>3. s \o <<>> = s
    BY <2>1
  <2>4. PutPair(key, value, 0, x0) = x0 /\ PutPair(key, value, 2, x2) = x2
    BY <1>1 DEF PutPair
  <2> QED BY <2>2, <2>3, <2>4
<1>2. ASSUME NEW major \in {0, 1, 2, 3, 7}, NEW argument \in Seq(Symbols),
             value = <<Token(major, argument)>>, major = 7 => argument # <<>>
      PROVE  MapSays(s \o Pair(key, value, flag), depth, good,
                     PutPair(key, value, 0, x0), PutPair(key, value, 2, x2))
  <2> DEFINE w == Spelled(Token(major, argument), flag)
             v == ValueOf(major, argument)
  <2>1. Pair(key, value, flag) = <<Key(key, flag), w>> /\ SaidOf(value) = v
    <3>1. Token(major, argument)[1] = major /\ Token(major, argument)[3] = argument
      BY DEF Token
    <3>2. SaidOf(value) = v
      BY <1>2, <3>1 DEF SaidOf
    <3>3. value # <<>> /\ value[1] = Token(major, argument)
      BY <1>2
    <3> QED BY <3>2, <3>3 DEF Pair
  <2>2. IsWord(w) /\ IsRead(w, depth, v)
    BY <1>2, SpelledIsRead
  <2> HIDE DEF w, v
  <2>3. WordAdds(w, v, depth, good, good)
    BY <2>2 DEF WordAdds
  <2>4. MapSays(s \o <<Key(key, flag), w>>, depth, good, Put(key, v, 0, x0), Put(key, v, 2, x2))
    BY <2>3, WordsExtend
  <2>5. /\ Put(key, v, 0, x0) = PutPair(key, value, 0, x0)
        /\ Put(key, v, 2, x2) = PutPair(key, value, 2, x2)
    BY <1>2, <2>1 DEF Put, PutPair
  <2> QED BY <2>1, <2>4, <2>5
<1>3. CASE value # <<>>
  <2>1. PICK major \in {0, 1, 2, 3, 7}, argument \in Seq(Symbols) :
          value = <<Token(major, argument)>> /\ (major = 7 => argument # <<>>)
    BY <1>3 DEF IsValue
  <2> QED BY <1>2, <1>3, <2>1
<1> QED BY <1>1, <1>3

MapReads(w, depth, x0, x2) ==
  \E map : IsRead(w, depth, <<"map", map>>) /\ atKey(map, 0) = x0 /\ atKey(map, 2) = x2

\* The map is read with these at its keys, and not with a key behind it that has no value.
LEMMA MapSaid ==
  ASSUME NEW depth \in Nat, depth + 1 <= MaxDepth, NEW s, NEW good \in BOOLEAN, NEW x0, NEW x2,
         MapSays(s, depth + 1, good, x0, x2), NEW indefinite \in BOOLEAN
  PROVE  LET w == Container(5, s, indefinite)
         IN  /\ IsWord(w) /\ s \in Seq(Seq(Heads))
             /\ ~ good => IsNoItem(w, depth)
             /\ good => MapReads(w, depth, x0, x2)
             /\ IsNoItem(Container(5, Append(s, Key(0, TRUE)), TRUE), depth)
<1> DEFINE w == Container(5, s, indefinite)
<1>1. PICK m, keys, flags, values :
        /\ MapWords(m, s, keys, flags, values, depth + 1)
        /\ good => \A j \in 1 .. m : IsRead(s[2 * j], depth + 1, values[j])
        /\ ~ good => \E j \in 1 .. m : IsNoItem(s[2 * j], depth + 1)
        /\ LastAt(m, keys, values, 0, x0)
        /\ LastAt(m, keys, values, 2, x2)
  BY DEF MapSays
<1>2. /\ IsWord(w)
      /\ (\E j \in 1 .. m : IsNoItem(s[2 * j], depth + 1)) => IsNoItem(w, depth)
      /\ (\A j \in 1 .. m : IsRead(s[2 * j], depth + 1, values[j])) =>
           \E map : IsRead(w, depth, <<"map", map>>) /\ MapOf(map, m, keys, values)
  BY <1>1, MapIsRead
<1>3. IsNoItem(Container(5, Append(s, Key(0, TRUE)), TRUE), depth)
  BY <1>1, HalfMapIsNoItem
<1>4. s \in Seq(Seq(Heads))
  BY <1>1 DEF MapWords
<1> HIDE DEF w
<1>5. ASSUME NEW map, MapOf(map, m, keys, values), NEW key \in Nat, NEW x,
             LastAt(m, keys, values, key, x)
      PROVE  atKey(map, key) = x
  BY <1>5 DEF MapOf, LastAt
<1>6. ASSUME good PROVE MapReads(w, depth, x0, x2)
  <2>1. PICK map : IsRead(w, depth, <<"map", map>>) /\ MapOf(map, m, keys, values)
    BY <1>1, <1>2, <1>6
  <2>2. 0 \in Nat /\ 2 \in Nat
    OBVIOUS
  <2>3. atKey(map, 0) = x0 /\ atKey(map, 2) = x2
    BY <1>1, <1>5, <2>1, <2>2
  <2> QED BY <2>1, <2>3 DEF MapReads
<1> QED BY <1>1, <1>2, <1>3, <1>4, <1>6 DEF w

(* --------------------------- members in order -------------------------- *)

\* Of at most one member there is one sequence.
LEMMA MemberAsSequence ==
  ASSUME NEW m, NEW S, MemberOf(m, S)
  PROVE  SetToSeq(S) = m
<1>1. CASE m = <<>> /\ S = {}
  <2> DEFINE F == [1 .. Cardinality(S) -> S]
  <2>1. Cardinality(S) = 0
    BY <1>1, FS_EmptySet
  <2>2. \A f : f \in F <=> f = <<>>
    <3>1. <<>> \in F
      <4>1. <<>> \in Seq({}) /\ Len(<<>>) = 0
        OBVIOUS
      <4>2. \A s \in Seq({}) : s \in [1 .. Len(s) -> {}]
        BY LenProperties
      <4>3. <<>> \in [1 .. 0 -> {}]
        BY <4>1, <4>2
      <4> QED BY <1>1, <2>1, <4>3
    <3>2. ASSUME NEW f \in F PROVE f = <<>>
      <4>1. f \in [1 .. 0 -> {}]
        BY <1>1, <2>1, <3>2
      <4>2. f \in Seq({}) /\ Len(f) = 0
        BY <4>1
      <4> QED BY <4>2, EmptySeq
    <3> QED BY <3>1, <3>2
  <2>3. \A f \in F : IsInjective(f)
    BY <2>1 DEF IsInjective
  <2> HIDE DEF F
  <2>4. (CHOOSE f \in F : IsInjective(f)) \in F
    BY <2>2, <2>3
  <2>5. SetToSeq(S) = <<>>
    BY <2>2, <2>4 DEF SetToSeq, F
  <2> QED BY <1>1, <2>5
<1>2. ASSUME NEW x, m = <<x>>, S = {x} PROVE SetToSeq(S) = m
  <2> DEFINE F == [1 .. Cardinality(S) -> S]
  <2>1. Cardinality(S) = 1
    BY <1>2, FS_Singleton
  <2>2. \A f : f \in F <=> f = <<x>>
    BY <1>2, <2>1
  <2>3. \A f \in F : IsInjective(f)
    BY <2>1 DEF IsInjective
  <2> HIDE DEF F
  <2>4. (CHOOSE f \in F : IsInjective(f)) \in F
    BY <2>2, <2>3
  <2>5. SetToSeq(S) = <<x>>
    BY <2>2, <2>4 DEF SetToSeq, F
  <2> QED BY <1>2, <2>5
<1> QED BY <1>1, <1>2 DEF MemberOf

\* What gives no member is what is missing of the members.
LEMMA MissingAreCounted ==
  ASSUME NEW N \in Nat, NEW seqs, seqs = [i \in 1 .. N |-> seqs[i]],
         \A i \in 1 .. N : seqs[i] = <<>> \/ \E x : seqs[i] = <<x>>
  PROVE  Cardinality({i \in DOMAIN seqs : seqs[i] = <<>>}) = Len(seqs) - Len(FlattenSeq(seqs))
<1> DEFINE X == {seqs[i][1] : i \in 1 .. N}
           Empty(k) == {i \in 1 .. k : seqs[i] = <<>>}
<1>1. DOMAIN seqs = 1 .. N
  <2> DEFINE f == [i \in 1 .. N |-> seqs[i]]
  <2>1. DOMAIN f = 1 .. N /\ seqs = f
    OBVIOUS
  <2> HIDE DEF f
  <2> QED BY <2>1
<1>2. \A i \in 1 .. N : seqs[i] \in Seq(X) /\ Len(seqs[i]) = IF seqs[i] = <<>> THEN 0 ELSE 1
  <2> TAKE i \in 1 .. N
  <2>1. CASE seqs[i] = <<>>
    BY <2>1
  <2>2. ASSUME NEW x, seqs[i] = <<x>>
        PROVE  seqs[i] \in Seq(X) /\ Len(seqs[i]) = IF seqs[i] = <<>> THEN 0 ELSE 1
    <3>1. x \in X
      BY <2>2
    <3> HIDE DEF X
    <3>2. <<x>> \in Seq(X) /\ Len(<<x>>) = 1 /\ <<x>> # <<>>
      BY <3>1
    <3> QED BY <2>2, <3>2
  <2> QED BY <2>1, <2>2
<1> HIDE DEF X
<1>3. seqs \in Seq(Seq(X)) /\ Len(seqs) = N
  <2> DEFINE f == [i \in 1 .. N |-> seqs[i]]
  <2>1. f \in Seq(Seq(X)) /\ Len(f) = N
    BY <1>2
  <2>2. seqs = f
    OBVIOUS
  <2> HIDE DEF f
  <2> QED BY <2>1, <2>2
<1>4. PICK p : PlacesOf(p, seqs)
  BY <1>3, FlattenPlaces
<1> DEFINE flat == FlattenSeq(seqs)
<1>5. /\ p \in [0 .. N -> Nat] /\ p[0] = 0 /\ Len(flat) = p[N]
      /\ \A j \in 1 .. N : p[j] = p[j - 1] + Len(seqs[j])
  BY <1>3, <1>4 DEF PlacesOf
<1> HIDE DEF flat
<1> DEFINE S == {k \in Nat : k <= N => /\ IsFiniteSet(Empty(k)) /\ Cardinality(Empty(k)) \in Nat
                                       /\ Cardinality(Empty(k)) + p[k] = k}
<1>6. 0 \in S
  <2>1. Empty(0) = {}
    OBVIOUS
  <2> HIDE DEF Empty
  <2> QED BY <1>5, <2>1, FS_EmptySet
<1>7. ASSUME NEW k \in Nat, k \in S PROVE k + 1 \in S
  <2> SUFFICES ASSUME k + 1 <= N
               PROVE  /\ IsFiniteSet(Empty(k + 1)) /\ Cardinality(Empty(k + 1)) \in Nat
                      /\ Cardinality(Empty(k + 1)) + p[k + 1] = k + 1
    OBVIOUS
  <2>1. k <= N /\ k \in 0 .. N /\ k + 1 \in 1 .. N /\ k + 1 - 1 = k
    OBVIOUS
  <2>2. IsFiniteSet(Empty(k)) /\ Cardinality(Empty(k)) \in Nat /\ Cardinality(Empty(k)) + p[k] = k
    BY <1>7, <2>1
  <2>3. p[k + 1] = p[k] + Len(seqs[k + 1]) /\ p[k] \in Nat
    BY <1>5, <2>1
  <2>4. CASE seqs[k + 1] = <<>>
    <3>1. Empty(k + 1) = Empty(k) \cup {k + 1}
      BY <2>4
    <3>2. k + 1 \notin Empty(k)
      OBVIOUS
    <3>3. Len(seqs[k + 1]) = 0
      BY <1>2, <2>1, <2>4
    <3> HIDE DEF Empty
    <3>4. IsFiniteSet(Empty(k + 1)) /\ Cardinality(Empty(k + 1)) = Cardinality(Empty(k)) + 1
      BY <2>2, <3>1, <3>2, FS_AddElement
    <3> QED BY <2>2, <2>3, <3>3, <3>4
  <2>5. CASE seqs[k + 1] # <<>>
    <3>1. Empty(k + 1) = Empty(k)
      BY <2>5
    <3>2. Len(seqs[k + 1]) = 1
      BY <1>2, <2>1, <2>5
    <3>3. Cardinality(Empty(k + 1)) = Cardinality(Empty(k)) /\ IsFiniteSet(Empty(k + 1))
      <4> HIDE DEF Empty
      <4> QED BY <2>2, <3>1
    <3> DEFINE c == Cardinality(Empty(k))
               d == Cardinality(Empty(k + 1))
               q == p[k]
               more == p[k + 1]
    <3>4. c \in Nat /\ q \in Nat /\ c + q = k /\ more = q + 1 /\ d = c
      BY <2>2, <2>3, <3>2, <3>3
    <3> HIDE DEF c, d, q, more
    <3>5. d \in Nat /\ d + more = k + 1
      BY <3>4
    <3> QED BY <3>3, <3>5 DEF d, more
  <2> QED BY <2>4, <2>5
<1>8. N \in S
  <2> HIDE DEF S
  <2> QED BY <1>6, <1>7, InductionBySet
<1>9. Cardinality(Empty(N)) \in Nat /\ Cardinality(Empty(N)) + p[N] = N /\ p[N] \in Nat
  BY <1>5, <1>8
<1>10. {i \in DOMAIN seqs : seqs[i] = <<>>} = Empty(N)
  BY <1>1
<1> HIDE DEF Empty
<1>11. Cardinality(Empty(N)) = N - p[N]
  BY <1>9
<1> QED BY <1>3, <1>5, <1>10, <1>11 DEF flat

(* ------------------------- the field that is written ------------------- *)

\* The ids, the indices and the packed txids are values that may be written.
LEMMA ValuesWritten ==
  /\ \A entry \in Entries : IsValue(entry.id) /\ IsValue(entry.index)
  /\ GalleryTyped => IsValue(gallery.packed)
<1>1. ASSUME NEW entry \in Entries PROVE IsValue(entry.id) /\ IsValue(entry.index)
  <2>1. IdFacts(entry) /\ IndexFacts(entry)
    BY EntryFacts
  <2>2. IsValue(entry.id)
    BY <2>1 DEF IdFacts, IsValue
  <2>3. \A m, n \in Int : /\ <<n>> \in Seq(Symbols) /\ <<n>> # <<>>
                          /\ <<m, n>> \in Seq(Symbols) /\ <<m, n>> # <<>>
    BY DEF Symbols
  <2>4. \A n \in Nat : n \in Int
    OBVIOUS
  <2>5. (0 .. 23) \cup (24 .. 27) \subseteq Int
    OBVIOUS
  <2>6. IsValue(entry.index)
    BY <2>1, <2>3, <2>4, <2>5 DEF IndexFacts, IsValue
  <2> QED BY <2>2, <2>6
<1>2. ASSUME GalleryTyped PROVE IsValue(gallery.packed)
  <2>1. gallery.packed \in {<<>>} \cup {<<Token(2, txids)>> : txids \in TxidLists}
    BY <1>2 DEF GalleryTyped
  <2>2. TxidLists \subseteq Seq(Symbols)
    BY BytesAreSymbols, GalleryAssumption DEF Octets
  <2> QED BY <2>1, <2>2 DEF IsValue
<1> QED BY <1>1, <1>2

TooDeep(entry) == entry.lists + 1 > MaxDepth

\* In a list of a field an entry is read as it says, or it is nested too deep.
EntryReads(entry, indefinite, v) ==
  /\ IsWord(WrittenEntry(entry, indefinite))
  /\ EntrySays(entry, v)
  /\ TooDeep(entry) => IsNoItem(WrittenEntry(entry, indefinite), 2)
  /\ ~ TooDeep(entry) => IsRead(WrittenEntry(entry, indefinite), 2, v)

\* Each entry is read as it says, or it is nested too deep.
LEMMA EntryIsRead ==
  ASSUME NEW entry \in Entries, NEW indefinite \in BOOLEAN
  PROVE  \E v : EntryReads(entry, indefinite, v)
<1> DEFINE n == entry.lists
           w == WrittenEntry(entry, indefinite)
<1>1. n \in Nat /\ MaxDepth \in Nat /\ MaxDepth >= 4
  BY EntryFacts, GalleryAssumption
<1>2. CASE n > 0
  <2>1. w = NestedLists(n)
    BY <1>2 DEF WrittenEntry, NestedLists
  <2>2. n \in Nat \ {0}
    BY <1>1, <1>2
  <2>3. ReadsNested(n)
    BY <2>2, NestedIsRead
  <2>4. /\ IsWord(NestedLists(n))
        /\ 2 + n - 1 > MaxDepth => IsNoItem(NestedLists(n), 2)
        /\ 2 + n - 1 <= MaxDepth => \E v : IsRead(NestedLists(n), 2, <<"list", v>>)
    BY <2>3 DEF ReadsNested
  <2>5. 2 + n - 1 = n + 1
    BY <1>1
  <2>6. \A v : EntrySays(entry, <<"list", v>>)
    BY <1>2 DEF EntrySays
  <2> HIDE DEF w
  <2>7. CASE n + 1 > MaxDepth
    <3>1. IsNoItem(w, 2) /\ IsWord(w)
      BY <2>1, <2>4, <2>5, <2>7
    <3>2. EntryReads(entry, indefinite, <<"list", 0>>)
      BY <2>6, <2>7, <3>1 DEF EntryReads, TooDeep, w
    <3> QED BY <3>2
  <2>8. CASE ~ (n + 1 > MaxDepth)
    <3>1. n + 1 <= MaxDepth
      BY <1>1, <2>8
    <3>2. PICK v : IsRead(w, 2, <<"list", v>>)
      BY <2>1, <2>4, <2>5, <3>1
    <3>3. EntryReads(entry, indefinite, <<"list", v>>)
      BY <2>1, <2>4, <2>6, <2>8, <3>2 DEF EntryReads, TooDeep, w
    <3> QED BY <3>3
  <2> QED BY <2>7, <2>8
<1>3. CASE ~ (n > 0)
  <2> DEFINE e == <<>>
             s1 == e \o Pair(2, entry.index, indefinite)
             s2 == s1 \o Pair(0, entry.id, indefinite)
             x0 == SaidOf(entry.id)
             x2 == SaidOf(entry.index)
  <2>1. IsValue(entry.id) /\ IsValue(entry.index)
    BY ValuesWritten
  <2>2. MapSays(e, 3, TRUE, undefined, undefined)
    BY NoWords
  <2>3. 3 \in Nat /\ 3 + 1 <= MaxDepth /\ 2 + 1 = 3 /\ 2 + 1 <= MaxDepth /\ 2 \in Nat
    BY <1>1
  <2>4. MapSays(s1, 3, TRUE, undefined, x2)
    <3>1. MapSays(e \o Pair(2, entry.index, indefinite), 3, TRUE,
                  PutPair(2, entry.index, 0, undefined), PutPair(2, entry.index, 2, undefined))
      <4>1. /\ 3 \in Nat /\ 3 + 1 <= MaxDepth /\ TRUE \in BOOLEAN /\ 2 \in {0, 2}
            /\ indefinite \in BOOLEAN /\ MapSays(e, 3, TRUE, undefined, undefined)
            /\ IsValue(entry.index)
        BY <2>1, <2>2, <2>3
      <4> HIDE DEF e
      <4> QED BY <4>1, PairExtends
    <3>2. PutPair(2, entry.index, 0, undefined) = undefined
      BY DEF PutPair
    <3>3. PutPair(2, entry.index, 2, undefined) = x2
      BY DEF PutPair, SaidOf
    <3> HIDE DEF x2, e
    <3> QED BY <3>1, <3>2, <3>3
  <2> HIDE DEF s1, x2
  <2>5. MapSays(s2, 3, TRUE, x0, x2)
    <3>1. MapSays(s1 \o Pair(0, entry.id, indefinite), 3, TRUE,
                  PutPair(0, entry.id, 0, undefined), PutPair(0, entry.id, 2, x2))
      <4>1. /\ 3 \in Nat /\ 3 + 1 <= MaxDepth /\ TRUE \in BOOLEAN /\ 0 \in {0, 2}
            /\ indefinite \in BOOLEAN /\ MapSays(s1, 3, TRUE, undefined, x2)
            /\ IsValue(entry.id)
        BY <2>1, <2>3, <2>4
      <4> QED BY <4>1, PairExtends
    <3>2. PutPair(0, entry.id, 0, undefined) = x0
      BY DEF PutPair, SaidOf
    <3>3. PutPair(0, entry.id, 2, x2) = x2
      BY DEF PutPair
    <3> HIDE DEF x0
    <3> QED BY <3>1, <3>2, <3>3
  <2> HIDE DEF s2, x0
  <2>6. w = Container(5, s2, indefinite)
    <3>1. \A t : Pair(2, entry.index, indefinite) = t => <<>> \o t = t
      <4>1. Pair(2, entry.index, indefinite) \in Seq({Key(2, indefinite), Spelled(entry.index[1], indefinite)})
        <5> DEFINE k == Key(2, indefinite)
                   v == Spelled(entry.index[1], indefinite)
                   X == {k, v}
        <5>1. k \in X /\ v \in X
          OBVIOUS
        <5>2. Pair(2, entry.index, indefinite) = <<>> \/ Pair(2, entry.index, indefinite) = <<k, v>>
          BY DEF Pair
        <5> HIDE DEF k, v, X
        <5>3. <<k, v>> \in Seq(X)
          BY <5>1
        <5>4. <<>> \in Seq(X)
          OBVIOUS
        <5>5. Pair(2, entry.index, indefinite) \in Seq(X)
          <6> DEFINE p == Pair(2, entry.index, indefinite)
                     one == <<k, v>>
          <6>1. (p = <<>> \/ p = one) /\ one \in Seq(X)
            BY <5>2, <5>3
          <6> HIDE DEF p, one
          <6>2. p \in Seq(X)
            BY <5>4, <6>1
          <6> QED BY <6>2 DEF p
        <5> QED BY <5>5 DEF X, k, v
      <4>2. <<>> \o Pair(2, entry.index, indefinite) = Pair(2, entry.index, indefinite)
        <5> DEFINE t == Pair(2, entry.index, indefinite)
                   X == {Key(2, indefinite), Spelled(entry.index[1], indefinite)}
        <5>1. t \in Seq(X)
          BY <4>1
        <5> HIDE DEF t, X
        <5>2. <<>> \o t = t
          BY <5>1
        <5> QED BY <5>2 DEF t
      <4> QED BY <4>2
    <3>2. s2 = Pair(2, entry.index, indefinite) \o Pair(0, entry.id, indefinite)
      BY <3>1 DEF s2, s1
    <3> QED BY <1>3, <3>2 DEF WrittenEntry, ITEM_KEY_INDEX, ITEM_KEY_ID
  <2>7. IsWord(w) /\ MapReads(w, 2, x0, x2)
    <3>1. /\ 2 \in Nat /\ 2 + 1 <= MaxDepth /\ TRUE \in BOOLEAN /\ indefinite \in BOOLEAN
          /\ MapSays(s2, 2 + 1, TRUE, x0, x2)
      BY <2>3, <2>5
    <3>2. /\ IsWord(Container(5, s2, indefinite))
          /\ MapReads(Container(5, s2, indefinite), 2, x0, x2)
      BY <3>1, MapSaid
    <3> HIDE DEF w
    <3> QED BY <2>6, <3>2
  <2>8. PICK map : IsRead(w, 2, <<"map", map>>) /\ atKey(map, 0) = x0 /\ atKey(map, 2) = x2
    BY <2>7 DEF MapReads
  <2>9. EntrySays(entry, <<"map", map>>)
    BY <1>3, <2>8 DEF EntrySays, ITEM_KEY_ID, ITEM_KEY_INDEX, x0, x2
  <2>10. ~ TooDeep(entry)
    BY <1>1, <1>3 DEF TooDeep
  <2>11. EntryReads(entry, indefinite, <<"map", map>>)
    <3> HIDE DEF w
    <3> QED BY <2>7, <2>8, <2>9, <2>10 DEF EntryReads, w
  <2> QED BY <2>11
<1> QED BY <1>2, <1>3

Count == Len(gallery.entries)

EntryAt(i) == gallery.entries[i][1]

EntryWords == [i \in DOMAIN gallery.entries |-> WrittenEntry(gallery.entries[i][1], gallery.entries[i][2])]

ListWord == Container(4, EntryWords, gallery.indefinite)

SomeTooDeep == \E i \in 1 .. Count : TooDeep(EntryAt(i))

\* What is read as the entries that are declared.
ListSays(values) ==
  /\ values = [i \in 1 .. Count |-> values[i]]
  /\ \A i \in 1 .. Count : EntrySays(EntryAt(i), values[i])

\* The entries are typed.
LEMMA EntriesTyped ==
  ASSUME GalleryTyped
  PROVE  /\ Count \in Nat /\ DOMAIN gallery.entries = 1 .. Count
         /\ \A i \in 1 .. Count : EntryAt(i) \in Entries /\ gallery.entries[i][2] \in BOOLEAN
         /\ gallery.indefinite \in BOOLEAN /\ gallery.twice \in BOOLEAN
<1>1. gallery.entries \in Seq(Entries \X BOOLEAN) /\ gallery.indefinite \in BOOLEAN /\ gallery.twice \in BOOLEAN
  BY DEF GalleryTyped
<1>2. Count \in Nat /\ DOMAIN gallery.entries = 1 .. Count
  BY <1>1, LenProperties DEF Count
<1>3. \A i \in 1 .. Count : gallery.entries[i] \in Entries \X BOOLEAN
  BY <1>1, ElementOfSeq DEF Count
<1>4. \A i \in 1 .. Count : EntryAt(i) \in Entries /\ gallery.entries[i][2] \in BOOLEAN
  BY <1>3 DEF EntryAt
<1> QED BY <1>1, <1>2, <1>4

\* The list of a field is read as its entries, and not where one is nested too deep.
LEMMA ListIsRead ==
  ASSUME GalleryTyped
  PROVE  \E values : /\ ListSays(values) /\ IsWord(ListWord)
                     /\ SomeTooDeep => IsNoItem(ListWord, 1)
                     /\ ~ SomeTooDeep => IsRead(ListWord, 1, <<"list", values>>)
<1> DEFINE n == Count
           values == [i \in 1 .. n |-> CHOOSE v : EntryReads(EntryAt(i), gallery.entries[i][2], v)]
           words == EntryWords
<1>1. /\ n \in Nat /\ DOMAIN gallery.entries = 1 .. n
      /\ \A i \in 1 .. n : EntryAt(i) \in Entries /\ gallery.entries[i][2] \in BOOLEAN
      /\ gallery.indefinite \in BOOLEAN
  BY EntriesTyped
<1>2. \A i \in 1 .. n : EntryReads(EntryAt(i), gallery.entries[i][2], values[i])
  <2> TAKE i \in 1 .. n
  <2>1. \E v : EntryReads(EntryAt(i), gallery.entries[i][2], v)
    BY <1>1, EntryIsRead
  <2>2. values[i] = CHOOSE v : EntryReads(EntryAt(i), gallery.entries[i][2], v)
    OBVIOUS
  <2> QED BY <2>1, <2>2
<1>3. values = [i \in 1 .. n |-> values[i]]
  OBVIOUS
<1> HIDE DEF values
<1>4. \A i \in 1 .. n :
        /\ EntrySays(EntryAt(i), values[i])
        /\ IsWord(WrittenEntry(EntryAt(i), gallery.entries[i][2]))
        /\ TooDeep(EntryAt(i)) => IsNoItem(WrittenEntry(EntryAt(i), gallery.entries[i][2]), 2)
        /\ ~ TooDeep(EntryAt(i)) => IsRead(WrittenEntry(EntryAt(i), gallery.entries[i][2]), 2, values[i])
  BY <1>2 DEF EntryReads
<1>5. /\ words \in Seq(Seq(Heads)) /\ Len(words) = n
      /\ \A i \in 1 .. n : words[i] = WrittenEntry(EntryAt(i), gallery.entries[i][2])
  <2> DEFINE f == [i \in 1 .. n |-> WrittenEntry(EntryAt(i), gallery.entries[i][2])]
  <2>1. words = f
    BY <1>1 DEF EntryWords, EntryAt
  <2>2. \A i \in 1 .. n : WrittenEntry(EntryAt(i), gallery.entries[i][2]) \in Seq(Heads)
    BY <1>4 DEF IsWord
  <2>3. f \in Seq(Seq(Heads)) /\ Len(f) = n
    BY <1>1, <2>2
  <2>4. \A i \in 1 .. n : f[i] = WrittenEntry(EntryAt(i), gallery.entries[i][2])
    OBVIOUS
  <2> HIDE DEF f, words
  <2> QED BY <2>1, <2>3, <2>4
<1> HIDE DEF words
<1>6. /\ 4 \in {4, 5} /\ words \in Seq(Seq(Heads)) /\ gallery.indefinite \in BOOLEAN
      /\ 1 \in Nat /\ 1 <= MaxDepth
      /\ \A j \in 1 .. Len(words) : IsWord(words[j])
      /\ \A j \in 1 .. Len(words) : IsRead(words[j], 1 + 1, values[j]) \/ IsNoItem(words[j], 1 + 1)
      /\ ~ gallery.indefinite => Len(words) % (4 - 3) = 0
  <2>1. 1 + 1 = 2 /\ 4 - 3 = 1 /\ 1 <= MaxDepth /\ n % 1 = 0
    BY <1>1, GalleryAssumption
  <2>2. \A j \in 1 .. n : IsWord(words[j]) /\ (IsRead(words[j], 2, values[j]) \/ IsNoItem(words[j], 2))
    BY <1>4, <1>5
  <2> QED BY <1>1, <1>5, <2>1, <2>2
<1>7. /\ IsWord(Container(4, words, gallery.indefinite))
      /\ (\E j \in 1 .. Len(words) : IsNoItem(words[j], 1 + 1)) =>
           IsNoItem(Container(4, words, gallery.indefinite), 1)
      /\ (\A j \in 1 .. Len(words) : IsRead(words[j], 1 + 1, values[j])) /\ Len(words) % (4 - 3) = 0 =>
           IsRead(Container(4, words, gallery.indefinite), 1,
                  Contents(4, [k \in 1 .. Len(words) |-> values[k]]))
  BY <1>6, ContainerIsRead
<1>8. Container(4, words, gallery.indefinite) = ListWord
  BY DEF words, ListWord
<1>9. 1 + 1 = 2 /\ Len(words) % (4 - 3) = 0
  BY <1>1, <1>5
<1>10. Contents(4, [k \in 1 .. Len(words) |-> values[k]]) = <<"list", values>>
  BY <1>3, <1>5 DEF Contents
<1>11. IsWord(ListWord)
  BY <1>7, <1>8
<1>12. ASSUME SomeTooDeep PROVE IsNoItem(ListWord, 1)
  <2>1. PICK i \in 1 .. n : TooDeep(EntryAt(i))
    BY <1>12 DEF SomeTooDeep
  <2>2. IsNoItem(words[i], 1 + 1) /\ i \in 1 .. Len(words)
    BY <1>4, <1>5, <1>9, <2>1
  <2> QED BY <1>7, <1>8, <2>2
<1>13. ASSUME ~ SomeTooDeep PROVE IsRead(ListWord, 1, <<"list", values>>)
  <2>1. \A i \in 1 .. n : ~ TooDeep(EntryAt(i))
    BY <1>13 DEF SomeTooDeep
  <2>2. \A j \in 1 .. Len(words) : IsRead(words[j], 1 + 1, values[j])
    BY <1>4, <1>5, <1>9, <2>1
  <2> QED BY <1>7, <1>8, <1>9, <1>10, <2>2
<1>14. ListSays(values)
  BY <1>3, <1>4 DEF ListSays
<1> QED BY <1>11, <1>12, <1>13, <1>14

\* A list of one number is read as a list.
LEMMA NumberListIsRead ==
  ASSUME NEW flag \in BOOLEAN
  PROVE  LET w == Container(4, << <<Token(0, <<1>>)>> >>, flag)
         IN  IsWord(w) /\ \E v : IsRead(w, 1, v)
<1> DEFINE one == <<Token(0, <<1>>)>>
           seqs == <<one>>
           v == ValueOf(0, <<1>>)
           values == <<v>>
<1>1. MaxDepth \in Nat /\ MaxDepth >= 4
  BY GalleryAssumption
<1>2. IsWord(one) /\ IsRead(one, 2, v)
  <2>1. 2 \in Nat /\ 2 + 1 <= MaxDepth /\ 0 \in {0, 1, 2, 3, 7} /\ FALSE \in BOOLEAN
    BY <1>1
  <2>2. <<1>> \in Seq(Symbols)
    BY DEF Symbols
  <2>3. /\ IsWord(Spelled(Token(0, <<1>>), FALSE))
        /\ IsRead(Spelled(Token(0, <<1>>), FALSE), 2, v)
    BY <2>1, <2>2, SpelledIsRead
  <2>4. Spelled(Token(0, <<1>>), FALSE) = one
    BY DEF Spelled
  <2> QED BY <2>3, <2>4
<1> HIDE DEF one, v
<1>3. seqs \in Seq(Seq(Heads)) /\ Len(seqs) = 1 /\ seqs[1] = one /\ values[1] = v
  <2>1. one \in Seq(Heads)
    BY <1>2 DEF IsWord
  <2> QED BY <2>1
<1>4. \A j \in 1 .. 1 : j = 1
  OBVIOUS
<1>5. seqs = << <<Token(0, <<1>>)>> >>
  BY DEF one
<1> HIDE DEF seqs, values
<1>6. /\ 4 \in {4, 5} /\ seqs \in Seq(Seq(Heads)) /\ flag \in BOOLEAN
      /\ 1 \in Nat /\ 1 <= MaxDepth
      /\ \A j \in 1 .. Len(seqs) : IsWord(seqs[j])
      /\ \A j \in 1 .. Len(seqs) : IsRead(seqs[j], 1 + 1, values[j]) \/ IsNoItem(seqs[j], 1 + 1)
      /\ ~ flag => Len(seqs) % (4 - 3) = 0
  <2>1. 1 + 1 = 2 /\ 4 - 3 = 1 /\ 1 <= MaxDepth /\ 1 % 1 = 0
    BY <1>1
  <2> QED BY <1>2, <1>3, <1>4, <2>1
<1>7. /\ IsWord(Container(4, seqs, flag))
      /\ (\A j \in 1 .. Len(seqs) : IsRead(seqs[j], 1 + 1, values[j])) /\ Len(seqs) % (4 - 3) = 0 =>
           IsRead(Container(4, seqs, flag), 1, Contents(4, [k \in 1 .. Len(seqs) |-> values[k]]))
  BY <1>6, ContainerIsRead
<1>8. /\ \A j \in 1 .. Len(seqs) : IsRead(seqs[j], 1 + 1, values[j])
      /\ Len(seqs) % (4 - 3) = 0
  <2>1. 1 + 1 = 2 /\ 4 - 3 = 1 /\ 1 % 1 = 0
    OBVIOUS
  <2> QED BY <1>2, <1>3, <1>4, <2>1
<1> QED BY <1>5, <1>7, <1>8

\* The keys and values of a field.
BeforeWords ==
  IF gallery.twice
  THEN <<Key(0, ~ gallery.indefinite), Container(4, << <<Token(0, <<1>>)>> >>, ~ gallery.indefinite)>>
  ELSE <<>>

FieldWords ==
  BeforeWords \o Pair(2, gallery.packed, ~ gallery.indefinite) \o <<Key(0, gallery.indefinite), ListWord>>

\* The field is the map of its keys and values.
LEMMA FieldIsMap == Written = Container(5, FieldWords, gallery.indefinite)
<1>1. Written =
        Container(5, BeforeWords \o Pair(2, gallery.packed, ~ gallery.indefinite)
                     \o <<Key(0, gallery.indefinite),
                          Container(4, [i \in DOMAIN gallery.entries |->
                                          WrittenEntry(gallery.entries[i][1], gallery.entries[i][2])],
                                    gallery.indefinite)>>, gallery.indefinite)
  BY DEF Written, BeforeWords, PROPERTY_KEY_ITEMS, PROPERTY_KEY_GALLERY_TXIDS
<1> QED BY <1>1 DEF FieldWords, ListWord, EntryWords

\* What a field says, when its list is read and when it is not.
LEMMA FieldSays ==
  ASSUME GalleryTyped, NEW values, NEW both, WordAdds(ListWord, <<"list", values>>, 1, TRUE, both)
  PROVE  MapSays(FieldWords, 1, both, <<"list", values>>, SaidOf(gallery.packed))
<1> DEFINE e == <<>>
           f == ~ gallery.indefinite
           b == BeforeWords
           p == Pair(2, gallery.packed, f)
           xs == <<"list", values>>
           packed == SaidOf(gallery.packed)
<1>1. /\ gallery.indefinite \in BOOLEAN /\ f \in BOOLEAN /\ 1 \in Nat /\ 1 + 1 <= MaxDepth
      /\ TRUE \in BOOLEAN /\ 0 \in {0, 2} /\ 2 \in {0, 2} /\ IsValue(gallery.packed)
  BY EntriesTyped, ValuesWritten, GalleryAssumption
<1>2. MapSays(e, 1, TRUE, undefined, undefined)
  BY NoWords
<1>3. \E x : MapSays(b, 1, TRUE, x, undefined)
  <2>1. CASE ~ gallery.twice
    <3>1. b = e
      BY <2>1 DEF BeforeWords
    <3> QED BY <1>2, <3>1
  <2>2. CASE gallery.twice
    <3> DEFINE w == Container(4, << <<Token(0, <<1>>)>> >>, f)
    <3>1. PICK v : IsWord(w) /\ IsRead(w, 1, v)
      BY <1>1, NumberListIsRead
    <3>2. b = <<Key(0, f), w>>
      BY <2>2 DEF BeforeWords
    <3> HIDE DEF w, f, b
    <3>3. WordAdds(w, v, 1, TRUE, TRUE)
      BY <3>1 DEF WordAdds
    <3>4. MapSays(e \o <<Key(0, f), w>>, 1, TRUE, Put(0, v, 0, undefined), Put(0, v, 2, undefined))
      <4>1. /\ 1 \in Nat /\ TRUE \in BOOLEAN /\ MapSays(e, 1, TRUE, undefined, undefined)
            /\ 0 \in {0, 2} /\ f \in BOOLEAN /\ WordAdds(w, v, 1, TRUE, TRUE)
        BY <1>1, <1>2, <3>3
      <4> HIDE DEF e
      <4> QED BY <4>1, WordsExtend
    <3>5. e \o <<Key(0, f), w>> = <<Key(0, f), w>>
      <4> DEFINE k == Key(0, f)
      <4> HIDE DEF k
      <4>1. e \o <<k, w>> = <<k, w>>
        OBVIOUS
      <4> QED BY <4>1 DEF k
    <3>6. Put(0, v, 2, undefined) = undefined
      BY DEF Put
    <3> HIDE DEF e
    <3> QED BY <3>2, <3>4, <3>5, <3>6
  <2> QED BY <2>1, <2>2
<1>4. PICK x : MapSays(b, 1, TRUE, x, undefined)
  BY <1>3
<1> HIDE DEF e, b
<1>5. MapSays(b \o p, 1, TRUE, x, packed)
  <2> HIDE DEF f
  <2>1. MapSays(b \o Pair(2, gallery.packed, f), 1, TRUE,
                PutPair(2, gallery.packed, 0, x), PutPair(2, gallery.packed, 2, undefined))
    BY <1>1, <1>4, PairExtends
  <2>2. PutPair(2, gallery.packed, 0, x) = x
    BY DEF PutPair
  <2>3. PutPair(2, gallery.packed, 2, undefined) = packed
    BY DEF PutPair, SaidOf
  <2> HIDE DEF packed
  <2> QED BY <2>1, <2>2, <2>3
<1> DEFINE s == b \o p
<1>6. MapSays(s, 1, TRUE, x, packed)
  BY <1>5
<1> HIDE DEF s, packed
<1>7. MapSays(s \o <<Key(0, gallery.indefinite), ListWord>>, 1, both,
              Put(0, xs, 0, x), Put(0, xs, 2, packed))
  <2>1. WordAdds(ListWord, xs, 1, TRUE, both)
    OBVIOUS
  <2> HIDE DEF xs
  <2> QED BY <1>1, <1>6, <2>1, WordsExtend
<1>8. Put(0, xs, 0, x) = xs /\ Put(0, xs, 2, packed) = packed
  BY DEF Put
<1>9. FieldWords = s \o <<Key(0, gallery.indefinite), ListWord>>
  BY DEF FieldWords, s, b
<1> HIDE DEF xs
<1>10. MapSays(FieldWords, 1, both, xs, packed)
  BY <1>7, <1>8, <1>9
<1> QED BY <1>10 DEF xs, packed

\* The field is read as the map of its entries, or not at all.
LEMMA WrittenIsRead ==
  ASSUME GalleryTyped
  PROVE  \E values :
           /\ ListSays(values) /\ IsWord(Written) /\ FieldWords \in Seq(Seq(Heads))
           /\ SomeTooDeep => IsNoItem(Written, 0)
           /\ ~ SomeTooDeep => MapReads(Written, 0, <<"list", values>>, SaidOf(gallery.packed))
           /\ IsNoItem(Container(5, Append(FieldWords, Key(0, TRUE)), TRUE), 0)
<1>1. PICK values : /\ ListSays(values) /\ IsWord(ListWord)
                    /\ SomeTooDeep => IsNoItem(ListWord, 1)
                    /\ ~ SomeTooDeep => IsRead(ListWord, 1, <<"list", values>>)
  BY ListIsRead
<1> DEFINE xs == <<"list", values>>
           packed == SaidOf(gallery.packed)
<1>2. 0 \in Nat /\ 0 + 1 <= MaxDepth /\ gallery.indefinite \in BOOLEAN /\ 0 + 1 = 1
  BY EntriesTyped, GalleryAssumption
<1>3. ASSUME NEW both \in BOOLEAN, MapSays(FieldWords, 1, both, xs, packed)
      PROVE  /\ IsWord(Written) /\ FieldWords \in Seq(Seq(Heads))
             /\ ~ both => IsNoItem(Written, 0)
             /\ both => MapReads(Written, 0, xs, packed)
             /\ IsNoItem(Container(5, Append(FieldWords, Key(0, TRUE)), TRUE), 0)
  <2> HIDE DEF xs, packed
  <2>1. MapSays(FieldWords, 0 + 1, both, xs, packed)
    BY <1>2, <1>3
  <2>2. LET w == Container(5, FieldWords, gallery.indefinite)
        IN  /\ IsWord(w) /\ FieldWords \in Seq(Seq(Heads))
            /\ ~ both => IsNoItem(w, 0)
            /\ both => MapReads(w, 0, xs, packed)
            /\ IsNoItem(Container(5, Append(FieldWords, Key(0, TRUE)), TRUE), 0)
    BY <1>2, <2>1, MapSaid
  <2> QED BY <2>2, FieldIsMap
<1>4. CASE SomeTooDeep
  <2>1. WordAdds(ListWord, xs, 1, TRUE, FALSE)
    BY <1>1, <1>4 DEF WordAdds
  <2>2. MapSays(FieldWords, 1, FALSE, xs, packed)
    BY <2>1, FieldSays
  <2> HIDE DEF xs, packed
  <2>3. /\ IsWord(Written) /\ FieldWords \in Seq(Seq(Heads)) /\ IsNoItem(Written, 0)
        /\ IsNoItem(Container(5, Append(FieldWords, Key(0, TRUE)), TRUE), 0)
    BY <1>3, <2>2
  <2> QED BY <1>1, <1>4, <2>3
<1>5. CASE ~ SomeTooDeep
  <2>1. WordAdds(ListWord, xs, 1, TRUE, TRUE)
    BY <1>1, <1>5 DEF WordAdds
  <2>2. MapSays(FieldWords, 1, TRUE, xs, packed)
    BY <2>1, FieldSays
  <2> HIDE DEF xs, packed
  <2>3. /\ IsWord(Written) /\ FieldWords \in Seq(Seq(Heads)) /\ MapReads(Written, 0, xs, packed)
        /\ IsNoItem(Container(5, Append(FieldWords, Key(0, TRUE)), TRUE), 0)
    BY <1>3, <2>2
  <2> QED BY <1>1, <1>5, <2>3 DEF xs, packed
<1> QED BY <1>4, <1>5

\* What stands before the last is the rest.
LEMMA FrontOfLast ==
  ASSUME NEW X, NEW s \in Seq(X), NEW x \in X
  PROVE  Front(s \o <<x>>) = s
<1> DEFINE t == s \o <<x>>
           n == Len(s)
<1>1. /\ t \in Seq(X) /\ Len(t) = n + 1 /\ n \in Nat
      /\ \A k \in 1 .. n : t[k] = s[k]
  <2> DEFINE one == <<x>>
  <2>1. one \in Seq(X) /\ Len(one) = 1
    OBVIOUS
  <2>2. n \in Nat
    BY LenProperties
  <2> HIDE DEF one
  <2>3. /\ s \o one \in Seq(X) /\ Len(s \o one) = n + Len(one)
        /\ \A k \in 1 .. n : (s \o one)[k] = s[k]
    BY <2>1, ConcatPlaces
  <2> QED BY <2>1, <2>2, <2>3 DEF one
<1>2. Front(t) = SubSeq(t, 1, n)
  <2>1. Len(t) - 1 = n
    BY <1>1
  <2> HIDE DEF t, n
  <2> QED BY <2>1 DEF Front
<1> HIDE DEF t
<1>3. /\ SubSeq(t, 1, n) \in Seq(X) /\ Len(SubSeq(t, 1, n)) = n
      /\ \A k \in 1 .. n : SubSeq(t, 1, n)[k] = t[k]
  <2> HIDE DEF n
  <2>1. /\ SubSeq(t, 1, n) \in Seq(X)
        /\ Len(SubSeq(t, 1, n)) = IF 1 <= n THEN n - 1 + 1 ELSE 0
        /\ \A k \in 1 .. n - 1 + 1 : SubSeq(t, 1, n)[k] = t[1 + k - 1]
    BY <1>1, SubSeqProperties
  <2>2. \A k \in 1 .. n : k \in 1 .. n - 1 + 1 /\ 1 + k - 1 = k
    BY <1>1
  <2> QED BY <1>1, <2>1, <2>2
<1>4. \A k \in 1 .. n : SubSeq(t, 1, n)[k] = s[k]
  BY <1>1, <1>3
<1>5. SubSeq(t, 1, n) = s
  BY <1>3, <1>4, SeqEqual
<1> QED BY <1>2, <1>5 DEF t

\* A key behind the others is written in the place of the break.
LEMMA HalfIsWritten ==
  ASSUME GalleryTyped, gallery.indefinite, FieldWords \in Seq(Seq(Heads))
  PROVE  Front(Written) \o Key(0, TRUE) \o <<Break>> = Container(5, Append(FieldWords, Key(0, TRUE)), TRUE)
<1> DEFINE k == Key(0, TRUE)
           flat == FlattenSeq(FieldWords)
           open == <<Open(5)>>
           end == <<Break>>
<1>1. k \in Seq(Heads)
  <2>1. 0 \in Nat /\ 0 <= MaxDepth /\ TRUE \in BOOLEAN
    BY GalleryAssumption
  <2>2. IsWord(Key(0, TRUE))
    BY <2>1, KeyIsRead
  <2> QED BY <2>2 DEF IsWord
<1>2. open \in Seq(Heads) /\ end \in Seq(Heads) /\ Break \in Heads
  <2>1. Open(5) \in Heads /\ Break \in Heads
    BY HeadsTyped
  <2> QED BY <2>1
<1>3. flat \in Seq(Heads)
  BY FlattenPlaces
<1>4. Written = open \o flat \o end
  BY FieldIsMap DEF Container
<1>5. Container(5, Append(FieldWords, k), TRUE) = open \o FlattenSeq(Append(FieldWords, k)) \o end
  BY DEF Container
<1>6. FlattenSeq(Append(FieldWords, k)) = flat \o k
  <2> HIDE DEF k
  <2> QED BY <1>1, FlattenAppend
<1> HIDE DEF k, flat, open
<1>7. open \o flat \in Seq(Heads)
  BY <1>2, <1>3, ConcatPlaces
<1>8. Front(Written) = open \o flat
  BY <1>2, <1>4, <1>7, FrontOfLast
<1>9. open \o flat \o k = open \o (flat \o k)
  BY <1>1, <1>2, <1>3, ConcatAssociative
<1> HIDE DEF end
<1>10. Front(Written) \o k \o end = Container(5, Append(FieldWords, k), TRUE)
  BY <1>5, <1>6, <1>8, <1>9
<1> QED BY <1>10 DEF k, end

Declared == [i \in DOMAIN gallery.entries |-> SetToSeq(DeclaredAt(i))]

\* What is to be read of the field.
ToBeRead ==
  IF SomeTooDeep THEN NOT_A_GALLERY
  ELSE [isGallery |-> TRUE, items |-> FlattenSeq(Declared),
        skipped |-> Len(Declared) - Len(FlattenSeq(Declared))]

\* The properties that are decoded as a map with a list are a gallery, and no others.
LEMMA ParseFacts ==
  ASSUME NEW r
  PROVE  /\ decodeCbor(r) = Undecodable => parseGallery(r) = NOT_A_GALLERY
         /\ \A map, values :
              decodeCbor(r) = << <<"map", map>> >> /\ atKey(map, 0) = <<"list", values>> =>
                LET members == MembersOf(values, atKey(map, 2))
                IN  parseGallery(r) =
                      [isGallery |-> TRUE, items |-> FlattenSeq(members),
                       skipped |-> Cardinality({i \in DOMAIN members : members[i] = <<>>})]
<1>1. ASSUME decodeCbor(r) = Undecodable PROVE parseGallery(r) = NOT_A_GALLERY
  BY <1>1 DEF parseGallery
<1>2. ASSUME NEW map, NEW values, decodeCbor(r) = << <<"map", map>> >>, atKey(map, 0) = <<"list", values>>
      PROVE  LET members == MembersOf(values, atKey(map, 2))
             IN  parseGallery(r) =
                   [isGallery |-> TRUE, items |-> FlattenSeq(members),
                    skipped |-> Cardinality({i \in DOMAIN members : members[i] = <<>>})]
  <2> DEFINE decoded == decodeCbor(r)
  <2>1. /\ decoded # Undecodable /\ decoded[1][1] = "map" /\ decoded[1][2] = map
    BY <1>2 DEF Undecodable
  <2>2. atKey(decoded[1][2], 0)[1] = "list" /\ atKey(decoded[1][2], 0)[2] = values
    BY <1>2, <2>1
  <2> HIDE DEF decoded
  <2>3. parseGallery(r) = GalleryOf(decoded[1])
    BY <2>1 DEF parseGallery, decoded
  <2> DEFINE properties == decoded[1]
  <2>4. properties[1] = "map" /\ atKey(properties[2], 0)[1] = "list"
    BY <2>1, <2>2
  <2>5. GalleryOf(properties) =
          LET entries == atKey(properties[2], 0)
              members == MembersOf(entries[2], atKey(properties[2], 2))
          IN  IF properties[1] # "map" THEN NOT_A_GALLERY
              ELSE IF entries[1] # "list" THEN NOT_A_GALLERY
              ELSE [isGallery |-> TRUE, items |-> FlattenSeq(members),
                    skipped |-> Cardinality({i \in DOMAIN members : members[i] = <<>>})]
    BY DEF GalleryOf, PROPERTY_KEY_ITEMS, PROPERTY_KEY_GALLERY_TXIDS
  <2> QED BY <2>1, <2>2, <2>3, <2>4, <2>5
<1> QED BY <1>1, <1>2

\* The members that are read are the ones declared.
LEMMA MembersDeclared ==
  ASSUME GalleryTyped, NEW values, ListSays(values)
  PROVE  MembersOf(values, SaidOf(gallery.packed)) = Declared
<1> DEFINE packed == SaidOf(gallery.packed)
<1>1. /\ Count \in Nat /\ DOMAIN gallery.entries = 1 .. Count
      /\ \A i \in 1 .. Count : EntryAt(i) \in Entries
  BY EntriesTyped
<1>2. DOMAIN values = 1 .. Count
  <2> DEFINE f == [i \in 1 .. Count |-> values[i]]
  <2>1. DOMAIN f = 1 .. Count /\ values = f
    BY DEF ListSays
  <2> HIDE DEF f
  <2> QED BY <2>1
<1>3. ASSUME NEW i \in 1 .. Count
      PROVE  MemberAt(i, values[i], packed) = SetToSeq(DeclaredAt(i))
  <2>1. /\ i \in Nat \ {0} /\ EntryAt(i) \in Entries /\ EntryAt(i) = gallery.entries[i][1]
        /\ EntrySays(EntryAt(i), values[i])
    BY <1>1 DEF EntryAt, ListSays
  <2>2. MemberOf(MemberAt(i, values[i], packed), DeclaredAt(i))
    BY <2>1, MemberIsDeclared
  <2> HIDE DEF packed
  <2> QED BY <2>2, MemberAsSequence
<1>4. MembersOf(values, packed) = [i \in 1 .. Count |-> MemberAt(i, values[i], packed)]
  BY <1>2 DEF MembersOf
<1>5. Declared = [i \in 1 .. Count |-> SetToSeq(DeclaredAt(i))]
  BY <1>1 DEF Declared
<1> QED BY <1>3, <1>4, <1>5

\* What of the entries declares nothing is skipped.
LEMMA SkippedAreCounted ==
  ASSUME GalleryTyped
  PROVE  Cardinality({i \in DOMAIN Declared : Declared[i] = <<>>}) = Len(Declared) - Len(FlattenSeq(Declared))
<1>1. /\ Count \in Nat /\ DOMAIN gallery.entries = 1 .. Count
      /\ \A i \in 1 .. Count : EntryAt(i) \in Entries
  BY EntriesTyped
<1> DEFINE d == [i \in 1 .. Count |-> SetToSeq(DeclaredAt(i))]
<1>2. Declared = d
  BY <1>1 DEF Declared
<1>3. \A i \in 1 .. Count : d[i] = <<>> \/ \E x : d[i] = <<x>>
  <2> TAKE i \in 1 .. Count
  <2>1. PICK v : EntryReads(EntryAt(i), TRUE, v)
    BY <1>1, EntryIsRead
  <2>2. /\ i \in Nat \ {0} /\ EntryAt(i) \in Entries /\ EntryAt(i) = gallery.entries[i][1]
        /\ EntrySays(EntryAt(i), v)
    BY <1>1, <2>1 DEF EntryAt, EntryReads
  <2> DEFINE m == MemberAt(i, v, SaidOf(gallery.packed))
  <2>3. MemberOf(m, DeclaredAt(i))
    BY <2>2, MemberIsDeclared
  <2> HIDE DEF m
  <2>4. SetToSeq(DeclaredAt(i)) = m
    BY <2>3, MemberAsSequence
  <2>5. d[i] = m
    BY <2>4
  <2> HIDE DEF d
  <2> QED BY <2>3, <2>5 DEF MemberOf
<1>4. d = [i \in 1 .. Count |-> d[i]]
  OBVIOUS
<1> HIDE DEF d
<1>5. Cardinality({i \in DOMAIN d : d[i] = <<>>}) = Len(d) - Len(FlattenSeq(d))
  BY <1>1, <1>3, <1>4, MissingAreCounted
<1> QED BY <1>2, <1>5

\* The field is read as what is declared, and nothing less than the field, nor more.
LEMMA FieldIsDeclared ==
  ASSUME GalleryTyped
  PROVE  /\ parseGallery(Written) = ToBeRead
         /\ \A cut \in 0 .. Len(Written) - 1 : parseGallery(SubSeq(Written, 1, cut)) = NOT_A_GALLERY
         /\ \A more \in {Break, Token(4, <<0>>)} : parseGallery(Append(Written, more)) = NOT_A_GALLERY
         /\ gallery.indefinite =>
              parseGallery(Front(Written) \o Key(0, TRUE) \o <<Break>>) = NOT_A_GALLERY
<1>1. PICK values :
        /\ ListSays(values) /\ IsWord(Written) /\ FieldWords \in Seq(Seq(Heads))
        /\ SomeTooDeep => IsNoItem(Written, 0)
        /\ ~ SomeTooDeep => MapReads(Written, 0, <<"list", values>>, SaidOf(gallery.packed))
        /\ IsNoItem(Container(5, Append(FieldWords, Key(0, TRUE)), TRUE), 0)
  BY WrittenIsRead
<1> DEFINE half == Container(5, Append(FieldWords, Key(0, TRUE)), TRUE)
<1>2. IsWord(half)
  <2> DEFINE flat == FlattenSeq(Append(FieldWords, Key(0, TRUE)))
  <2>1. Open(5) \in Heads /\ Break \in Heads
    BY HeadsTyped
  <2>2. Key(0, TRUE) \in Seq(Heads)
    <3>1. 0 \in Nat /\ 0 <= MaxDepth /\ TRUE \in BOOLEAN
      BY GalleryAssumption
    <3>2. IsWord(Key(0, TRUE))
      BY <3>1, KeyIsRead
    <3> QED BY <3>2 DEF IsWord
  <2>3. flat \in Seq(Heads)
    <3> DEFINE k == Key(0, TRUE)
               X == Seq(Heads)
               seqs == Append(FieldWords, k)
    <3>1. k \in X /\ FieldWords \in Seq(X)
      BY <1>1, <2>2
    <3> HIDE DEF k, X
    <3>2. seqs \in Seq(X)
      BY <3>1, AppendProperties
    <3> HIDE DEF seqs
    <3>3. FlattenSeq(seqs) \in Seq(Heads)
      BY <3>2, FlattenPlaces DEF X
    <3> QED BY <3>3 DEF seqs, k
  <2>4. half = <<Open(5)>> \o flat \o <<Break>>
    BY DEF Container
  <2> DEFINE o == Open(5)
  <2>5. o # Break
    BY DEF Open, Break
  <2> HIDE DEF half, flat, o
  <2>6. <<o>> \o flat \o <<Break>> \in Seq(Heads)
    BY <2>1, <2>3 DEF o
  <2>7. (<<o>> \o flat \o <<Break>>)[1] = o /\ <<o>> \o flat \o <<Break>> # <<>>
    BY <2>1, <2>3 DEF o
  <2> QED BY <2>4, <2>5, <2>6, <2>7 DEF IsWord, o
<1>3. decodeCbor(half) = Undecodable
  <2> HIDE DEF half
  <2>1. IsWord(half) /\ IsNoItem(half, 0)
    BY <1>1, <1>2 DEF half
  <2> QED BY <2>1, FieldIsRead
<1>4. ASSUME gallery.indefinite
      PROVE  parseGallery(Front(Written) \o Key(0, TRUE) \o <<Break>>) = NOT_A_GALLERY
  <2>1. Front(Written) \o Key(0, TRUE) \o <<Break>> = half
    BY <1>1, <1>4, HalfIsWritten
  <2> HIDE DEF half
  <2> QED BY <1>3, <2>1, ParseFacts
<1> HIDE DEF half
<1>5. Break \in Heads /\ Token(4, <<0>>) \in Heads
  BY HeadsTyped
<1>6. ASSUME NEW value, IsRead(Written, 0, value) \/ IsNoItem(Written, 0)
      PROVE  /\ \A cut \in 0 .. Len(Written) - 1 : parseGallery(SubSeq(Written, 1, cut)) = NOT_A_GALLERY
             /\ \A more \in {Break, Token(4, <<0>>)} : parseGallery(Append(Written, more)) = NOT_A_GALLERY
  <2>1. /\ \A cut \in 0 .. Len(Written) - 1 : decodeCbor(SubSeq(Written, 1, cut)) = Undecodable
        /\ \A t \in Heads : decodeCbor(Append(Written, t)) = Undecodable
    BY <1>1, <1>6, FieldIsRead
  <2> QED BY <1>5, <2>1, ParseFacts
<1>7. CASE SomeTooDeep
  <2>1. IsWord(Written) /\ IsNoItem(Written, 0)
    BY <1>1, <1>7
  <2>2. decodeCbor(Written) = Undecodable
    BY <2>1, FieldIsRead
  <2>3. parseGallery(Written) = ToBeRead
    BY <1>7, <2>2, ParseFacts DEF ToBeRead
  <2>4. IsRead(Written, 0, <<>>) \/ IsNoItem(Written, 0)
    BY <2>1
  <2> QED BY <1>4, <1>6, <2>3, <2>4
<1>8. CASE ~ SomeTooDeep
  <2> DEFINE packed == SaidOf(gallery.packed)
             xs == <<"list", values>>
  <2>1. PICK map : /\ IsRead(Written, 0, <<"map", map>>)
                   /\ atKey(map, 0) = xs /\ atKey(map, 2) = packed
    BY <1>1, <1>8 DEF MapReads
  <2>2. decodeCbor(Written) = << <<"map", map>> >>
    BY <1>1, <2>1, FieldIsRead
  <2>3. MembersOf(values, packed) = Declared
    BY <1>1, MembersDeclared
  <2>4. parseGallery(Written) =
          LET members == MembersOf(values, atKey(map, 2))
          IN  [isGallery |-> TRUE, items |-> FlattenSeq(members),
               skipped |-> Cardinality({i \in DOMAIN members : members[i] = <<>>})]
    BY <2>1, <2>2, ParseFacts
  <2>5. MembersOf(values, atKey(map, 2)) = Declared
    BY <2>1, <2>3
  <2> HIDE DEF packed, xs
  <2>6. parseGallery(Written) =
          [isGallery |-> TRUE, items |-> FlattenSeq(Declared),
           skipped |-> Cardinality({i \in DOMAIN Declared : Declared[i] = <<>>})]
    BY <2>4, <2>5
  <2>7. parseGallery(Written) = ToBeRead
    BY <1>8, <2>6, SkippedAreCounted DEF ToBeRead
  <2> QED BY <1>4, <1>6, <2>1, <2>7
<1> QED BY <1>7, <1>8

\* A gallery stays what may be declared.
LEMMA GalleryStaysTyped == GallerySpec => []GalleryTyped
<1>1. GalleryInit => GalleryTyped
  <2> SUFFICES ASSUME GalleryInit PROVE GalleryTyped
    OBVIOUS
  <2> DEFINE P == {<<>>} \cup {<<Token(2, txids)>> : txids \in TxidLists}
             E == Seq(Entries \X BOOLEAN)
  <2>1. {<<>>} \subseteq E
    OBVIOUS
  <2>2. gallery \in [packed : P, indefinite : BOOLEAN, twice : BOOLEAN, entries : {<<>>}]
    BY DEF GalleryInit
  <2> HIDE DEF P, E
  <2>3. gallery \in [packed : P, indefinite : BOOLEAN, twice : BOOLEAN, entries : E]
    BY <2>1, <2>2
  <2> QED BY <2>3 DEF GalleryTyped, P, E
<1>2. GalleryTyped /\ [Declare]_gallery => GalleryTyped'
  <2> SUFFICES ASSUME GalleryTyped, [Declare]_gallery PROVE GalleryTyped'
    OBVIOUS
  <2> DEFINE P == {<<>>} \cup {<<Token(2, txids)>> : txids \in TxidLists}
             B == Entries \X BOOLEAN
  <2>1. gallery \in [packed : P, indefinite : BOOLEAN, twice : BOOLEAN, entries : Seq(B)]
    BY DEF GalleryTyped
  <2>2. CASE Declare
    <3>1. PICK entry \in Entries, indefinite \in BOOLEAN :
            gallery' = [gallery EXCEPT !.entries = Append(@, <<entry, indefinite>>)]
      BY <2>2 DEF Declare
    <3> DEFINE item == <<entry, indefinite>>
    <3>2. item \in B
      OBVIOUS
    <3> HIDE DEF P, B, item
    <3>3. gallery' = [gallery EXCEPT !.entries = Append(@, item)]
      BY <3>1 DEF item
    <3>4. Append(gallery.entries, item) \in Seq(B)
      BY <2>1, <3>2, AppendProperties
    <3>5. gallery' \in [packed : P, indefinite : BOOLEAN, twice : BOOLEAN, entries : Seq(B)]
      BY <2>1, <3>3, <3>4
    <3> QED BY <3>5 DEF GalleryTyped, P, B
  <2>3. CASE UNCHANGED gallery
    BY <2>3 DEF GalleryTyped
  <2> QED BY <2>2, <2>3
<1> QED BY <1>1, <1>2, PTL DEF GallerySpec

\* The members that are read are the ones declared.
THEOREM GalleryAlwaysDeclared == GallerySpec => []GalleryIsDeclared
<1>1. GalleryTyped => GalleryIsDeclared
  <2> SUFFICES ASSUME GalleryTyped PROVE GalleryIsDeclared
    OBVIOUS
  <2> DEFINE tooDeep == \E item \in ToSet(gallery.entries) : item[1].lists + 1 > MaxDepth
             field == Written
  <2>1. tooDeep <=> SomeTooDeep
    <3>1. DOMAIN gallery.entries = 1 .. Count
      BY EntriesTyped
    <3> QED BY <3>1 DEF ToSet, SomeTooDeep, TooDeep, EntryAt
  <2> DEFINE read == IF tooDeep THEN NOT_A_GALLERY
                     ELSE [isGallery |-> TRUE, items |-> FlattenSeq(Declared),
                           skipped |-> Len(Declared) - Len(FlattenSeq(Declared))]
  <2>2. read = ToBeRead
    <3> HIDE DEF tooDeep
    <3> QED BY <2>1 DEF ToBeRead
  <2>3. /\ parseGallery(field) = ToBeRead
        /\ \A cut \in 0 .. Len(field) - 1 : parseGallery(SubSeq(field, 1, cut)) = NOT_A_GALLERY
        /\ \A more \in {Break, Token(4, <<0>>)} : parseGallery(Append(field, more)) = NOT_A_GALLERY
        /\ gallery.indefinite =>
             parseGallery(Front(field) \o Key(0, TRUE) \o <<Break>>) = NOT_A_GALLERY
    BY FieldIsDeclared
  <2>4. inscriptionGallery(<<field>>, <<"br">>, <<>>) = GalleryEncodingError
    <3>1. <<field>> # <<>> /\ <<"br">> # <<>> /\ <<"br">> # <<"">>
      OBVIOUS
    <3> HIDE DEF field
    <3> QED BY <3>1 DEF inscriptionGallery
  <2>5. \A properties : inscriptionGallery(properties, <<"br">>, <<field>>) = <<parseGallery(field)>>
    <3> HIDE DEF field
    <3>1. <<field>> # <<>> /\ <<field>>[1] = field
      OBVIOUS
    <3> QED BY <3>1 DEF inscriptionGallery
  <2>6. inscriptionGallery(<< <<Token(2, <<1>>)>> >>, <<"br">>, <<field>>) = <<read>>
    <3>1. parseGallery(field) = read
      BY <2>2, <2>3
    <3> DEFINE properties == << <<Token(2, <<1>>)>> >>
    <3> HIDE DEF properties, read, field
    <3>2. inscriptionGallery(properties, <<"br">>, <<field>>) = <<parseGallery(field)>>
      BY <2>5
    <3>3. inscriptionGallery(properties, <<"br">>, <<field>>) = <<read>>
      BY <3>1, <3>2
    <3> QED BY <3>3 DEF properties
  <2>7. PROPERTY_KEY_ITEMS = 0
    BY DEF PROPERTY_KEY_ITEMS
  <2> HIDE DEF field
  <2>8. parseGallery(field) = read
    BY <2>2, <2>3
  <2> QED BY <2>3, <2>4, <2>6, <2>7, <2>8 DEF GalleryIsDeclared, field, Declared
<1> QED BY <1>1, GalleryStaysTyped, PTL

=============================================================================
