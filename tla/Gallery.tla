-------------------------------- MODULE Gallery -------------------------------
(***************************************************************************)
(* The members of a gallery, read out of the properties field of its       *)
(* inscription (cbor.ts, gallery.ts, parseInscriptionIdValue).             *)
(*                                                                         *)
(* The field is a sequence of CBOR heads, each with the bytes that are its *)
(* own: <<major type, is its length indefinite, argument>>, the argument   *)
(* being a number, the bytes of a byte string, the characters of a text or, *)
(* of major type 7, the additional information and what it says follows:   *)
(* a byte, or a float that is a whole number (the others are left out).  A *)
(* value is <<kind, content>>.  A field that ends within a head is one     *)
(* that ends before it.                                                    *)
(***************************************************************************)
EXTENDS Integers, Sequences, FiniteSetsExt, SequencesExt

CONSTANTS
  TxidBytes,    \* 32 in the code
  IndexBytes,   \* 4: the most that an inscription id has for its index
  ByteValues,   \* 256
  MaxDepth,     \* 128: the deepest nesting that is decoded
  Entries,      \* what may be declared: [id, index, lists], as IsEntry says
  TxidLists,    \* the bytes that may stand for the txids of a gallery
  MaxEntries    \* a bound on what is written

\* The digits of a number, the first of which counts least.
LittleEndian(digits) ==
  LET from[i \in 1 .. Len(digits) + 1] ==
        IF i > Len(digits) THEN 0 ELSE digits[i] + ByteValues * from[i + 1]
  IN  from[1]

MAX_INSCRIPTION_INDEX == LittleEndian([i \in 1 .. IndexBytes |-> ByteValues - 1])
PROPERTY_KEY_ITEMS == 0
PROPERTY_KEY_GALLERY_TXIDS == 2
ITEM_KEY_ID == 0
ITEM_KEY_INDEX == 2

Token(major, argument) == <<major, FALSE, argument>>
Open(major) == <<major, TRUE, <<>>>>
Break == Open(7)

(* --------------------------------- CBOR -------------------------------- *)

undefined == <<"simple", 23>>
Unending == -1
Undecodable == <<>>

Numeral(n) == <<"numeral", n>>   \* the text that spells n

\* Bytes are spelled in hex, and what is neither text, number nor bytes as JSON.
keyToString(key) ==
  CASE key[1] = "text" -> key[2]
    [] key[1] = "int" -> Numeral(key[2])
    [] key[1] = "bytes" -> <<"0x">> \o key[2]
    [] OTHER -> <<"JSON", key[2]>>

\* Keys and values in turn; of a key that is repeated the last value stays.
put(items) ==
  LET keys == {i \in DOMAIN items : i % 2 = 1}
      Named(key) == {i \in keys : keyToString(items[i]) = key}
  IN  [key \in {keyToString(items[i]) : i \in keys} |-> items[Max(Named(key)) + 1]]

(* Only false, true, null and undefined are not numbers: any other simple  *)
(* value is returned as its number, and a float is one.                    *)
SimpleValue(argument) ==
  IF argument[1] \in 20 .. 23 THEN <<"simple", argument[1]>> ELSE <<"int", Last(argument)>>

Decoded(value, next) == <<[value |-> value, at |-> next]>>

(* The item at a place, given what is read from the places behind it: from. *)
decodeItem(r, from, at, depth) ==
  LET major == r[at][1]
      indefinite == r[at][2]
      argument == r[at][3]
      IsChunk(i) == i \in DOMAIN r /\ r[i][1] = major /\ ~r[i][2]
      end == Min({i \in at + 1 .. Len(r) + 1 : ~IsChunk(i)})
      kind == IF major = 2 THEN "bytes" ELSE "text"
      group == major - 3
      left == IF indefinite THEN Unending ELSE group * argument[1]
      items == from[at + 1].items[depth + 1][left][group]
  IN  IF \/ depth > MaxDepth
         \/ at \notin DOMAIN r
         \/ indefinite /\ major \notin 2 .. 5
         \/ indefinite /\ major \in {2, 3} /\ (end \notin DOMAIN r \/ r[end] # Break)
         \/ major \in {4, 5} /\ items = Undecodable
      THEN Undecodable
      ELSE CASE major = 0 -> Decoded(<<"int", argument[1]>>, at + 1)
             [] major = 1 -> Decoded(<<"int", -1 - argument[1]>>, at + 1)
             [] major \in {2, 3} /\ ~indefinite -> Decoded(<<kind, argument>>, at + 1)
             [] major \in {2, 3} /\ indefinite ->
                  Decoded(<<kind, FlattenSeq([i \in 1 .. end - at - 1 |-> r[at + i][3]])>>, end + 1)
             [] major = 4 -> Decoded(<<"list", items[1].value>>, items[1].at)
             [] major = 5 -> Decoded(<<"map", put(items[1].value)>>, items[1].at)
             [] major = 6 -> from[at + 1].item[depth + 1]
             [] major = 7 -> Decoded(SimpleValue(argument), at + 1)

(* So many items, or those before a break, counted down from Unending: it  *)
(* may stand only where a group (in a map, a key and its value) is complete. *)
decodeItems(r, from, at, depth, left, group) ==
  LET atBreak == at \in DOMAIN r /\ r[at] = Break /\ (Unending - left) % group = 0
      first == decodeItem(r, from, at, depth)
      rest  == from[first[1].at].items[depth][left - 1][group]
  IN  IF left = 0 THEN Decoded(<<>>, at)
      ELSE IF left < 0 /\ atBreak THEN Decoded(<<>>, at + 1)
      ELSE IF first = Undecodable \/ rest = Undecodable THEN Undecodable
      ELSE Decoded(<<first[1].value>> \o rest[1].value, rest[1].at)

\* What is read from each place on, at each depth.
decodeFrom(r) ==
  LET from[at \in 1 .. Len(r) + 1] ==
        [item  |-> [depth \in Nat |-> decodeItem(r, from, at, depth)],
         items |-> [depth \in Nat |-> [left \in Int |-> [group \in {1, 2} |->
                      decodeItems(r, from, at, depth, left, group)]]]]
  IN  from

decodeCbor(bytes) ==
  LET item == decodeFrom(bytes)[1].item[0]
  IN  IF item = Undecodable THEN Undecodable
      ELSE IF item[1].at # Len(bytes) + 1 THEN Undecodable
      ELSE <<item[1].value>>

(* ------------------------------- galleries ----------------------------- *)

InscriptionId(txidLE, index) == [txid |-> Reverse(txidLE), index |-> index]

\* A trailing zero is refused only where the index has a variable width.
parseInscriptionIdValue(value) ==
  LET indexLen == Len(value) - TxidBytes
      digits == SubSeq(value, TxidBytes + 1, Len(value))
  IN  IF \/ indexLen \notin 0 .. IndexBytes
         \/ indexLen \notin {0, IndexBytes} /\ Last(value) = 0
      THEN <<>>
      ELSE <<InscriptionId(SubSeq(value, 1, TxidBytes), LittleEndian(digits))>>

atKey(map, key) == IF Numeral(key) \in DOMAIN map THEN map[Numeral(key)] ELSE undefined

inscriptionIndex(raw) ==
  IF raw = undefined THEN <<0>>
  ELSE IF raw[1] = "int" /\ raw[2] \in 0 .. MAX_INSCRIPTION_INDEX THEN <<raw[2]>> ELSE <<>>

\* What the entry at place i gives: an id, or nothing.
MemberAt(i, entry, packed) ==
  LET serialized == atKey(entry[2], ITEM_KEY_ID)
      index == inscriptionIndex(atKey(entry[2], ITEM_KEY_INDEX))
      txidLE == SubSeq(packed[2], TxidBytes * (i - 1) + 1, TxidBytes * i)
  IN  IF entry[1] # "map" THEN <<>>
      ELSE IF serialized[1] = "bytes" THEN parseInscriptionIdValue(serialized[2])
      ELSE IF packed[1] # "bytes" THEN <<>>
      ELSE IF Len(packed[2]) < TxidBytes * i \/ index = <<>> THEN <<>>
      ELSE <<InscriptionId(txidLE, index[1])>>

\* A mutant: what is no item is filtered out before places are counted.
MembersOfMaps(entries, packed) ==
  LET maps == SelectSeq(entries, LAMBDA entry : entry[1] = "map")
  IN  [i \in DOMAIN maps |-> MemberAt(i, maps[i], packed)]

MembersOf(entries, packed) == [i \in DOMAIN entries |-> MemberAt(i, entries[i], packed)]

NOT_A_GALLERY == [isGallery |-> FALSE, items |-> <<>>, skipped |-> 0]

GalleryOf(properties) ==
  LET entries == atKey(properties[2], PROPERTY_KEY_ITEMS)
      members == MembersOf(entries[2], atKey(properties[2], PROPERTY_KEY_GALLERY_TXIDS))
  IN  IF properties[1] # "map" THEN NOT_A_GALLERY
      ELSE IF entries[1] # "list" THEN NOT_A_GALLERY
      ELSE [isGallery |-> TRUE, items |-> FlattenSeq(members),
            skipped |-> Cardinality({i \in DOMAIN members : members[i] = <<>>})]

parseGallery(properties) ==
  LET decoded == decodeCbor(properties)
  IN  IF decoded = Undecodable THEN NOT_A_GALLERY ELSE GalleryOf(decoded[1])

GalleryEncodingError == <<>>

inscriptionGallery(properties, propertyEncoding, decodedProperties) ==
  LET raw == IF decodedProperties # <<>> THEN decodedProperties ELSE properties
  IN  IF raw = <<>> THEN <<NOT_A_GALLERY>>
      ELSE IF decodedProperties = <<>> /\ propertyEncoding \notin {<<>>, <<"">>}
      THEN GalleryEncodingError
      ELSE <<parseGallery(raw[1])>>

-----------------------------------------------------------------------------
(* A gallery that is declared one entry at a time, and the field it may be *)
(* written in: lengths definite or not, strings in chunks, keys as numbers *)
(* or as texts, values tagged, keys repeated.                              *)

VARIABLE gallery   \* [packed, indefinite, twice, entries]

\* An integer; or a simple value in its first byte or in one more, or a float.
IsIndex(token) ==
  LET argument == token[3]
  IN  /\ token = Token(token[1], argument)
      /\ \/ token[1] \in {0, 1} /\ argument = <<argument[1]>> /\ argument[1] \in Nat
         \/ token[1] = 7 /\ argument = <<argument[1]>> /\ argument[1] \in 0 .. 23
         \/ token[1] = 7 /\ argument \in {24} \X (0 .. 255)
         \/ token[1] = 7 /\ argument \in (25 .. 27) \X Int

(* An item of a list: lists in lists, so deep, or a map with an id that is  *)
(* bytes or a text, an index that is an integer or of major type 7, or     *)
(* neither.                                                                *)
IsEntry(entry) ==
  /\ entry = [id |-> entry.id, index |-> entry.index, lists |-> entry.lists]
  /\ \/ entry.id = <<>>
     \/ \E major \in {2, 3} : entry.id = <<Token(major, entry.id[1][3])>>
  /\ entry.id # <<>> => entry.id[1][3] \in
       Seq(IF entry.id[1][1] = 2 THEN 0 .. ByteValues - 1 ELSE STRING)
  /\ entry.index # <<>> => entry.index = <<entry.index[1]>> /\ IsIndex(entry.index[1])
  /\ entry.lists \in Nat

\* A field, a list, a map, a tag and what is tagged are decoded.
ASSUME GalleryAssumption ==
  /\ TxidBytes \in Nat \ {0} /\ IndexBytes \in Nat /\ ByteValues \in Nat \ {0}
  /\ MaxDepth \in Nat /\ MaxDepth >= 4
  /\ \A entry \in Entries : IsEntry(entry)
  /\ TxidLists \subseteq Seq(0 .. ByteValues - 1)

GalleryInit ==
  gallery \in [packed : {<<>>} \cup {<<Token(2, txids)>> : txids \in TxidLists},
               indefinite : BOOLEAN, twice : BOOLEAN, entries : {<<>>}]

Declare ==
  /\ Len(gallery.entries) < MaxEntries
  /\ \E entry \in Entries, indefinite \in BOOLEAN :
       gallery' = [gallery EXCEPT !.entries = Append(@, <<entry, indefinite>>)]

GallerySpec == GalleryInit /\ [][Declare]_gallery

NoGallery == [packed |-> <<>>, indefinite |-> FALSE, twice |-> FALSE, entries |-> <<>>]

Key(key, indefinite) ==
  <<IF indefinite THEN Token(3, Numeral(key)) ELSE Token(0, <<key>>)>>

Spelled(token, indefinite) ==
  IF ~indefinite THEN <<token>>
  ELSE IF token[1] \in {2, 3}
  THEN <<Open(token[1])>> \o [i \in DOMAIN token[3] |-> Token(token[1], <<token[3][i]>>)]
                          \o <<Break>>
  ELSE <<Token(6, <<1>>), token>>

Pair(key, value, indefinite) ==
  IF value = <<>> THEN <<>> ELSE <<Key(key, indefinite), Spelled(value[1], indefinite)>>

Container(major, items, indefinite) ==
  IF indefinite THEN <<Open(major)>> \o FlattenSeq(items) \o <<Break>>
  ELSE <<Token(major, <<Len(items) \div (major - 3)>>)>> \o FlattenSeq(items)

WrittenEntry(entry, indefinite) ==
  IF entry.lists > 0
  THEN [i \in 1 .. entry.lists |-> Token(4, <<IF i = entry.lists THEN 0 ELSE 1>>)]
  ELSE Container(5, Pair(ITEM_KEY_INDEX, entry.index, indefinite)
                    \o Pair(ITEM_KEY_ID, entry.id, indefinite), indefinite)

Written ==
  LET WrittenItem(item) == WrittenEntry(item[1], item[2])
      Listed(items, indefinite) ==
        <<Key(PROPERTY_KEY_ITEMS, indefinite), Container(4, items, indefinite)>>
      once == Listed([i \in DOMAIN gallery.entries |-> WrittenItem(gallery.entries[i])],
                     gallery.indefinite)
      before == IF gallery.twice THEN Listed(<< <<Token(0, <<1>>)>> >>, ~gallery.indefinite)
                ELSE <<>>
  IN  Container(5, before \o Pair(PROPERTY_KEY_GALLERY_TXIDS, gallery.packed, ~gallery.indefinite)
                   \o once, gallery.indefinite)

(* Of an index the reader asks for a number, not for the unsigned integer  *)
(* that the format has there: a simple value and a float are numbers too.  *)
NumberForms(n) ==
  {Token(0, <<n>>)} \cup {Token(7, <<width, n>>) : width \in 24 .. 27}
    \cup {Token(7, <<m>>) : m \in {n} \cap 0 .. 19}

(* The ids that are declared: an id's txid and index have a shortest form   *)
(* and one of full width; an index counts on the txid in the same place.   *)
IdForms(txid, index) ==
  LET Forms(width) == {digits \in [1 .. width -> 0 .. ByteValues - 1] : LittleEndian(digits) = index}
      Shortest(width) == \A less \in 0 .. width - 1 : Forms(less) = {}
      widths == {width \in 0 .. IndexBytes : width = IndexBytes \/ Shortest(width)}
  IN  {txid \o digits : digits \in UNION {Forms(width) : width \in widths}}

DeclaredAt(i) ==
  LET entry == gallery.entries[i][1]
      txids == {gallery.packed[j][3] : j \in DOMAIN gallery.packed}
      index == IF entry.index \in {<<>>, <<Token(7, <<23>>)>>} THEN Token(0, <<0>>)
               ELSE entry.index[1]
      inline == entry.id # <<>> /\ entry.id[1][1] = 2
      Txids == [1 .. TxidBytes -> 0 .. ByteValues - 1]
      Declares(txid, n) ==
        \/ inline /\ entry.id[1][3] \in IdForms(txid, n)
        \/ /\ ~inline /\ index \in NumberForms(n)
           /\ \E packed \in txids :
                /\ TxidBytes * i <= Len(packed)
                /\ SubSeq(packed, 1, TxidBytes * i) =
                     SubSeq(packed, 1, TxidBytes * (i - 1)) \o txid
      declared == {w \in Txids \X (0 .. MAX_INSCRIPTION_INDEX) : Declares(w[1], w[2])}
  IN  IF entry.lists > 0 THEN {} ELSE {InscriptionId(w[1], w[2]) : w \in declared}

(***************************************************************************)
(* The members read are the ones declared, in their order and with the     *)
(* rest counted as skipped, in whatever way CBOR lets the field be written *)
(* and whatever an entry before them was; and nothing less than the whole  *)
(* field, nor more, nor one nested too deep, nor one with a key and no     *)
(* value, is read as a gallery.  A compressed field is never taken for one *)
(* that declares no gallery.  What stands for an index is any number, as   *)
(* NumberForms has it: that this is too much is what NonItemsAreSkipped    *)
(* says.                                                                   *)
(***************************************************************************)
GalleryIsDeclared ==
  LET declared == [i \in DOMAIN gallery.entries |-> SetToSeq(DeclaredAt(i))]
      items == FlattenSeq(declared)
      \* the map, the list and then the entry's lists
      tooDeep == \E item \in ToSet(gallery.entries) : item[1].lists + 1 > MaxDepth
      read == IF tooDeep THEN NOT_A_GALLERY
              ELSE [isGallery |-> TRUE, items |-> items, skipped |-> Len(declared) - Len(items)]
      field == Written
  IN  /\ parseGallery(field) = read
      /\ \A cut \in 0 .. Len(field) - 1 : parseGallery(SubSeq(field, 1, cut)) = NOT_A_GALLERY
      /\ \A more \in {Break, Token(4, <<0>>)} : parseGallery(Append(field, more)) = NOT_A_GALLERY
      /\ gallery.indefinite =>
           parseGallery(Front(field) \o Key(PROPERTY_KEY_ITEMS, TRUE) \o <<Break>>) = NOT_A_GALLERY
      /\ inscriptionGallery(<<field>>, <<"br">>, <<>>) = GalleryEncodingError
      /\ inscriptionGallery(<< <<Token(2, <<1>>)>> >>, <<"br">>, <<field>>) = <<read>>

\* An item gives an id as bytes, or an index that is an unsigned integer or absent.
IsItem(entry) ==
  /\ entry.lists = 0
  /\ \/ \E id \in ToSet(entry.id) : id[1] = 2
     \/ \A index \in ToSet(entry.index) : index[1] = 0 \/ index = Token(7, <<23>>)

(***************************************************************************)
(* "entries that do not decode as items are skipped" (gallery.ts:20): so   *)
(* there are no more members than items.                                   *)
(***************************************************************************)
NonItemsAreSkipped ==
  Len(parseGallery(Written).items) <=
    Cardinality({i \in DOMAIN gallery.entries : IsItem(gallery.entries[i][1])})
=============================================================================
