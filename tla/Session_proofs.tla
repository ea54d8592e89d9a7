--------------------------- MODULE Session_proofs ---------------------------
(***************************************************************************)
(* Theorems about Session, for any number of calls, any requests and       *)
(* responses, and any frames of other versions.                            *)
(***************************************************************************)
EXTENDS Session, SequenceTheorems, TLAPS

-----------------------------------------------------------------------------
(* Frames. *)

LEMMA EncodedIsFrame ==
  ASSUME NEW n, NEW p, NEW cells, NEW length \in Nat
  PROVE  IsFrame(EncodeEnvelope(n, p, cells, length))
<1> DEFINE row == [protocol_version |-> PROTOCOL_VERSION, request_id |-> n,
                   payload_type |-> Payload[p], payload |-> cells]
           e == EncodeWith(NoRows, Envelope, row)
<1>1. DOMAIN e = Written(Envelope, row)
  BY DEF EncodeWith
<1>2. Written(Envelope, row) \subseteq 1..Len(Envelope)
  BY DEF Written
<1>3. Len(Envelope) \in Nat
  BY DEF Envelope
<1>4. DOMAIN e \subseteq Nat
  BY <1>1, <1>2, <1>3
<1>5. EncodeEnvelope(n, p, cells, length)
        = [declared |-> length, total |-> length + 4, identifier |-> "PNET", envelope |-> e]
  BY DEF EncodeEnvelope
<1> HIDE DEF e
<1> QED
  BY <1>4, <1>5 DEF IsFrame

LEMMA RequestIsFrame ==
  ASSUME NEW n, NEW kind \in DOMAIN RequestPayload, NEW b \in Requests[kind]
  PROVE  IsFrame(EncodeRequest(n, [kind |-> kind, body |-> b]))
<1>1. BodyLength([kind |-> kind, body |-> b]) \in Nat
  BY SessionAssumption DEF HaveLengths
<1> QED
  BY <1>1, EncodedIsFrame DEF EncodeRequest, EncodeMessage

LEMMA ResponseIsFrame ==
  ASSUME NEW n, NEW kind \in DOMAIN ResponsePayload, NEW b \in Responses[kind]
  PROVE  IsFrame(EncodeResponse(n, [kind |-> kind, body |-> b]))
<1>1. BodyLength([kind |-> kind, body |-> b]) \in Nat
  BY SessionAssumption DEF HaveLengths
<1> QED
  BY <1>1, EncodedIsFrame DEF EncodeResponse, EncodeMessage

LEMMA NoFrameIsFrame == IsFrame(NoFrame)
<1>1. DOMAIN NoFrame.envelope = 1..0
  BY DEF NoFrame
<1> QED
  BY <1>1 DEF IsFrame, NoFrame

\* What write_frame lets out, read_frame takes in.
LEMMA ValidIsReadable == ASSUME NEW f, ValidFrameLength(f) PROVE ReadableLength(f)
BY DEF ValidFrameLength, ReadableLength

-----------------------------------------------------------------------------
(* Tables that read back.  A table of the schema is sound: its slots have  *)
(* names of their own, a flag is a slot that speaks of one other, and the  *)
(* default of a field tells None from a value where its type has a None.   *)
(* Whatever is written into the slots of such a table, left out when it is *)
(* the default, reads back as the typed value it came from.                *)

HasFlag(f) == f.flag # ""

SoundField(f) ==
  /\ f.type \in {"bool", "number", "enum", "text", "rows", "table"}
  /\ f.default = None <=> f.type \in {"text", "rows", "table"}
  /\ HasFlag(f) => f.type \in {"bool", "number", "enum"} /\ f.absent = None
  /\ f.type = "enum" => \A m, n \in Known(f.of) : f.of[m] = f.of[n] => m = n

IsFlag(f, n) == f.name = n /\ f.type = "bool" /\ f.default = FALSE /\ ~HasFlag(f)

SoundTable(T) ==
  /\ \A i, j \in 1..Len(T) : T[i].name = T[j].name => i = j
  /\ \A i \in 1..Len(T) : SoundField(T[i])
  /\ \A i \in 1..Len(T) : HasFlag(T[i]) =>
       /\ \A j \in 1..Len(T) : T[j].flag = T[i].flag => j = i
       /\ \E h \in 1..Len(T) : IsFlag(T[h], T[i].flag)

LEMMA SlotNamed ==
  ASSUME NEW T, SoundTable(T), NEW i \in 1..Len(T)
  PROVE  SlotOf(T, T[i].name) = i
BY DEF SlotOf, SoundTable

\* A slot reads as what was to be written into it, written or not.
LEMMA ReadBack ==
  ASSUME NEW T, SoundTable(T), NEW value, NEW cells, DOMAIN cells = Written(T, value),
         NEW i \in 1..Len(T),
         i \in DOMAIN cells => cells[i] = WireValue(T, value, T[i].name)
  PROVE  /\ Read(T, cells, T[i].name) = WireValue(T, value, T[i].name)
         /\ i \in DOMAIN cells <=> WireValue(T, value, T[i].name) # T[i].default
<1>1. SlotOf(T, T[i].name) = i
  BY SlotNamed
<1>2. i \in DOMAIN cells <=> WireValue(T, value, T[i].name) # T[i].default
  BY DEF Written
<1> QED
  BY <1>1, <1>2 DEF Read

\* The flag of a field is set if there is a value.
LEMMA FlagBack ==
  ASSUME NEW T, SoundTable(T), NEW value, NEW cells, DOMAIN cells = Written(T, value),
         \A j \in DOMAIN cells : T[j].type # "rows" => cells[j] = WireValue(T, value, T[j].name),
         NEW i \in 1..Len(T), HasFlag(T[i])
  PROVE  Read(T, cells, T[i].flag) = (value[T[i].name] # None)
<1>1. PICK h \in 1..Len(T) : IsFlag(T[h], T[i].flag)
  BY DEF SoundTable
<1>2. Read(T, cells, T[h].name) = WireValue(T, value, T[h].name)
  BY <1>1, ReadBack DEF IsFlag
<1>3. SlotOf(T, T[h].name) = h
  BY SlotNamed
<1>4. T[h].name \in Flags(T)
  BY <1>1 DEF Flags, IsFlag
<1>5. FlaggedBy(T, T[h].name) = T[i].name
  <2>1. \A j \in 1..Len(T) : T[j].flag = T[h].name <=> j = i
    BY <1>1 DEF IsFlag, SoundTable
  <2> QED
    BY <2>1 DEF FlaggedBy
<1> QED
  BY <1>1, <1>2, <1>4, <1>5 DEF WireValue, IsFlag

\* The typed value of a slot is the one it was encoded from; vectors are left to the caller.
LEMMA TypedBack ==
  ASSUME NEW T, SoundTable(T), NEW value,
         NEW cells, DOMAIN cells = Written(T, value),
         \A j \in DOMAIN cells : T[j].type # "rows" => cells[j] = WireValue(T, value, T[j].name),
         NEW n \in Fields(T), Fits(T[SlotOf(T, n)], value[n])
  PROVE  LET i == SlotOf(T, n)
         IN  /\ T[i].type # "rows" => TypedValue(T, cells, n) = value[n]
             /\ T[i].type = "rows" => i \in DOMAIN cells /\ TypedValue(T, cells, n) = cells[i]

<1> DEFINE i == SlotOf(T, n)
           w == WireValue(T, value, n)
<1>1. n \in Names(T) /\ n \notin Flags(T)
  BY DEF Fields
<1>2. PICK k \in 1..Len(T) : T[k].name = n
  BY <1>1 DEF Names
<1>3. i = k /\ i \in 1..Len(T) /\ T[i].name = n
  BY <1>2, SlotNamed
<1>4. w = IF value[n] = None THEN T[i].default
          ELSE IF T[i].type = "enum" THEN T[i].of[value[n]] ELSE value[n]
  BY <1>1 DEF WireValue
<1>5. SoundField(T[i])
  BY <1>3 DEF SoundTable
<1>6. /\ value[n] = None => HasFlag(T[i]) \/ (T[i].type = "text" /\ T[i].absent = None)
      /\ T[i].type = "enum" /\ value[n] # None => value[n] \in Known(T[i].of)
  BY DEF Fits, HasFlag
<1>7. HasFlag(T[i]) => Read(T, cells, T[i].flag) = (value[n] # None)
  <2>1. HasFlag(T[i]) => Read(T, cells, T[i].flag) = (value[T[i].name] # None)
    <3> HIDE DEF i
    <3> QED BY <1>3, FlagBack
  <2> QED
    BY <2>1, <1>3, Zenon
<1>8. i \in DOMAIN cells <=> w # T[i].default
  BY <1>3 DEF Written
<1>9. T[i].type # "rows" => Read(T, cells, n) = w
  BY <1>3, ReadBack
<1>10. T[i].type = "enum" /\ value[n] # None => NameOf(T[i].of, w) = value[n]
  BY <1>4, <1>5, <1>6 DEF NameOf, SoundField
<1> HIDE DEF i, w
<1>11. IsGiven(T, cells, n) <=> value[n] # None
  <2>1. CASE HasFlag(T[i])
    BY <2>1, <1>7 DEF IsGiven, i, HasFlag
  <2>2. CASE ~HasFlag(T[i])
    <3>1. IsGiven(T, cells, n) <=> T[i].default # None \/ i \in DOMAIN cells
      BY <2>2 DEF IsGiven, i, HasFlag
    <3>2. value[n] = None => T[i].default = None /\ i \notin DOMAIN cells
      BY <2>2, <1>4, <1>5, <1>6, <1>8 DEF SoundField
    <3>3. value[n] # None /\ T[i].default = None => i \in DOMAIN cells
      BY <2>2, <1>4, <1>5, <1>8 DEF SoundField
    <3> QED
      BY <3>1, <3>2, <3>3
  <2> QED
    BY <2>1, <2>2
<1>12. T[i].type # "rows" => TypedValue(T, cells, n) = value[n]
  <2> SUFFICES ASSUME T[i].type # "rows" PROVE TypedValue(T, cells, n) = value[n]
    OBVIOUS
  <2>1. CASE value[n] = None
    <3>1. T[i].absent = None
      BY <2>1, <1>5, <1>6 DEF SoundField
    <3> QED
      BY <2>1, <3>1, <1>11 DEF TypedValue, i
  <2>2. CASE value[n] # None /\ T[i].type = "enum"
    BY <2>2, <1>9, <1>10, <1>11 DEF TypedValue, i
  <2>3. CASE value[n] # None /\ T[i].type # "enum"
    BY <2>3, <1>4, <1>9, <1>11 DEF TypedValue, i
  <2> QED
    BY <2>1, <2>2, <2>3
<1>13. T[i].type = "rows" => i \in DOMAIN cells /\ TypedValue(T, cells, n) = cells[i]
  <2> SUFFICES ASSUME T[i].type = "rows" PROVE i \in DOMAIN cells /\ TypedValue(T, cells, n) = cells[i]
    OBVIOUS
  <2>1. value[n] # None /\ T[i].default = None
    BY <1>5, <1>6 DEF SoundField
  <2>2. i \in DOMAIN cells
    BY <2>1, <1>4, <1>8
  <2>3. Read(T, cells, n) = cells[i]
    BY <2>2 DEF Read, i
  <2> QED
    BY <2>1, <2>2, <2>3, <1>11 DEF TypedValue, i
<1> QED
  BY <1>12, <1>13 DEF i

-----------------------------------------------------------------------------
\* The tables a table's vectors hold are sound, to the depth they nest.
SoundInner(T) ==
  SoundTable(T) /\ \A i \in 1..Len(T) : T[i].type = "rows" => SoundTable(T[i].of)
SoundMessage(T) ==
  SoundTable(T) /\ \A i \in 1..Len(T) : T[i].type = "rows" => SoundInner(T[i].of)

LEMMA FieldSlot ==
  ASSUME NEW T, SoundTable(T), NEW n \in Fields(T)
  PROVE  SlotOf(T, n) \in 1..Len(T) /\ T[SlotOf(T, n)].name = n
<1>1. PICK k \in 1..Len(T) : T[k].name = n
  BY DEF Fields, Names
<1> QED
  BY <1>1, SlotNamed

LEMMA RowsAreWritten ==
  ASSUME NEW T, SoundTable(T), NEW value, NEW n \in Fields(T),
         Fits(T[SlotOf(T, n)], value[n]), T[SlotOf(T, n)].type = "rows"
  PROVE  WireValue(T, value, n) = value[n]
BY FieldSlot DEF WireValue, Fits, HasFlag, Fields, SoundTable, SoundField

LEMMA LeafBack ==
  ASSUME NEW T, SoundTable(T), NEW value, HasLeafType(T, value)
  PROVE  DecodeLeaf(T, EncodeLeaf(T, value)) = value
<1> DEFINE cells == EncodeLeaf(T, value)
<1>1. /\ DOMAIN cells = Written(T, value)
      /\ \A j \in DOMAIN cells : T[j].type # "rows" => cells[j] = WireValue(T, value, T[j].name)
      /\ \A j \in DOMAIN cells : T[j].type = "rows" =>
           LET v == WireValue(T, value, T[j].name)
           IN  cells[j] = [k \in DOMAIN v |-> v[k]]
  BY DEF EncodeLeaf, EncodeWith, NoRows
<1>2. ASSUME NEW n \in Fields(T), T[SlotOf(T, n)].type = "rows", NEW v,
             v = [k \in DOMAIN value[n] |-> value[n][k]]
      PROVE  [k \in DOMAIN v |-> v[k]] = value[n]
  BY <1>2 DEF HasLeafType, HasType
<1> HIDE DEF cells
<1>3. ASSUME NEW n \in Fields(T) PROVE DecodeLeaf(T, cells)[n] = value[n]
  <2> DEFINE v == TypedValue(T, cells, n)
  <2>1. SoundTable(T) /\ Fits(T[SlotOf(T, n)], value[n])
    BY DEF HasLeafType, HasType
  <2>2. /\ T[SlotOf(T, n)].type # "rows" => v = value[n]
        /\ T[SlotOf(T, n)].type = "rows" => SlotOf(T, n) \in DOMAIN cells /\ v = cells[SlotOf(T, n)]
    BY <1>1, <2>1, TypedBack
  <2>3. CASE T[SlotOf(T, n)].type # "rows"
    BY <2>2, <2>3 DEF DecodeLeaf, DecodeWith
  <2>4. CASE T[SlotOf(T, n)].type = "rows"
    <3>1. WireValue(T, value, n) = value[n]
      BY <2>1, <2>4, RowsAreWritten
    <3>2. v = [k \in DOMAIN value[n] |-> value[n][k]]
      BY <1>1, <2>1, <2>2, <2>4, <3>1, FieldSlot
    <3>3. DecodeLeaf(T, cells)[n] = [k \in DOMAIN v |-> v[k]]
      BY <2>4 DEF DecodeLeaf, DecodeWith, NoRows
    <3> HIDE DEF v
    <3> QED
      BY <1>2, <2>4, <3>2, <3>3
  <2> QED
    BY <2>3, <2>4
<1>4. DecodeLeaf(T, cells) = [n \in Fields(T) |-> DecodeLeaf(T, cells)[n]]
  BY DEF DecodeLeaf, DecodeWith
<1>5. value = [n \in Fields(T) |-> value[n]]
  BY DEF HasLeafType, HasType
<1> QED
  BY <1>3, <1>4, <1>5 DEF cells

LEMMA InnerBack ==
  ASSUME NEW T, SoundInner(T), NEW value, HasInnerType(T, value)
  PROVE  DecodeInner(T, EncodeInner(T, value)) = value
<1> DEFINE cells == EncodeInner(T, value)
<1>1. /\ DOMAIN cells = Written(T, value)
      /\ \A j \in DOMAIN cells : T[j].type # "rows" => cells[j] = WireValue(T, value, T[j].name)
      /\ \A j \in DOMAIN cells : T[j].type = "rows" =>
           LET v == WireValue(T, value, T[j].name)
           IN  cells[j] = [k \in DOMAIN v |-> EncodeLeaf(T[j].of, v[k])]
  BY DEF EncodeInner, EncodeWith
<1>2. ASSUME NEW n \in Fields(T), T[SlotOf(T, n)].type = "rows", NEW v,
             v = [k \in DOMAIN value[n] |-> EncodeLeaf(T[SlotOf(T, n)].of, value[n][k])]
      PROVE  [k \in DOMAIN v |-> DecodeLeaf(T[SlotOf(T, n)].of, v[k])] = value[n]
  <2> DEFINE R == T[SlotOf(T, n)].of
  <2>1. /\ value[n] = [k \in DOMAIN value[n] |-> value[n][k]]
        /\ \A k \in DOMAIN value[n] : HasLeafType(R, value[n][k])
    BY <1>2 DEF HasInnerType, HasType
  <2>2. SoundTable(R)
    BY <1>2, FieldSlot DEF SoundInner
  <2>3. \A k \in DOMAIN value[n] : DecodeLeaf(R, EncodeLeaf(R, value[n][k])) = value[n][k]
    BY <2>1, <2>2, LeafBack
  <2> HIDE DEF R
  <2>4. [k \in DOMAIN value[n] |-> DecodeLeaf(R, EncodeLeaf(R, value[n][k]))] = value[n]
    BY <2>1, <2>3
  <2> QED
    BY <1>2, <2>4 DEF R
<1> HIDE DEF cells
<1>3. ASSUME NEW n \in Fields(T) PROVE DecodeInner(T, cells)[n] = value[n]
  <2> DEFINE v == TypedValue(T, cells, n)
  <2>1. SoundTable(T) /\ Fits(T[SlotOf(T, n)], value[n])
    BY DEF HasInnerType, HasType, SoundInner
  <2>2. /\ T[SlotOf(T, n)].type # "rows" => v = value[n]
        /\ T[SlotOf(T, n)].type = "rows" => SlotOf(T, n) \in DOMAIN cells /\ v = cells[SlotOf(T, n)]
    BY <1>1, <2>1, TypedBack
  <2>3. CASE T[SlotOf(T, n)].type # "rows"
    BY <2>2, <2>3 DEF DecodeInner, DecodeWith
  <2>4. CASE T[SlotOf(T, n)].type = "rows"
    <3>1. WireValue(T, value, n) = value[n]
      BY <2>1, <2>4, RowsAreWritten
    <3>2. v = [k \in DOMAIN value[n] |-> EncodeLeaf(T[SlotOf(T, n)].of, value[n][k])]
      BY <1>1, <2>1, <2>2, <2>4, <3>1, FieldSlot
    <3>3. DecodeInner(T, cells)[n] = [k \in DOMAIN v |-> DecodeLeaf(T[SlotOf(T, n)].of, v[k])]
      BY <2>4 DEF DecodeInner, DecodeWith
    <3> HIDE DEF v
    <3> QED
      BY <1>2, <2>4, <3>2, <3>3
  <2> QED
    BY <2>3, <2>4
<1>4. DecodeInner(T, cells) = [n \in Fields(T) |-> DecodeInner(T, cells)[n]]
  BY DEF DecodeInner, DecodeWith
<1>5. value = [n \in Fields(T) |-> value[n]]
  BY DEF HasInnerType, HasType
<1> QED
  BY <1>3, <1>4, <1>5 DEF cells

LEMMA MessageBack ==
  ASSUME NEW T, SoundMessage(T), NEW value, HasMessageType(T, value)
  PROVE  DecodeTable(T, EncodeTable(T, value)) = value
<1> DEFINE cells == EncodeTable(T, value)
<1>1. /\ DOMAIN cells = Written(T, value)
      /\ \A j \in DOMAIN cells : T[j].type # "rows" => cells[j] = WireValue(T, value, T[j].name)
      /\ \A j \in DOMAIN cells : T[j].type = "rows" =>
           LET v == WireValue(T, value, T[j].name)
           IN  cells[j] = [k \in DOMAIN v |-> EncodeInner(T[j].of, v[k])]
  BY DEF EncodeTable, EncodeWith
<1>2. ASSUME NEW n \in Fields(T), T[SlotOf(T, n)].type = "rows", NEW v,
             v = [k \in DOMAIN value[n] |-> EncodeInner(T[SlotOf(T, n)].of, value[n][k])]
      PROVE  [k \in DOMAIN v |-> DecodeInner(T[SlotOf(T, n)].of, v[k])] = value[n]
  <2> DEFINE R == T[SlotOf(T, n)].of
  <2>1. /\ value[n] = [k \in DOMAIN value[n] |-> value[n][k]]
        /\ \A k \in DOMAIN value[n] : HasInnerType(R, value[n][k])
    BY <1>2 DEF HasMessageType, HasType
  <2>2. SoundInner(R)
    BY <1>2, FieldSlot DEF SoundMessage
  <2>3. \A k \in DOMAIN value[n] : DecodeInner(R, EncodeInner(R, value[n][k])) = value[n][k]
    BY <2>1, <2>2, InnerBack
  <2> HIDE DEF R
  <2>4. [k \in DOMAIN value[n] |-> DecodeInner(R, EncodeInner(R, value[n][k]))] = value[n]
    BY <2>1, <2>3
  <2> QED
    BY <1>2, <2>4 DEF R
<1> HIDE DEF cells
<1>3. ASSUME NEW n \in Fields(T) PROVE DecodeTable(T, cells)[n] = value[n]
  <2> DEFINE v == TypedValue(T, cells, n)
  <2>1. SoundTable(T) /\ Fits(T[SlotOf(T, n)], value[n])
    BY DEF HasMessageType, HasType, SoundMessage
  <2>2. /\ T[SlotOf(T, n)].type # "rows" => v = value[n]
        /\ T[SlotOf(T, n)].type = "rows" => SlotOf(T, n) \in DOMAIN cells /\ v = cells[SlotOf(T, n)]
    BY <1>1, <2>1, TypedBack
  <2>3. CASE T[SlotOf(T, n)].type # "rows"
    BY <2>2, <2>3 DEF DecodeTable, DecodeWith
  <2>4. CASE T[SlotOf(T, n)].type = "rows"
    <3>1. WireValue(T, value, n) = value[n]
      BY <2>1, <2>4, RowsAreWritten
    <3>2. v = [k \in DOMAIN value[n] |-> EncodeInner(T[SlotOf(T, n)].of, value[n][k])]
      BY <1>1, <2>1, <2>2, <2>4, <3>1, FieldSlot
    <3>3. DecodeTable(T, cells)[n] = [k \in DOMAIN v |-> DecodeInner(T[SlotOf(T, n)].of, v[k])]
      BY <2>4 DEF DecodeTable, DecodeWith
    <3> HIDE DEF v
    <3> QED
      BY <1>2, <2>4, <3>2, <3>3
  <2> QED
    BY <2>3, <2>4
<1>4. DecodeTable(T, cells) = [n \in Fields(T) |-> DecodeTable(T, cells)[n]]
  BY DEF DecodeTable, DecodeWith
<1>5. value = [n \in Fields(T) |-> value[n]]
  BY DEF HasMessageType, HasType
<1> QED
  BY <1>3, <1>4, <1>5 DEF cells

-----------------------------------------------------------------------------
(* The tables of the schema are sound. *)

\* A field of the schema: its name, its flag, and a type that fits its default.
FieldIs(f, n)    == SoundField(f) /\ f.type # "rows" /\ f.name = n /\ ~HasFlag(f)
GivenIs(f, n, h) == SoundField(f) /\ f.type # "rows" /\ f.name = n /\ f.flag = h
RowsAre(f, n, R) == SoundField(f) /\ f.type = "rows" /\ f.name = n /\ ~HasFlag(f) /\ f.of = R

LEMMA BoolIs ==
  ASSUME NEW n, NEW d \in BOOLEAN PROVE FieldIs(Bool(n, d), n)
BY SessionAssumption DEF Bool, Field, FieldIs, GivenIs, RowsAre, HasFlag, SoundField

LEMMA FlagIs == ASSUME NEW n PROVE IsFlag(Bool(n, FALSE), n)
BY DEF Bool, Field, IsFlag, HasFlag

LEMMA NumberIs == ASSUME NEW n, NEW d \in Nat PROVE FieldIs(Number(n, d), n)
BY SessionAssumption DEF Number, Field, FieldIs, GivenIs, RowsAre, HasFlag, SoundField

LEMMA OptTextIs == ASSUME NEW n PROVE FieldIs(OptText(n), n)
BY DEF OptText, Field, FieldIs, GivenIs, RowsAre, HasFlag, SoundField

LEMMA TextIs == ASSUME NEW n PROVE FieldIs(Text(n), n)
BY DEF Text, OptText, Field, FieldIs, GivenIs, RowsAre, HasFlag, SoundField

LEMMA OtherwiseTextIs ==
  ASSUME NEW n, NEW a PROVE FieldIs([OptText(n) EXCEPT !.absent = a], n)
BY DEF OptText, Field, FieldIs, GivenIs, RowsAre, HasFlag, SoundField

LEMMA PayloadIs == ASSUME NEW n PROVE FieldIs(Field(n, "table", None), n)
BY DEF Field, FieldIs, GivenIs, RowsAre, HasFlag, SoundField

LEMMA OptRowsIs == ASSUME NEW n, NEW R PROVE RowsAre(OptRows(n, R), n, R)
BY DEF OptRows, Field, FieldIs, GivenIs, RowsAre, HasFlag, SoundField

LEMMA RowsIs == ASSUME NEW n, NEW R PROVE RowsAre(Rows(n, R), n, R)
BY DEF Rows, OptRows, Field, FieldIs, GivenIs, RowsAre, HasFlag, SoundField

\* A sound table whose vectors hold rows of the tables in Rs.
SoundWith(T, Rs) == SoundTable(T) /\ \A i \in 1..Len(T) : T[i].type = "rows" => T[i].of \in Rs

\* No two names of an enumeration have the same byte.
Distinct(E) == \A m, n \in Known(E) : E[m] = E[n] => m = n

LEMMA EnumIs == ASSUME NEW n, NEW E, Distinct(E) PROVE FieldIs(Enum(n, E), n)
BY SessionAssumption DEF Enum, Field, FieldIs, GivenIs, RowsAre, HasFlag, SoundField, Distinct

LEMMA GivenBoolIs ==
  ASSUME NEW n, NEW d \in BOOLEAN, NEW h PROVE GivenIs(Given(Bool(n, d), h), n, h)
BY SessionAssumption DEF Given, Bool, Field, FieldIs, GivenIs, RowsAre, HasFlag, SoundField

LEMMA GivenNumberIs ==
  ASSUME NEW n, NEW d \in Nat, NEW h PROVE GivenIs(Given(Number(n, d), h), n, h)
BY SessionAssumption DEF Given, Number, Field, FieldIs, GivenIs, RowsAre, HasFlag, SoundField

LEMMA GivenEnumIs ==
  ASSUME NEW n, NEW E, Distinct(E), NEW h PROVE GivenIs(Given(Enum(n, E), h), n, h)
BY SessionAssumption
   DEF Given, Enum, Field, FieldIs, GivenIs, RowsAre, HasFlag, SoundField, Distinct

LEMMA EnumsSound ==
  /\ Distinct(ErrorCode) /\ Distinct(CapabilityState) /\ Distinct(ConfigFormat)
  /\ Distinct(ConfigAction) /\ Distinct(OperationRisk) /\ Distinct(JobState)
<1>1. Distinct(ErrorCode) BY DEF Distinct, Known, ErrorCode
<1>2. Distinct(CapabilityState) BY DEF Distinct, Known, CapabilityState
<1>3. Distinct(ConfigFormat) BY DEF Distinct, Known, ConfigFormat
<1>4. Distinct(ConfigAction) BY DEF Distinct, Known, ConfigAction
<1>5. Distinct(OperationRisk) BY DEF Distinct, Known, OperationRisk
<1>6. Distinct(JobState) BY DEF Distinct, Known, JobState
<1> QED
  BY <1>1, <1>2, <1>3, <1>4, <1>5, <1>6

\* Two fields with the same flag have one or have none.
LEMMA SameFlag ==
  ASSUME NEW f, NEW g, f.flag = g.flag, HasFlag(f) PROVE HasFlag(g)
BY DEF HasFlag

LEMMA EmptySound == SoundWith(<<>>, {})
BY DEF SoundTable, SoundWith

LEMMA PingResponseSound == SoundWith(PingResponse, {})
<1> DEFINE T == PingResponse
<1>1. Len(T) = 2 /\ 1..Len(T) = {1, 2}
  BY DEF PingResponse
<1>2. /\ T[1] = Text("daemon_version") /\ T[2] = Number("protocol_version", 0)
  BY DEF PingResponse
<1> HIDE DEF T
<1>3. FieldIs(T[1], "daemon_version")
  BY <1>2, TextIs
<1>4. FieldIs(T[2], "protocol_version")
  BY <1>2, NumberIs
<1>5. SoundWith(T, {})
  BY <1>1, <1>3, <1>4 DEF FieldIs, SoundTable, SoundWith, T
<1> QED
  BY <1>5 DEF T

LEMMA CapabilitySound == SoundWith(Capability, {})
<1> DEFINE T == Capability
<1>1. Len(T) = 3 /\ 1..Len(T) = {1, 2, 3}
  BY DEF Capability
<1>2. /\ T[1] = Text("name") /\ T[2] = Enum("state", CapabilityState) /\ T[3] = OptText("reason")
  BY DEF Capability
<1> HIDE DEF T
<1>3. FieldIs(T[1], "name")
  BY <1>2, TextIs
<1>4. FieldIs(T[2], "state")
  BY <1>2, EnumIs, EnumsSound
<1>5. FieldIs(T[3], "reason")
  BY <1>2, OptTextIs
<1>6. SoundWith(T, {})
  BY <1>1, <1>3, <1>4, <1>5 DEF FieldIs, SoundTable, SoundWith, T
<1> QED
  BY <1>6 DEF T

LEMMA CapabilitiesResponseSound == SoundWith(CapabilitiesResponse, {Capability})
<1> DEFINE T == CapabilitiesResponse
<1>1. Len(T) = 1 /\ 1..Len(T) = {1}
  BY DEF CapabilitiesResponse
<1>2. T[1] = Rows("capabilities", Capability)
  BY DEF CapabilitiesResponse
<1> HIDE DEF T
<1>3. RowsAre(T[1], "capabilities", Capability)
  BY <1>2, RowsIs
<1>4. SoundWith(T, {Capability})
  BY <1>1, <1>3 DEF FieldIs, RowsAre, SoundTable, SoundWith, T
<1> QED
  BY <1>4 DEF T

LEMMA IpAddressSound == SoundWith(IpAddress, {})
<1> DEFINE T == IpAddress
<1>1. Len(T) = 2 /\ 1..Len(T) = {1, 2}
  BY DEF IpAddress
<1>2. /\ T[1] = Text("address") /\ T[2] = Number("prefix_length", 0)
  BY DEF IpAddress
<1> HIDE DEF T
<1>3. FieldIs(T[1], "address")
  BY <1>2, TextIs
<1>4. FieldIs(T[2], "prefix_length")
  BY <1>2, NumberIs
<1>5. SoundWith(T, {})
  BY <1>1, <1>3, <1>4 DEF FieldIs, SoundTable, SoundWith, T
<1> QED
  BY <1>5 DEF T

LEMMA AdapterSound == SoundWith(Adapter, {IpAddress})
<1> DEFINE T == Adapter
           S == {1, 2, 3, 4, 5, 6, 7, 8, 9}
<1>1. Len(T) = 9 /\ 1..Len(T) = S
  BY DEF Adapter
<1>2. /\ T[1] = Number("if_index", 0) /\ T[2] = Text("name") /\ T[3] = OptText("description")
      /\ T[4] = OptText("guid") /\ T[5] = OptText("mac_address")
      /\ T[6] = [OptText("status") EXCEPT !.absent = "unknown"] /\ T[7] = Bool("hardware", FALSE)
      /\ T[8] = OptRows("ipv4", IpAddress) /\ T[9] = OptRows("ipv6", IpAddress)
  BY DEF Adapter
<1> HIDE DEF T
<1>3. FieldIs(T[1], "if_index")
  BY <1>2, NumberIs
<1>4. FieldIs(T[2], "name")
  BY <1>2, TextIs
<1>5. /\ FieldIs(T[3], "description") /\ FieldIs(T[4], "guid") /\ FieldIs(T[5], "mac_address")
  BY <1>2, OptTextIs
<1>6. FieldIs(T[6], "status")
  BY <1>2, OtherwiseTextIs
<1>7. FieldIs(T[7], "hardware")
  BY <1>2, BoolIs
<1>8. /\ RowsAre(T[8], "ipv4", IpAddress) /\ RowsAre(T[9], "ipv6", IpAddress)
  BY <1>2, OptRowsIs
<1>9. /\ T[1].name = "if_index" /\ T[2].name = "name" /\ T[3].name = "description"
      /\ T[4].name = "guid" /\ T[5].name = "mac_address" /\ T[6].name = "status"
      /\ T[7].name = "hardware" /\ T[8].name = "ipv4" /\ T[9].name = "ipv6"
  BY <1>3, <1>4, <1>5, <1>6, <1>7, <1>8 DEF FieldIs, RowsAre
<1>10. \A i, j \in S : T[i].name = T[j].name => i = j
  BY <1>9
<1>11. \A i \in S : /\ SoundField(T[i]) /\ ~HasFlag(T[i])
                    /\ T[i].type = "rows" => T[i].of \in {IpAddress}
  BY <1>3, <1>4, <1>5, <1>6, <1>7, <1>8 DEF FieldIs, RowsAre
<1>12. SoundWith(T, {IpAddress})
  BY <1>1, <1>10, <1>11 DEF SoundTable, SoundWith
<1> QED
  BY <1>12 DEF T

LEMMA ListAdaptersResponseSound == SoundWith(ListAdaptersResponse, {Adapter})
<1> DEFINE T == ListAdaptersResponse
<1>1. Len(T) = 1 /\ 1..Len(T) = {1}
  BY DEF ListAdaptersResponse
<1>2. T[1] = Rows("adapters", Adapter)
  BY DEF ListAdaptersResponse
<1> HIDE DEF T
<1>3. RowsAre(T[1], "adapters", Adapter)
  BY <1>2, RowsIs
<1>4. SoundWith(T, {Adapter})
  BY <1>1, <1>3 DEF FieldIs, RowsAre, SoundTable, SoundWith, T
<1> QED
  BY <1>4 DEF T

LEMMA ConfigRequestSound == SoundWith(ConfigRequest, {})
<1> DEFINE T == ConfigRequest
<1>1. Len(T) = 4 /\ 1..Len(T) = {1, 2, 3, 4}
  BY DEF ConfigRequest
<1>2. /\ T[1] = Enum("action", ConfigAction) /\ T[2] = Enum("format", ConfigFormat)
      /\ T[3] = Text("document") /\ T[4] = Bool("dry_run", TRUE)
  BY DEF ConfigRequest
<1> HIDE DEF T
<1>3. /\ FieldIs(T[1], "action") /\ FieldIs(T[2], "format")
  BY <1>2, EnumIs, EnumsSound
<1>4. FieldIs(T[3], "document")
  BY <1>2, TextIs
<1>5. FieldIs(T[4], "dry_run")
  BY <1>2, BoolIs
<1>6. SoundWith(T, {})
  BY <1>1, <1>3, <1>4, <1>5 DEF FieldIs, SoundTable, SoundWith, T
<1> QED
  BY <1>6 DEF T

LEMMA ValidationIssueSound == SoundWith(ValidationIssue, {})
<1> DEFINE T == ValidationIssue
<1>1. Len(T) = 2 /\ 1..Len(T) = {1, 2}
  BY DEF ValidationIssue
<1>2. /\ T[1] = OptText("path") /\ T[2] = Text("message")
  BY DEF ValidationIssue
<1> HIDE DEF T
<1>3. FieldIs(T[1], "path")
  BY <1>2, OptTextIs
<1>4. FieldIs(T[2], "message")
  BY <1>2, TextIs
<1>5. SoundWith(T, {})
  BY <1>1, <1>3, <1>4 DEF FieldIs, SoundTable, SoundWith, T
<1> QED
  BY <1>5 DEF T

LEMMA ValidateConfigResponseSound == SoundWith(ValidateConfigResponse, {ValidationIssue})
<1> DEFINE T == ValidateConfigResponse
<1>1. Len(T) = 2 /\ 1..Len(T) = {1, 2}
  BY DEF ValidateConfigResponse
<1>2. /\ T[1] = Bool("valid", FALSE) /\ T[2] = Rows("issues", ValidationIssue)
  BY DEF ValidateConfigResponse
<1> HIDE DEF T
<1>3. FieldIs(T[1], "valid")
  BY <1>2, BoolIs
<1>4. RowsAre(T[2], "issues", ValidationIssue)
  BY <1>2, RowsIs
<1>5. SoundWith(T, {ValidationIssue})
  BY <1>1, <1>3, <1>4 DEF FieldIs, RowsAre, SoundTable, SoundWith, T
<1> QED
  BY <1>5 DEF T

LEMMA OperationSound == SoundWith(Operation, {})
<1> DEFINE T == Operation
           S == {1, 2, 3, 4, 5}
<1>1. Len(T) = 5 /\ 1..Len(T) = S
  BY DEF Operation
<1>2. /\ T[1] = Text("id") /\ T[2] = Text("capability") /\ T[3] = Text("summary")
      /\ T[4] = Enum("risk", OperationRisk) /\ T[5] = OptText("target")
  BY DEF Operation
<1> HIDE DEF T
<1>3. /\ FieldIs(T[1], "id") /\ FieldIs(T[2], "capability") /\ FieldIs(T[3], "summary")
  BY <1>2, TextIs
<1>4. FieldIs(T[4], "risk")
  BY <1>2, EnumIs, EnumsSound
<1>5. FieldIs(T[5], "target")
  BY <1>2, OptTextIs
<1>6. /\ T[1].name = "id" /\ T[2].name = "capability" /\ T[3].name = "summary"
      /\ T[4].name = "risk" /\ T[5].name = "target"
  BY <1>3, <1>4, <1>5 DEF FieldIs
<1>7. \A i, j \in S : T[i].name = T[j].name => i = j
  BY <1>6
<1>8. \A i \in S : SoundField(T[i]) /\ ~HasFlag(T[i]) /\ (T[i].type = "rows" => T[i].of \in {})
  BY <1>3, <1>4, <1>5 DEF FieldIs
<1>9. SoundWith(T, {})
  BY <1>1, <1>7, <1>8 DEF SoundTable, SoundWith
<1> QED
  BY <1>9 DEF T

LEMMA PlanConfigResponseSound == SoundWith(PlanConfigResponse, {Operation})
<1> DEFINE T == PlanConfigResponse
<1>1. Len(T) = 1 /\ 1..Len(T) = {1}
  BY DEF PlanConfigResponse
<1>2. T[1] = Rows("operations", Operation)
  BY DEF PlanConfigResponse
<1> HIDE DEF T
<1>3. RowsAre(T[1], "operations", Operation)
  BY <1>2, RowsIs
<1>4. SoundWith(T, {Operation})
  BY <1>1, <1>3 DEF FieldIs, RowsAre, SoundTable, SoundWith, T
<1> QED
  BY <1>4 DEF T

LEMMA ApplyConfigResponseSound == SoundWith(ApplyConfigResponse, {Operation})
<1> DEFINE T == ApplyConfigResponse
<1>1. Len(T) = 3 /\ 1..Len(T) = {1, 2, 3}
  BY DEF ApplyConfigResponse
<1>2. /\ T[1] = Text("job_id") /\ T[2] = Enum("state", JobState)
      /\ T[3] = Rows("operations", Operation)
  BY DEF ApplyConfigResponse
<1> HIDE DEF T
<1>3. FieldIs(T[1], "job_id")
  BY <1>2, TextIs
<1>4. FieldIs(T[2], "state")
  BY <1>2, EnumIs, EnumsSound
<1>5. RowsAre(T[3], "operations", Operation)
  BY <1>2, RowsIs
<1>6. SoundWith(T, {Operation})
  BY <1>1, <1>3, <1>4, <1>5 DEF FieldIs, RowsAre, SoundTable, SoundWith, T
<1> QED
  BY <1>6 DEF T

LEMMA JobStatusRequestSound == SoundWith(JobStatusRequest, {})
<1> DEFINE T == JobStatusRequest
<1>1. Len(T) = 1 /\ 1..Len(T) = {1}
  BY DEF JobStatusRequest
<1>2. T[1] = Text("job_id")
  BY DEF JobStatusRequest
<1> HIDE DEF T
<1>3. FieldIs(T[1], "job_id")
  BY <1>2, TextIs
<1>4. SoundWith(T, {})
  BY <1>1, <1>3 DEF FieldIs, SoundTable, SoundWith, T
<1> QED
  BY <1>4 DEF T

LEMMA JobStatusResponseSound == SoundWith(JobStatusResponse, {})
<1> DEFINE T == JobStatusResponse
<1>1. Len(T) = 3 /\ 1..Len(T) = {1, 2, 3}
  BY DEF JobStatusResponse
<1>2. /\ T[1] = Text("job_id") /\ T[2] = Enum("state", JobState) /\ T[3] = OptText("message")
  BY DEF JobStatusResponse
<1> HIDE DEF T
<1>3. FieldIs(T[1], "job_id")
  BY <1>2, TextIs
<1>4. FieldIs(T[2], "state")
  BY <1>2, EnumIs, EnumsSound
<1>5. FieldIs(T[3], "message")
  BY <1>2, OptTextIs
<1>6. SoundWith(T, {})
  BY <1>1, <1>3, <1>4, <1>5 DEF FieldIs, SoundTable, SoundWith, T
<1> QED
  BY <1>6 DEF T

LEMMA DaemonStatusResponseSound == SoundWith(DaemonStatusResponse, {})
<1> DEFINE T == DaemonStatusResponse
           S == {1, 2, 3, 4, 5, 6, 7, 8, 9, 10}
<1>1. Len(T) = 10 /\ 1..Len(T) = S
  BY DEF DaemonStatusResponse
<1>2. /\ T[1] = Text("daemon_version") /\ T[2] = Number("protocol_version", 0)
      /\ T[3] = Number("started_at_unix_ms", 0) /\ T[4] = Number("uptime_ms", 0)
      /\ T[5] = Number("total_jobs", 0) /\ T[6] = Number("queued_jobs", 0)
      /\ T[7] = Number("running_jobs", 0) /\ T[8] = Number("succeeded_jobs", 0)
      /\ T[9] = Number("failed_jobs", 0) /\ T[10] = Number("rolled_back_jobs", 0)
  BY DEF DaemonStatusResponse
<1> HIDE DEF T
<1>3. FieldIs(T[1], "daemon_version")
  BY <1>2, TextIs
<1>4. /\ FieldIs(T[2], "protocol_version") /\ FieldIs(T[3], "started_at_unix_ms")
      /\ FieldIs(T[4], "uptime_ms") /\ FieldIs(T[5], "total_jobs")
      /\ FieldIs(T[6], "queued_jobs") /\ FieldIs(T[7], "running_jobs")
      /\ FieldIs(T[8], "succeeded_jobs") /\ FieldIs(T[9], "failed_jobs")
      /\ FieldIs(T[10], "rolled_back_jobs")
  BY <1>2, NumberIs
<1>5. /\ T[1].name = "daemon_version" /\ T[2].name = "protocol_version"
      /\ T[3].name = "started_at_unix_ms" /\ T[4].name = "uptime_ms" /\ T[5].name = "total_jobs"
      /\ T[6].name = "queued_jobs" /\ T[7].name = "running_jobs" /\ T[8].name = "succeeded_jobs"
      /\ T[9].name = "failed_jobs" /\ T[10].name = "rolled_back_jobs"
  BY <1>3, <1>4 DEF FieldIs
<1>6. \A i, j \in S : T[i].name = T[j].name => i = j
  BY <1>5
<1>7. \A i \in S : SoundField(T[i]) /\ ~HasFlag(T[i]) /\ (T[i].type = "rows" => T[i].of \in {})
  BY <1>3, <1>4 DEF FieldIs
<1>8. SoundWith(T, {})
  BY <1>1, <1>6, <1>7 DEF SoundTable, SoundWith
<1> QED
  BY <1>8 DEF T

LEMMA ListJobsRequestSound == SoundWith(ListJobsRequest, {})
<1> DEFINE T == ListJobsRequest
           S == {1, 2, 3}
<1>1. Len(T) = 3 /\ 1..Len(T) = S
  BY DEF ListJobsRequest
<1>2. /\ T[1] = Bool("has_state", FALSE) /\ T[2] = Given(Enum("state", JobState), "has_state")
      /\ T[3] = Number("limit", 100)
  BY DEF ListJobsRequest
<1> HIDE DEF T
<1>3. FieldIs(T[1], "has_state")
  BY <1>2, BoolIs
<1>4. GivenIs(T[2], "state", "has_state")
  BY <1>2, GivenEnumIs, EnumsSound
<1>5. FieldIs(T[3], "limit")
  BY <1>2, NumberIs
<1>6. IsFlag(T[1], "has_state")
  BY <1>2, FlagIs
<1>7. T[2].flag = "has_state"
  BY <1>4 DEF GivenIs
<1>8. /\ T[1].name = "has_state" /\ T[2].name = "state" /\ T[3].name = "limit"
  BY <1>3, <1>4, <1>5 DEF FieldIs, GivenIs
<1>9. \A i, j \in S : T[i].name = T[j].name => i = j
  BY <1>8
<1>10. \A i \in S : SoundField(T[i]) /\ T[i].type # "rows" /\ (HasFlag(T[i]) => i \in {2})
  BY <1>3, <1>4, <1>5 DEF FieldIs, GivenIs
<1>11. ASSUME NEW i \in S, HasFlag(T[i])
      PROVE  /\ \A j \in S : T[j].flag = T[i].flag => j = i
             /\ \E h \in S : IsFlag(T[h], T[i].flag)
  <2>1. i \in {2}
    BY <1>10, <1>11
  <2>2. ASSUME NEW j \in S, T[j].flag = T[i].flag PROVE j = i
    <3>1. j \in {2}
      BY <1>10, <1>11, <2>2, SameFlag
    <3> QED
      BY <1>7, <2>1, <2>2, <3>1
  <2>3. \E h \in S : IsFlag(T[h], T[i].flag)
    BY <1>6, <1>7, <2>1
  <2> QED
    BY <2>2, <2>3
<1>12. SoundWith(T, {})
  BY <1>1, <1>9, <1>10, <1>11 DEF SoundTable, SoundWith
<1> QED
  BY <1>12 DEF T

LEMMA JobSummarySound == SoundWith(JobSummary, {})
<1> DEFINE T == JobSummary
           S == {1, 2, 3, 4, 5}
<1>1. Len(T) = 5 /\ 1..Len(T) = S
  BY DEF JobSummary
<1>2. /\ T[1] = Text("job_id") /\ T[2] = Enum("state", JobState) /\ T[3] = OptText("message")
      /\ T[4] = Number("created_at_unix_ms", 0) /\ T[5] = Number("updated_at_unix_ms", 0)
  BY DEF JobSummary
<1> HIDE DEF T
<1>3. FieldIs(T[1], "job_id")
  BY <1>2, TextIs
<1>4. FieldIs(T[2], "state")
  BY <1>2, EnumIs, EnumsSound
<1>5. FieldIs(T[3], "message")
  BY <1>2, OptTextIs
<1>6. /\ FieldIs(T[4], "created_at_unix_ms") /\ FieldIs(T[5], "updated_at_unix_ms")
  BY <1>2, NumberIs
<1>7. /\ T[1].name = "job_id" /\ T[2].name = "state" /\ T[3].name = "message"
      /\ T[4].name = "created_at_unix_ms" /\ T[5].name = "updated_at_unix_ms"
  BY <1>3, <1>4, <1>5, <1>6 DEF FieldIs
<1>8. \A i, j \in S : T[i].name = T[j].name => i = j
  BY <1>7
<1>9. \A i \in S : SoundField(T[i]) /\ ~HasFlag(T[i]) /\ (T[i].type = "rows" => T[i].of \in {})
  BY <1>3, <1>4, <1>5, <1>6 DEF FieldIs
<1>10. SoundWith(T, {})
  BY <1>1, <1>8, <1>9 DEF SoundTable, SoundWith
<1> QED
  BY <1>10 DEF T

LEMMA ListJobsResponseSound == SoundWith(ListJobsResponse, {JobSummary})
<1> DEFINE T == ListJobsResponse
<1>1. Len(T) = 2 /\ 1..Len(T) = {1, 2}
  BY DEF ListJobsResponse
<1>2. /\ T[1] = Rows("jobs", JobSummary) /\ T[2] = Number("total", 0)
  BY DEF ListJobsResponse
<1> HIDE DEF T
<1>3. RowsAre(T[1], "jobs", JobSummary)
  BY <1>2, RowsIs
<1>4. FieldIs(T[2], "total")
  BY <1>2, NumberIs
<1>5. SoundWith(T, {JobSummary})
  BY <1>1, <1>3, <1>4 DEF FieldIs, RowsAre, SoundTable, SoundWith, T
<1> QED
  BY <1>5 DEF T

LEMMA WifiStatusRequestSound == SoundWith(WifiStatusRequest, {})
<1> DEFINE T == WifiStatusRequest
           S == {1, 2}
<1>1. Len(T) = 2 /\ 1..Len(T) = S
  BY DEF WifiStatusRequest
<1>2. /\ T[1] = Bool("has_if_index", FALSE)
      /\ T[2] = Given(Number("if_index", 0), "has_if_index")
  BY DEF WifiStatusRequest
<1> HIDE DEF T
<1>3. FieldIs(T[1], "has_if_index")
  BY <1>2, BoolIs
<1>4. GivenIs(T[2], "if_index", "has_if_index")
  BY <1>2, GivenNumberIs
<1>5. IsFlag(T[1], "has_if_index")
  BY <1>2, FlagIs
<1>6. T[2].flag = "has_if_index"
  BY <1>4 DEF GivenIs
<1>7. /\ T[1].name = "has_if_index" /\ T[2].name = "if_index"
  BY <1>3, <1>4 DEF FieldIs, GivenIs
<1>8. \A i, j \in S : T[i].name = T[j].name => i = j
  BY <1>7
<1>9. \A i \in S : SoundField(T[i]) /\ T[i].type # "rows" /\ (HasFlag(T[i]) => i \in {2})
  BY <1>3, <1>4 DEF FieldIs, GivenIs
<1>10. ASSUME NEW i \in S, HasFlag(T[i])
      PROVE  /\ \A j \in S : T[j].flag = T[i].flag => j = i
             /\ \E h \in S : IsFlag(T[h], T[i].flag)
  <2>1. i \in {2}
    BY <1>9, <1>10
  <2>2. ASSUME NEW j \in S, T[j].flag = T[i].flag PROVE j = i
    <3>1. j \in {2}
      BY <1>9, <1>10, <2>2, SameFlag
    <3> QED
      BY <1>6, <2>1, <2>2, <3>1
  <2>3. \E h \in S : IsFlag(T[h], T[i].flag)
    BY <1>5, <1>6, <2>1
  <2> QED
    BY <2>2, <2>3
<1>11. SoundWith(T, {})
  BY <1>1, <1>8, <1>9, <1>10 DEF SoundTable, SoundWith
<1> QED
  BY <1>11 DEF T

LEMMA WifiScanRequestSound == SoundWith(WifiScanRequest, {})
<1> DEFINE T == WifiScanRequest
           S == {1, 2, 3, 4}
<1>1. Len(T) = 4 /\ 1..Len(T) = S
  BY DEF WifiScanRequest
<1>2. /\ T[1] = Bool("has_if_index", FALSE)
      /\ T[2] = Given(Number("if_index", 0), "has_if_index") /\ T[3] = Bool("refresh", TRUE)
  BY DEF WifiScanRequest
<1>3. T[4] = Number("timeout_ms", 4000)
  BY DEF WifiScanRequest
<1> HIDE DEF T
<1>4. /\ FieldIs(T[1], "has_if_index") /\ FieldIs(T[3], "refresh")
  BY <1>2, BoolIs
<1>5. GivenIs(T[2], "if_index", "has_if_index")
  BY <1>2, GivenNumberIs
<1>6. FieldIs(T[4], "timeout_ms")
  BY <1>3, NumberIs
<1>7. IsFlag(T[1], "has_if_index")
  BY <1>2, FlagIs
<1>8. T[2].flag = "has_if_index"
  BY <1>5 DEF GivenIs
<1>9. /\ T[1].name = "has_if_index" /\ T[2].name = "if_index" /\ T[3].name = "refresh"
      /\ T[4].name = "timeout_ms"
  BY <1>4, <1>5, <1>6 DEF FieldIs, GivenIs
<1>10. \A i, j \in S : T[i].name = T[j].name => i = j
  BY <1>9
<1>11. \A i \in S : SoundField(T[i]) /\ T[i].type # "rows" /\ (HasFlag(T[i]) => i \in {2})
  BY <1>4, <1>5, <1>6 DEF FieldIs, GivenIs
<1>12. ASSUME NEW i \in S, HasFlag(T[i])
      PROVE  /\ \A j \in S : T[j].flag = T[i].flag => j = i
             /\ \E h \in S : IsFlag(T[h], T[i].flag)
  <2>1. i \in {2}
    BY <1>11, <1>12
  <2>2. ASSUME NEW j \in S, T[j].flag = T[i].flag PROVE j = i
    <3>1. j \in {2}
      BY <1>11, <1>12, <2>2, SameFlag
    <3> QED
      BY <1>8, <2>1, <2>2, <3>1
  <2>3. \E h \in S : IsFlag(T[h], T[i].flag)
    BY <1>7, <1>8, <2>1
  <2> QED
    BY <2>2, <2>3
<1>13. SoundWith(T, {})
  BY <1>1, <1>10, <1>11, <1>12 DEF SoundTable, SoundWith
<1> QED
  BY <1>13 DEF T

LEMMA WifiInterfaceStatusSound == SoundWith(WifiInterfaceStatus, {})
<1> DEFINE T == WifiInterfaceStatus
           S == {1, 2, 3, 4, 5, 6, 7, 8, 9, 10, 11, 12, 13, 14, 15, 16, 17}
<1>1. Len(T) = 17 /\ 1..Len(T) = S
  BY DEF WifiInterfaceStatus
<1>2. /\ T[1] = Number("if_index", 0) /\ T[2] = Text("name") /\ T[3] = OptText("guid")
      /\ T[4] = Text("state") /\ T[5] = OptText("profile_name") /\ T[6] = OptText("ssid")
      /\ T[7] = OptText("ssid_hex") /\ T[8] = Bool("has_signal_quality", FALSE)
      /\ T[9] = Given(Number("signal_quality", 0), "has_signal_quality")
      /\ T[10] = Bool("has_security_enabled", FALSE)
      /\ T[11] = Given(Bool("security_enabled", FALSE), "has_security_enabled")
      /\ T[12] = OptText("authentication") /\ T[13] = OptText("cipher")
      /\ T[14] = Bool("has_rx_rate_kbps", FALSE)
      /\ T[15] = Given(Number("rx_rate_kbps", 0), "has_rx_rate_kbps")
      /\ T[16] = Bool("has_tx_rate_kbps", FALSE)
      /\ T[17] = Given(Number("tx_rate_kbps", 0), "has_tx_rate_kbps")
  BY DEF WifiInterfaceStatus
<1>0. T = WifiInterfaceStatus
  OBVIOUS
<1> HIDE DEF T
<1>3. FieldIs(T[1], "if_index")
  BY <1>2, NumberIs
<1>4. /\ FieldIs(T[2], "name") /\ FieldIs(T[4], "state")
  BY <1>2, TextIs
<1>5. /\ FieldIs(T[3], "guid") /\ FieldIs(T[5], "profile_name") /\ FieldIs(T[6], "ssid")
      /\ FieldIs(T[7], "ssid_hex") /\ FieldIs(T[12], "authentication")
      /\ FieldIs(T[13], "cipher")
  BY <1>2, OptTextIs
<1>6. /\ FieldIs(T[8], "has_signal_quality") /\ FieldIs(T[10], "has_security_enabled")
      /\ FieldIs(T[14], "has_rx_rate_kbps") /\ FieldIs(T[16], "has_tx_rate_kbps")
  BY <1>2, BoolIs
<1>7. /\ GivenIs(T[9], "signal_quality", "has_signal_quality")
      /\ GivenIs(T[15], "rx_rate_kbps", "has_rx_rate_kbps")
      /\ GivenIs(T[17], "tx_rate_kbps", "has_tx_rate_kbps")
  BY <1>2, GivenNumberIs
<1>8. GivenIs(T[11], "security_enabled", "has_security_enabled")
  BY <1>2, GivenBoolIs
<1>9. /\ IsFlag(T[8], "has_signal_quality") /\ IsFlag(T[10], "has_security_enabled")
      /\ IsFlag(T[14], "has_rx_rate_kbps") /\ IsFlag(T[16], "has_tx_rate_kbps")
  BY <1>2, FlagIs
<1>10. /\ T[9].flag = "has_signal_quality" /\ T[11].flag = "has_security_enabled"
      /\ T[15].flag = "has_rx_rate_kbps" /\ T[17].flag = "has_tx_rate_kbps"
  BY <1>7, <1>8 DEF GivenIs
<1>11. /\ T[1].name = "if_index" /\ T[2].name = "name" /\ T[3].name = "guid"
      /\ T[4].name = "state" /\ T[5].name = "profile_name" /\ T[6].name = "ssid"
      /\ T[7].name = "ssid_hex" /\ T[8].name = "has_signal_quality"
      /\ T[9].name = "signal_quality" /\ T[10].name = "has_security_enabled"
      /\ T[11].name = "security_enabled" /\ T[12].name = "authentication"
      /\ T[13].name = "cipher" /\ T[14].name = "has_rx_rate_kbps" /\ T[15].name = "rx_rate_kbps"
      /\ T[16].name = "has_tx_rate_kbps" /\ T[17].name = "tx_rate_kbps"
  BY <1>3, <1>4, <1>5, <1>6, <1>7, <1>8 DEF FieldIs, GivenIs
<1>12. \A i, j \in S : T[i].name = T[j].name => i = j
  BY <1>11
<1>13. \A i \in S : /\ SoundField(T[i]) /\ T[i].type # "rows"
                    /\ HasFlag(T[i]) => i \in {9, 11, 15, 17}
  BY <1>3, <1>4, <1>5, <1>6, <1>7, <1>8 DEF FieldIs, GivenIs
<1>14. ASSUME NEW i \in S, HasFlag(T[i])
      PROVE  /\ \A j \in S : T[j].flag = T[i].flag => j = i
             /\ \E h \in S : IsFlag(T[h], T[i].flag)
  <2>1. i \in {9, 11, 15, 17}
    BY <1>13, <1>14
  <2>2. ASSUME NEW j \in S, T[j].flag = T[i].flag PROVE j = i
    <3>1. j \in {9, 11, 15, 17}
      BY <1>13, <1>14, <2>2, SameFlag
    <3> QED
      BY <1>10, <2>1, <2>2, <3>1
  <2>3. \E h \in S : IsFlag(T[h], T[i].flag)
    BY <1>9, <1>10, <2>1
  <2> QED
    BY <2>2, <2>3
<1>15. 1..Len(T) = S
  BY <1>1
<1>16. SoundWith(T, {})
  <2> HIDE DEF S
  <2>1. SoundTable(T)
    BY <1>12, <1>13, <1>14, <1>15 DEF SoundTable
  <2> QED
    BY <1>13, <1>15, <2>1 DEF SoundWith
<1> QED
  BY <1>16, <1>0, Zenon

LEMMA WifiNetworkSound == SoundWith(WifiNetwork, {})
<1> DEFINE T == WifiNetwork
           S == {1, 2, 3, 4, 5, 6, 7, 8, 9, 10, 11, 12, 13, 14}
<1>1. Len(T) = 14 /\ 1..Len(T) = S
  BY DEF WifiNetwork
<1>2. /\ T[1] = Number("interface_if_index", 0) /\ T[2] = Text("interface_name")
      /\ T[3] = Text("ssid") /\ T[4] = Text("ssid_hex") /\ T[5] = OptText("profile_name")
      /\ T[6] = Number("signal_quality", 0) /\ T[7] = Bool("security_enabled", FALSE)
      /\ T[8] = Text("authentication") /\ T[9] = Text("cipher")
      /\ T[10] = Bool("connectable", FALSE) /\ T[11] = Bool("has_not_connectable_reason", FALSE)
      /\ T[12] = Given(Number("not_connectable_reason", 0), "has_not_connectable_reason")
      /\ T[13] = Bool("connected", FALSE) /\ T[14] = Number("bss_count", 0)
  BY DEF WifiNetwork
<1> HIDE DEF T
<1>3. /\ FieldIs(T[1], "interface_if_index") /\ FieldIs(T[6], "signal_quality")
      /\ FieldIs(T[14], "bss_count")
  BY <1>2, NumberIs
<1>4. /\ FieldIs(T[2], "interface_name") /\ FieldIs(T[3], "ssid") /\ FieldIs(T[4], "ssid_hex")
      /\ FieldIs(T[8], "authentication") /\ FieldIs(T[9], "cipher")
  BY <1>2, TextIs
<1>5. FieldIs(T[5], "profile_name")
  BY <1>2, OptTextIs
<1>6. /\ FieldIs(T[7], "security_enabled") /\ FieldIs(T[10], "connectable")
      /\ FieldIs(T[11], "has_not_connectable_reason") /\ FieldIs(T[13], "connected")
  BY <1>2, BoolIs
<1>7. GivenIs(T[12], "not_connectable_reason", "has_not_connectable_reason")
  BY <1>2, GivenNumberIs
<1>8. IsFlag(T[11], "has_not_connectable_reason")
  BY <1>2, FlagIs
<1>9. T[12].flag = "has_not_connectable_reason"
  BY <1>7 DEF GivenIs
<1>10. /\ T[1].name = "interface_if_index" /\ T[2].name = "interface_name" /\ T[3].name = "ssid"
      /\ T[4].name = "ssid_hex" /\ T[5].name = "profile_name" /\ T[6].name = "signal_quality"
      /\ T[7].name = "security_enabled" /\ T[8].name = "authentication" /\ T[9].name = "cipher"
      /\ T[10].name = "connectable" /\ T[11].name = "has_not_connectable_reason"
      /\ T[12].name = "not_connectable_reason" /\ T[13].name = "connected"
      /\ T[14].name = "bss_count"
  BY <1>3, <1>4, <1>5, <1>6, <1>7 DEF FieldIs, GivenIs
<1>11. \A i, j \in S : T[i].name = T[j].name => i = j
  BY <1>10
<1>12. \A i \in S : SoundField(T[i]) /\ T[i].type # "rows" /\ (HasFlag(T[i]) => i \in {12})
  BY <1>3, <1>4, <1>5, <1>6, <1>7 DEF FieldIs, GivenIs
<1>13. ASSUME NEW i \in S, HasFlag(T[i])
      PROVE  /\ \A j \in S : T[j].flag = T[i].flag => j = i
             /\ \E h \in S : IsFlag(T[h], T[i].flag)
  <2>1. i \in {12}
    BY <1>12, <1>13
  <2>2. ASSUME NEW j \in S, T[j].flag = T[i].flag PROVE j = i
    <3>1. j \in {12}
      BY <1>12, <1>13, <2>2, SameFlag
    <3> QED
      BY <1>9, <2>1, <2>2, <3>1
  <2>3. \E h \in S : IsFlag(T[h], T[i].flag)
    BY <1>8, <1>9, <2>1
  <2> QED
    BY <2>2, <2>3
<1>14. SoundWith(T, {})
  BY <1>1, <1>11, <1>12, <1>13 DEF SoundTable, SoundWith
<1> QED
  BY <1>14 DEF T

LEMMA NetworkStatusResponseSound == SoundWith(NetworkStatusResponse, {Adapter, WifiInterfaceStatus})
<1> DEFINE T == NetworkStatusResponse
<1>1. Len(T) = 4 /\ 1..Len(T) = {1, 2, 3, 4}
  BY DEF NetworkStatusResponse
<1>2. /\ T[1] = Number("captured_at_unix_ms", 0) /\ T[2] = Rows("adapters", Adapter)
      /\ T[3] = Rows("wifi_interfaces", WifiInterfaceStatus) /\ T[4] = OptText("wifi_error")
  BY DEF NetworkStatusResponse
<1> HIDE DEF T
<1>3. FieldIs(T[1], "captured_at_unix_ms")
  BY <1>2, NumberIs
<1>4. /\ RowsAre(T[2], "adapters", Adapter)
      /\ RowsAre(T[3], "wifi_interfaces", WifiInterfaceStatus)
  BY <1>2, RowsIs
<1>5. FieldIs(T[4], "wifi_error")
  BY <1>2, OptTextIs
<1>6. SoundWith(T, {Adapter, WifiInterfaceStatus})
  BY <1>1, <1>3, <1>4, <1>5 DEF FieldIs, RowsAre, SoundTable, SoundWith, T
<1> QED
  BY <1>6 DEF T

LEMMA WifiStatusResponseSound == SoundWith(WifiStatusResponse, {WifiInterfaceStatus})
<1> DEFINE T == WifiStatusResponse
<1>1. Len(T) = 1 /\ 1..Len(T) = {1}
  BY DEF WifiStatusResponse
<1>2. T[1] = Rows("interfaces", WifiInterfaceStatus)
  BY DEF WifiStatusResponse
<1> HIDE DEF T
<1>3. RowsAre(T[1], "interfaces", WifiInterfaceStatus)
  BY <1>2, RowsIs
<1>4. SoundWith(T, {WifiInterfaceStatus})
  BY <1>1, <1>3 DEF FieldIs, RowsAre, SoundTable, SoundWith, T
<1> QED
  BY <1>4 DEF T

LEMMA WifiScanResponseSound == SoundWith(WifiScanResponse, {WifiNetwork})
<1> DEFINE T == WifiScanResponse
<1>1. Len(T) = 2 /\ 1..Len(T) = {1, 2}
  BY DEF WifiScanResponse
<1>2. /\ T[1] = Bool("refreshed", FALSE) /\ T[2] = Rows("networks", WifiNetwork)
  BY DEF WifiScanResponse
<1> HIDE DEF T
<1>3. FieldIs(T[1], "refreshed")
  BY <1>2, BoolIs
<1>4. RowsAre(T[2], "networks", WifiNetwork)
  BY <1>2, RowsIs
<1>5. SoundWith(T, {WifiNetwork})
  BY <1>1, <1>3, <1>4 DEF FieldIs, RowsAre, SoundTable, SoundWith, T
<1> QED
  BY <1>5 DEF T

LEMMA ErrorResponseSound == SoundWith(ErrorResponse, {})
<1> DEFINE T == ErrorResponse
<1>1. Len(T) = 2 /\ 1..Len(T) = {1, 2}
  BY DEF ErrorResponse
<1>2. /\ T[1] = Enum("code", ErrorCode) /\ T[2] = Text("message")
  BY DEF ErrorResponse
<1> HIDE DEF T
<1>3. FieldIs(T[1], "code")
  BY <1>2, EnumIs, EnumsSound
<1>4. FieldIs(T[2], "message")
  BY <1>2, TextIs
<1>5. SoundWith(T, {})
  BY <1>1, <1>3, <1>4 DEF FieldIs, SoundTable, SoundWith, T
<1> QED
  BY <1>5 DEF T

LEMMA EnvelopeSound == SoundWith(Envelope, {})
<1> DEFINE T == Envelope
<1>1. Len(T) = 4 /\ 1..Len(T) = {1, 2, 3, 4}
  BY DEF Envelope
<1>2. /\ T[1] = Number("protocol_version", 1) /\ T[2] = Number("request_id", 0)
      /\ T[3] = Number("payload_type", 0) /\ T[4] = Field("payload", "table", None)
  BY DEF Envelope
<1> HIDE DEF T
<1>3. /\ FieldIs(T[1], "protocol_version") /\ FieldIs(T[2], "request_id")
      /\ FieldIs(T[3], "payload_type")
  BY <1>2, NumberIs
<1>4. FieldIs(T[4], "payload")
  BY <1>2, PayloadIs
<1>5. SoundWith(T, {})
  BY <1>1, <1>3, <1>4 DEF FieldIs, SoundTable, SoundWith, T
<1> QED
  BY <1>5 DEF T

-----------------------------------------------------------------------------
(* Messages: the tables of every kind, and the envelope around them. *)

\* A table without vectors is sound to any depth, and one depth is added with each vector.
LEMMA SoundAtDepth ==
  ASSUME NEW T
  PROVE  /\ SoundWith(T, {}) => SoundTable(T) /\ SoundInner(T) /\ SoundMessage(T)
         /\ \A Rs : SoundWith(T, Rs) /\ (\A R \in Rs : SoundTable(R)) => SoundInner(T)
         /\ \A Rs : SoundWith(T, Rs) /\ (\A R \in Rs : SoundInner(R)) => SoundMessage(T)
BY DEF SoundWith, SoundInner, SoundMessage

LEMMA InnerTables ==
  /\ SoundInner(Capability) /\ SoundInner(Adapter) /\ SoundInner(ValidationIssue)
  /\ SoundInner(Operation) /\ SoundInner(JobSummary) /\ SoundInner(WifiInterfaceStatus)
  /\ SoundInner(WifiNetwork)
<1>1. SoundTable(IpAddress)
  BY IpAddressSound, SoundAtDepth
<1>2. SoundInner(Adapter)
  BY <1>1, AdapterSound, SoundAtDepth
<1> QED
  BY <1>2, CapabilitySound, ValidationIssueSound, OperationSound, JobSummarySound,
     WifiInterfaceStatusSound, WifiNetworkSound, SoundAtDepth

LEMMA RequestTables == \A kind \in DOMAIN RequestPayload : SoundMessage(TableOf(RequestPayload, kind))
<1>1. /\ RequestPayload.Ping = "PingRequest"
      /\ RequestPayload.DaemonStatus = "DaemonStatusRequest"
      /\ RequestPayload.Capabilities = "CapabilitiesRequest"
      /\ RequestPayload.ListAdapters = "ListAdaptersRequest"
      /\ RequestPayload.Config = "ConfigRequest" /\ RequestPayload.JobStatus = "JobStatusRequest"
      /\ RequestPayload.ListJobs = "ListJobsRequest"
      /\ RequestPayload.NetworkStatus = "NetworkStatusRequest"
      /\ RequestPayload.WifiStatus = "WifiStatusRequest"
      /\ RequestPayload.WifiScan = "WifiScanRequest"
      /\ RequestPayload.Shutdown = "ShutdownRequest"
  BY DEF RequestPayload
<1>2. /\ PayloadTable.PingRequest = PingRequest
      /\ PayloadTable.DaemonStatusRequest = DaemonStatusRequest
      /\ PayloadTable.CapabilitiesRequest = CapabilitiesRequest
      /\ PayloadTable.ListAdaptersRequest = ListAdaptersRequest
      /\ PayloadTable.ConfigRequest = ConfigRequest
      /\ PayloadTable.JobStatusRequest = JobStatusRequest
      /\ PayloadTable.ListJobsRequest = ListJobsRequest
      /\ PayloadTable.NetworkStatusRequest = NetworkStatusRequest
      /\ PayloadTable.WifiStatusRequest = WifiStatusRequest
      /\ PayloadTable.WifiScanRequest = WifiScanRequest
      /\ PayloadTable.ShutdownRequest = ShutdownRequest
  BY DEF PayloadTable
<1>3. /\ SoundMessage(PingRequest) /\ SoundMessage(DaemonStatusRequest)
      /\ SoundMessage(CapabilitiesRequest) /\ SoundMessage(ListAdaptersRequest)
      /\ SoundMessage(ConfigRequest) /\ SoundMessage(JobStatusRequest)
      /\ SoundMessage(ListJobsRequest) /\ SoundMessage(NetworkStatusRequest)
      /\ SoundMessage(WifiStatusRequest) /\ SoundMessage(WifiScanRequest)
      /\ SoundMessage(ShutdownRequest)
  BY ConfigRequestSound, JobStatusRequestSound, ListJobsRequestSound, WifiStatusRequestSound,
     WifiScanRequestSound, EmptySound, InnerTables, SoundAtDepth DEF PingRequest,
     DaemonStatusRequest, CapabilitiesRequest, ListAdaptersRequest, NetworkStatusRequest,
     ShutdownRequest
<1>4. DOMAIN RequestPayload =
        {"Ping", "DaemonStatus", "Capabilities", "ListAdapters", "Config", "JobStatus",
         "ListJobs", "NetworkStatus", "WifiStatus", "WifiScan", "Shutdown"}
  BY DEF RequestPayload
<1> QED
  BY <1>1, <1>2, <1>3, <1>4 DEF TableOf

LEMMA ResponseTables == \A kind \in DOMAIN ResponsePayload : SoundMessage(TableOf(ResponsePayload, kind))
<1>1. /\ ResponsePayload.Pong = "PingResponse"
      /\ ResponsePayload.DaemonStatus = "DaemonStatusResponse"
      /\ ResponsePayload.Capabilities = "CapabilitiesResponse"
      /\ ResponsePayload.Adapters = "ListAdaptersResponse"
      /\ ResponsePayload.Validation = "ValidateConfigResponse"
      /\ ResponsePayload.Plan = "PlanConfigResponse"
      /\ ResponsePayload.Apply = "ApplyConfigResponse"
      /\ ResponsePayload.JobStatus = "JobStatusResponse"
      /\ ResponsePayload.Jobs = "ListJobsResponse"
      /\ ResponsePayload.NetworkStatus = "NetworkStatusResponse"
      /\ ResponsePayload.WifiStatus = "WifiStatusResponse"
      /\ ResponsePayload.WifiNetworks = "WifiScanResponse"
      /\ ResponsePayload.ShutdownAccepted = "ShutdownResponse"
      /\ ResponsePayload.Error = "ErrorResponse"
  BY DEF ResponsePayload
<1>2. /\ PayloadTable.PingResponse = PingResponse
      /\ PayloadTable.DaemonStatusResponse = DaemonStatusResponse
      /\ PayloadTable.CapabilitiesResponse = CapabilitiesResponse
      /\ PayloadTable.ListAdaptersResponse = ListAdaptersResponse
      /\ PayloadTable.ValidateConfigResponse = ValidateConfigResponse
      /\ PayloadTable.PlanConfigResponse = PlanConfigResponse
      /\ PayloadTable.ApplyConfigResponse = ApplyConfigResponse
      /\ PayloadTable.JobStatusResponse = JobStatusResponse
      /\ PayloadTable.ListJobsResponse = ListJobsResponse
      /\ PayloadTable.NetworkStatusResponse = NetworkStatusResponse
      /\ PayloadTable.WifiStatusResponse = WifiStatusResponse
      /\ PayloadTable.WifiScanResponse = WifiScanResponse
      /\ PayloadTable.ShutdownResponse = ShutdownResponse
      /\ PayloadTable.ErrorResponse = ErrorResponse
  BY DEF PayloadTable
<1>3. /\ SoundMessage(PingResponse) /\ SoundMessage(DaemonStatusResponse)
      /\ SoundMessage(CapabilitiesResponse) /\ SoundMessage(ListAdaptersResponse)
      /\ SoundMessage(ValidateConfigResponse) /\ SoundMessage(PlanConfigResponse)
      /\ SoundMessage(ApplyConfigResponse) /\ SoundMessage(JobStatusResponse)
      /\ SoundMessage(ListJobsResponse) /\ SoundMessage(NetworkStatusResponse)
      /\ SoundMessage(WifiStatusResponse) /\ SoundMessage(WifiScanResponse)
      /\ SoundMessage(ShutdownResponse) /\ SoundMessage(ErrorResponse)
  BY PingResponseSound, DaemonStatusResponseSound, CapabilitiesResponseSound,
     ListAdaptersResponseSound, ValidateConfigResponseSound, PlanConfigResponseSound,
     ApplyConfigResponseSound, JobStatusResponseSound, ListJobsResponseSound,
     NetworkStatusResponseSound, WifiStatusResponseSound, WifiScanResponseSound,
     ErrorResponseSound, EmptySound, InnerTables, SoundAtDepth DEF ShutdownResponse
<1>4. DOMAIN ResponsePayload =
        {"Pong", "DaemonStatus", "Capabilities", "Adapters", "Validation", "Plan", "Apply",
         "JobStatus", "Jobs", "NetworkStatus", "WifiStatus", "WifiNetworks",
         "ShutdownAccepted", "Error"}
  BY DEF ResponsePayload
<1> QED
  BY <1>1, <1>2, <1>3, <1>4 DEF TableOf


\* A payload type stands for one kind, and is never NONE.
LEMMA PayloadsDiffer ==
  ASSUME NEW Kinds \in {RequestPayload, ResponsePayload}
  PROVE  /\ \A kind \in DOMAIN Kinds : Payload[Kinds[kind]] \in Nat \ {0}
         /\ \A j, k \in DOMAIN Kinds : Payload[Kinds[j]] = Payload[Kinds[k]] => j = k
<1>1. CASE Kinds = RequestPayload
  <2>1. /\ \A kind \in DOMAIN RequestPayload : Payload[RequestPayload[kind]] \in Nat \ {0}
    BY DEF RequestPayload, Payload
  <2>2. \A j, k \in DOMAIN RequestPayload :
          Payload[RequestPayload[j]] = Payload[RequestPayload[k]] => j = k
    BY DEF RequestPayload, Payload
  <2> QED
    BY <1>1, <2>1, <2>2
<1>2. CASE Kinds = ResponsePayload
  <2>1. /\ \A kind \in DOMAIN ResponsePayload : Payload[ResponsePayload[kind]] \in Nat \ {0}
    BY DEF ResponsePayload, Payload
  <2>2. \A j, k \in DOMAIN ResponsePayload :
          Payload[ResponsePayload[j]] = Payload[ResponsePayload[k]] => j = k
    BY DEF ResponsePayload, Payload
  <2> QED
    BY <1>2, <2>1, <2>2
<1> QED
  BY <1>1, <1>2

MessageKinds == {RequestPayload, ResponsePayload}

LEMMA EnvelopeSlots ==
  /\ Len(Envelope) = 4
  /\ SlotOf(Envelope, "protocol_version") = 1 /\ Envelope[1].default = 1
  /\ SlotOf(Envelope, "payload_type") = 3 /\ Envelope[3].default = 0
  /\ Envelope[3].name = "payload_type" /\ Envelope[4].name = "payload"
  /\ SlotOf(Envelope, "payload") = 4 /\ Envelope[4].default = None
  /\ \A i \in 1..4 : ~HasFlag(Envelope[i]) /\ Envelope[i].type \notin {"enum", "rows"}
<1>1. /\ Envelope[1] = Number("protocol_version", 1) /\ Envelope[2] = Number("request_id", 0)
      /\ Envelope[3] = Number("payload_type", 0) /\ Envelope[4] = Field("payload", "table", None)
      /\ Len(Envelope) = 4 /\ 1..Len(Envelope) = {1, 2, 3, 4}
  BY DEF Envelope
<1>2. \A n, d : Number(n, d).name = n /\ Number(n, d).default = d /\ ~HasFlag(Number(n, d))
                /\ Number(n, d).type \notin {"enum", "rows"}
  BY DEF Number, Field, HasFlag
<1>3. LET f == Field("payload", "table", None)
      IN  f.name = "payload" /\ f.default = None /\ ~HasFlag(f) /\ f.type \notin {"enum", "rows"}
  BY DEF Field, HasFlag
<1>4. \A i \in {1, 2, 3, 4} : ~HasFlag(Envelope[i]) /\ Envelope[i].type \notin {"enum", "rows"}
  BY <1>1, <1>2, <1>3
<1>5. /\ Envelope[1].name = "protocol_version"
      /\ Envelope[3].name = "payload_type" /\ Envelope[4].name = "payload"
      /\ Envelope[1].default = 1 /\ Envelope[3].default = 0
      /\ Envelope[4].default = None
  BY <1>1, <1>2, <1>3
<1>6. \A i \in {1, 2, 3, 4} : SlotOf(Envelope, Envelope[i].name) = i
  BY <1>1, EnvelopeSound, SlotNamed DEF SoundWith
<1> QED
  BY <1>1, <1>4, <1>5, <1>6

\* The envelope of an encoded message: its payload type, and its cells if the slot is there.
LEMMA EnvelopeBack ==
  ASSUME NEW n, NEW p, Payload[p] \in Nat \ {0}, NEW cells, NEW length
  PROVE  LET e == EncodeEnvelope(n, p, cells, length).envelope
         IN  /\ Read(Envelope, e, "payload_type") = Payload[p]
             /\ 3 \in DOMAIN e
             /\ 4 \in DOMAIN e => e[4] = cells
<1> DEFINE row == [protocol_version |-> PROTOCOL_VERSION, request_id |-> n,
                   payload_type |-> Payload[p], payload |-> cells]
           e == EncodeWith(NoRows, Envelope, row)
<1>1. EncodeEnvelope(n, p, cells, length).envelope = e
  BY DEF EncodeEnvelope
<1>2. ASSUME NEW i \in {3, 4} PROVE Envelope[i].name \notin Flags(Envelope)
  <2>1. \A j \in 1..4 : Envelope[j].flag = ""
    BY EnvelopeSlots DEF HasFlag
  <2>2. Flags(Envelope) \subseteq {""}
    BY <2>1, EnvelopeSlots, Zenon DEF Flags
  <2>3. "payload_type" # "" /\ "payload" # ""
    OBVIOUS
  <2>4. Envelope[i].name \in {"payload_type", "payload"}
    BY EnvelopeSlots
  <2> QED
    BY <2>2, <2>3, <2>4, Zenon
<1>3. /\ WireValue(Envelope, row, "payload_type") = Payload[p]
      /\ WireValue(Envelope, row, "payload") = cells
  <2>1. row["payload_type"] = Payload[p] /\ row["payload"] = cells
    OBVIOUS
  <2>2. Payload[p] # None
    BY SessionAssumption
  <2>3. "payload_type" \notin Flags(Envelope) /\ "payload" \notin Flags(Envelope)
    BY <1>2, EnvelopeSlots
  <2>4. SlotOf(Envelope, "payload_type") = 3 /\ SlotOf(Envelope, "payload") = 4
    BY EnvelopeSlots
  <2>5. Envelope[3].type # "enum" /\ Envelope[4].type # "enum" /\ Envelope[4].default = None
    BY EnvelopeSlots
  <2> HIDE DEF row
  <2> QED
    BY <2>1, <2>2, <2>3, <2>4, <2>5 DEF WireValue
<1>4. /\ DOMAIN e = Written(Envelope, row)
      /\ \A i \in DOMAIN e : e[i] = WireValue(Envelope, row, Envelope[i].name)
  BY EnvelopeSlots DEF EncodeWith, Written
<1> HIDE DEF e, row
<1>5. /\ Read(Envelope, e, "payload_type") = WireValue(Envelope, row, "payload_type")
      /\ 3 \in DOMAIN e <=> WireValue(Envelope, row, "payload_type") # 0
  <2>1. SoundTable(Envelope)
    BY EnvelopeSound DEF SoundWith
  <2>2. /\ Read(Envelope, e, Envelope[3].name) = WireValue(Envelope, row, Envelope[3].name)
        /\ 3 \in DOMAIN e <=> WireValue(Envelope, row, Envelope[3].name) # Envelope[3].default
    BY <1>4, <2>1, ReadBack, EnvelopeSlots
  <2> QED
    BY <2>2, EnvelopeSlots
<1> QED
  BY <1>1, <1>3, <1>4, <1>5, EnvelopeSlots

\* A message that is decoded is decoded as what was encoded.
LEMMA DecodedIsEncoded ==
  ASSUME NEW Kinds \in MessageKinds, NEW kind \in DOMAIN Kinds, NEW body,
         HasMessageType(TableOf(Kinds, kind), body), NEW n,
         DecodesAs(Kinds, EncodeMessage(Kinds, n, [kind |-> kind, body |-> body]))
  PROVE  MessageIn(Kinds, EncodeMessage(Kinds, n, [kind |-> kind, body |-> body]))
           = [kind |-> kind, body |-> body]
<1> DEFINE m == [kind |-> kind, body |-> body]
           T == TableOf(Kinds, kind)
           f == EncodeMessage(Kinds, n, m)
           e == f.envelope
<1>1. /\ Read(Envelope, e, "payload_type") = Payload[Kinds[kind]]
      /\ 3 \in DOMAIN e
      /\ 4 \in DOMAIN e => e[4] = EncodeTable(T, body)
  BY PayloadsDiffer, EnvelopeBack DEF EncodeMessage, MessageKinds
<1> HIDE DEF m, f
<1>2. e[4] = EncodeTable(T, body)
  BY <1>1 DEF DecodesAs, EnvelopeAccepted, VerifyEnvelope, f, m
<1>3. KindIn(Kinds, f) = kind
  <2>1. \A k \in DOMAIN Kinds : Carries(Kinds, f, k) <=> k = kind
    BY <1>1, PayloadsDiffer DEF Carries, MessageKinds
  <2> QED
    BY <2>1 DEF KindIn
<1>4. SoundMessage(T)
  BY RequestTables, ResponseTables DEF MessageKinds
<1>5. DecodeTable(T, e[4]) = body
  BY <1>2, <1>4, MessageBack
<1>6. MessageIn(Kinds, f) = [kind |-> kind, body |-> body]
  BY <1>3, <1>5 DEF MessageIn
<1> QED
  BY <1>6 DEF f, m

-----------------------------------------------------------------------------
\* A slot of an enumeration whose byte is read has a byte this version knows.
LEMMA DecodedIsUnderstood ==
  ASSUME NEW Kinds \in MessageKinds, NEW f, DecodesAs(Kinds, f)
  PROVE  Understood(Kinds, f)
<1>1. PICK kind \in DOMAIN Kinds :
        Carries(Kinds, f, kind) /\ ReadableTable(TableOf(Kinds, kind), f.envelope[4])
  BY DEF DecodesAs
<1> DEFINE T == TableOf(Kinds, kind)
           cells == f.envelope[4]
<1>2. Payload[Kinds[kind]] = f.envelope[3]
  <2>1. Payload[Kinds[kind]] # 0
    BY PayloadsDiffer DEF MessageKinds
  <2> QED
    BY <1>1, <2>1, EnvelopeSlots DEF Carries, Read
<1>3. 1 \in DOMAIN f.envelope => f.envelope[1] = PROTOCOL_VERSION
  BY EnvelopeSlots DEF DecodesAs, EnvelopeAccepted, Read
<1>4. SoundTable(T)
  BY RequestTables, ResponseTables DEF MessageKinds, SoundMessage
<1>5. HasKnownBytes(T, cells)
  BY <1>1 DEF ReadableTable
<1> HIDE DEF T, cells
<1>6. ASSUME NEW i \in 1..Len(T), T[i].type = "enum", i \in DOMAIN cells,
             T[i].flag = "" \/ Read(T, cells, T[i].flag)
      PROVE  \E n \in DOMAIN T[i].of : T[i].of[n] = cells[i]
  <2>1. SlotOf(T, T[i].name) = i
    BY <1>4, SlotNamed
  <2>2. IsGiven(T, cells, T[i].name)
    BY <1>6, <2>1, Zenon DEF IsGiven
  <2>3. IsKnown(T[i].of, Read(T, cells, T[i].name))
    BY <1>5, <1>6, <2>2 DEF HasKnownBytes
  <2>4. Read(T, cells, T[i].name) = cells[i]
    BY <1>6, <2>1 DEF Read
  <2> QED
    BY <2>3, <2>4 DEF IsKnown, Known
<1>7. KnowsBytes(T, cells)
  BY <1>6, Zenon DEF KnowsBytes
<1> QED
  BY <1>2, <1>3, <1>7 DEF Understood, T, cells

-----------------------------------------------------------------------------
(* The configuration request.  Its table decides what a frame without a    *)
(* slot asks for.                                                          *)

LEMMA ConfigTable ==
  /\ TableOf(RequestPayload, "Config") = ConfigRequest
  /\ Len(ConfigRequest) = 4
  /\ ConfigRequest[1] = Enum("action", ConfigAction)
  /\ ConfigRequest[2] = Enum("format", ConfigFormat)
  /\ ConfigRequest[3] = Text("document")
  /\ ConfigRequest[4] = Bool("dry_run", TRUE)
<1>1. RequestPayload["Config"] = "ConfigRequest"
  BY DEF RequestPayload
<1>2. PayloadTable["ConfigRequest"] = ConfigRequest
  BY DEF PayloadTable
<1>3. TableOf(RequestPayload, "Config") = ConfigRequest
  BY <1>1, <1>2 DEF TableOf
<1> QED
  BY <1>3 DEF ConfigRequest

LEMMA TextField == ASSUME NEW n PROVE Text(n).name = n /\ Text(n).flag = ""
BY DEF Text, OptText, Field

LEMMA ConfigFields ==
  /\ ConfigRequest[1].name = "action" /\ ConfigRequest[2].name = "format"
  /\ ConfigRequest[3].name = "document" /\ ConfigRequest[4].name = "dry_run"
  /\ \A i \in 1..4 : ConfigRequest[i].flag = ""
  /\ ConfigRequest[1].type = "enum" /\ ConfigRequest[1].of = ConfigAction
  /\ ConfigRequest[1].default = 0 /\ ConfigRequest[1].absent = None
  /\ ConfigRequest[4].type = "bool" /\ ConfigRequest[4].default = TRUE
  /\ ConfigRequest[4].absent = None
<1>1. /\ ConfigRequest[1].name = "action" /\ ConfigRequest[1].flag = ""
      /\ ConfigRequest[1].type = "enum" /\ ConfigRequest[1].of = ConfigAction
      /\ ConfigRequest[1].default = 0 /\ ConfigRequest[1].absent = None
  <2>1. ConfigRequest[1] = Enum("action", ConfigAction)
    BY ConfigTable
  <2>2. /\ Enum("action", ConfigAction).name = "action" /\ Enum("action", ConfigAction).flag = ""
        /\ Enum("action", ConfigAction).type = "enum"
        /\ Enum("action", ConfigAction).of = ConfigAction
        /\ Enum("action", ConfigAction).default = 0
        /\ Enum("action", ConfigAction).absent = None
    BY DEF Enum, Field
  <2> QED
    BY <2>1, <2>2, Zenon
<1>2. ConfigRequest[2].name = "format" /\ ConfigRequest[2].flag = ""
  <2>1. ConfigRequest[2] = Enum("format", ConfigFormat)
    BY ConfigTable
  <2>2. /\ Enum("format", ConfigFormat).name = "format"
        /\ Enum("format", ConfigFormat).flag = ""
    BY DEF Enum, Field
  <2> QED
    BY <2>1, <2>2, Zenon
<1>3. ConfigRequest[3].name = "document" /\ ConfigRequest[3].flag = ""
  BY ConfigTable, TextField, Zenon
<1>4. /\ ConfigRequest[4].name = "dry_run" /\ ConfigRequest[4].flag = ""
      /\ ConfigRequest[4].type = "bool" /\ ConfigRequest[4].default = TRUE
      /\ ConfigRequest[4].absent = None
  <2>1. ConfigRequest[4] = Bool("dry_run", TRUE)
    BY ConfigTable
  <2>2. /\ Bool("dry_run", TRUE).name = "dry_run" /\ Bool("dry_run", TRUE).flag = ""
        /\ Bool("dry_run", TRUE).type = "bool" /\ Bool("dry_run", TRUE).default = TRUE
        /\ Bool("dry_run", TRUE).absent = None
    BY DEF Bool, Field
  <2> QED
    BY <2>1, <2>2, Zenon
<1>5. 1..4 = {1, 2, 3, 4}
  OBVIOUS
<1>8. \A i \in 1..4 : ConfigRequest[i].flag = ""
  BY <1>1, <1>2, <1>3, <1>4, <1>5
<1> QED
  BY <1>1, <1>2, <1>3, <1>4, <1>8

LEMMA ConfigSlots ==
  /\ SlotOf(ConfigRequest, "action") = 1
  /\ SlotOf(ConfigRequest, "dry_run") = 4
  /\ "action" \in Fields(ConfigRequest) /\ "dry_run" \in Fields(ConfigRequest)
<1>1. 1..Len(ConfigRequest) = {1, 2, 3, 4}
  BY ConfigTable
<1>2. \A i \in {1, 2, 3, 4} : ConfigRequest[i].name = "action" <=> i = 1
  BY ConfigFields
<1>3. \A i \in {1, 2, 3, 4} : ConfigRequest[i].name = "dry_run" <=> i = 4
  BY ConfigFields
<1>4. SlotOf(ConfigRequest, "action") = 1
  BY <1>1, <1>2 DEF SlotOf
<1>5. SlotOf(ConfigRequest, "dry_run") = 4
  BY <1>1, <1>3 DEF SlotOf
<1>6. Flags(ConfigRequest) = {""}
  <2>1. \A i \in 1..Len(ConfigRequest) : ConfigRequest[i].flag = ""
    BY ConfigTable, ConfigFields
  <2>2. 1 \in 1..Len(ConfigRequest)
    BY <1>1
  <2> QED
    BY <2>1, <2>2, Zenon DEF Flags
<1>7. "action" \in Names(ConfigRequest) /\ "dry_run" \in Names(ConfigRequest)
  BY <1>1, <1>2, <1>3 DEF Names
<1> QED
  BY <1>4, <1>5, <1>6, <1>7 DEF Fields

\* Only a configuration request is decoded as one.
LEMMA ConfigKind ==
  ASSUME NEW kind \in DOMAIN RequestPayload, Payload[RequestPayload[kind]] = 7
  PROVE  kind = "Config"
BY DEF RequestPayload, Payload

\* The name a slot of actions reads as, when its byte is known.
LEMMA ActionNamed ==
  ASSUME NEW byte, IsKnown(ConfigAction, byte), NameOf(ConfigAction, byte) = "Apply"
  PROVE  byte = ConfigAction.Apply
<1>1. PICK n \in Known(ConfigAction) : ConfigAction[n] = byte
  BY DEF IsKnown
<1>2. ConfigAction[NameOf(ConfigAction, byte)] = byte
  BY <1>1 DEF NameOf
<1> QED
  BY <1>2

\* A request that decodes as a live apply has both slots, with those values.
LEMMA LiveIsWritten ==
  ASSUME NEW f, IsRequest(f), RequestIn(f).kind = "Config",
         RequestIn(f).body.action = "Apply", RequestIn(f).body.dry_run = FALSE
  PROVE  LET cells == f.envelope[4]
         IN  {1, 4} \subseteq DOMAIN cells /\ cells[1] = ConfigAction.Apply /\ cells[4] = FALSE
<1> DEFINE cells == f.envelope[4]
           T == ConfigRequest
<1>1. PICK kind \in DOMAIN RequestPayload :
        Carries(RequestPayload, f, kind) /\ ReadableTable(TableOf(RequestPayload, kind), cells)
  BY DEF IsRequest, DecodesAs
<1>2. KindIn(RequestPayload, f) = "Config"
  BY DEF RequestIn, MessageIn
<1>3. Carries(RequestPayload, f, "Config")
  BY <1>1, <1>2 DEF KindIn
<1>4. Payload[RequestPayload["Config"]] = 7
  BY DEF Payload, RequestPayload
<1>5. kind = "Config"
  BY <1>1, <1>3, <1>4, ConfigKind DEF Carries
<1>6. HasKnownBytes(T, cells)
  BY <1>1, <1>5, ConfigTable DEF ReadableTable
<1>7. RequestIn(f).body = DecodeTable(T, cells)
  BY <1>2, ConfigTable DEF RequestIn, MessageIn
<1>8. TypedValue(T, cells, "action") = "Apply"
  BY <1>7, ConfigSlots, ConfigFields DEF DecodeTable, DecodeWith
<1>9. TypedValue(T, cells, "dry_run") = FALSE
  BY <1>7, ConfigSlots, ConfigFields DEF DecodeTable, DecodeWith
<1>10. 1 \in DOMAIN cells /\ cells[1] = ConfigAction.Apply
  <2>1. IsGiven(T, cells, "action")
    <3>1. None # "Apply"
      BY SessionAssumption DEF ConfigAction
    <3>2. ~IsGiven(T, cells, "action") => TypedValue(T, cells, "action") = None
      BY ConfigSlots, ConfigFields DEF TypedValue
    <3> QED
      BY <1>8, <3>1, <3>2
  <2>2. IsKnown(ConfigAction, Read(T, cells, "action"))
    <3>1. 1 \in 1..Len(T)
      BY ConfigTable
    <3>2. T[1].type = "enum" /\ IsGiven(T, cells, T[1].name)
            => IsKnown(T[1].of, Read(T, cells, T[1].name))
      BY <3>1, <1>6 DEF HasKnownBytes
    <3> QED
      BY <2>1, <3>2, ConfigFields
  <2>3. NameOf(ConfigAction, Read(T, cells, "action")) = "Apply"
    BY <2>1, <1>8, ConfigSlots, ConfigFields DEF TypedValue
  <2>4. Read(T, cells, "action") = ConfigAction.Apply
    BY <2>2, <2>3, ActionNamed
  <2>5. ConfigAction.Apply # 0
    BY DEF ConfigAction
  <2> QED
    BY <2>4, <2>5, ConfigSlots, ConfigFields DEF Read
<1>11. 4 \in DOMAIN cells /\ cells[4] = FALSE
  <2>1. IsGiven(T, cells, "dry_run")
    <3>1. T[4].default # None
      <4>1. TRUE # None
        BY SessionAssumption
      <4> QED
        BY <4>1, ConfigFields, Zenon
    <3>2. ~HasFlag(T[4]) /\ SlotOf(T, "dry_run") = 4
      <4>1. 4 \in 1..4
        OBVIOUS
      <4> QED
        BY <4>1, ConfigFields, ConfigSlots, Zenon DEF HasFlag
    <3> QED
      BY <3>1, <3>2, Zenon DEF IsGiven, HasFlag
  <2>2. Read(T, cells, "dry_run") = FALSE
    BY <2>1, <1>9, ConfigSlots, ConfigFields DEF TypedValue
  <2> QED
    BY <2>2, ConfigSlots, ConfigFields DEF Read
<1> QED
  BY <1>10, <1>11
-----------------------------------------------------------------------------
(* The inductive invariant.  A frame stays what it was once a connection   *)
(* has it; what dispatch() was given is that frame's request, and what it  *)
(* computed is a response.                                                 *)

IsComputed(r) ==
  \E kind \in DOMAIN ResponsePayload : \E b \in Responses[kind] : r = [kind |-> kind, body |-> b]

Connection(c) ==
  /\ caller[c] \in {"idle", "queued", "encoded"} => server[c] = "none"
  /\ server[c] # "none" => ReadableLength(sent[c])
  /\ server[c] \in {"none", "connected"} => ran[c] = NoMessage
  /\ ran[c] # NoMessage => IsRequest(sent[c]) /\ ran[c] = RequestIn(sent[c])
  /\ server[c] = "replied" /\ ran[c] # NoMessage => ReadableLength(reply[c])
  /\ server[c] = "computed" => IsComputed(computed[c])

IsMap ==
  /\ asked = [c \in Calls |-> asked[c]]
  /\ sent = [c \in Calls |-> sent[c]]
  /\ ran = [c \in Calls |-> ran[c]]
  /\ computed = [c \in Calls |-> computed[c]]
  /\ reply = [c \in Calls |-> reply[c]]
  /\ got = [c \in Calls |-> got[c]]

SessionInv == TypeOK /\ IsMap /\ \A c \in Calls : Connection(c)

LEMMA SessionInit == Init => SessionInv
<1> SUFFICES ASSUME Init PROVE SessionInv
  OBVIOUS
<1> USE DEF Init
<1>1. TypeOK
  BY NoFrameIsFrame DEF TypeOK, CallerPlaces, ServerPlaces
<1>2. IsMap
  BY DEF IsMap
<1>3. \A c \in Calls : Connection(c)
  BY DEF Connection
<1> QED
  BY <1>1, <1>2, <1>3 DEF SessionInv

\* A connection no step touches.
LEMMA Untouched ==
  ASSUME NEW d, Connection(d),
         caller'[d] = caller[d], server'[d] = server[d], sent'[d] = sent[d], ran'[d] = ran[d],
         computed'[d] = computed[d], reply'[d] = reply[d]
  PROVE  Connection(d)'
BY DEF Connection

LEMMA CallKeeps == ASSUME SessionInv, NEW c \in Calls, Call(c) PROVE SessionInv'
<1> USE DEF SessionInv, Call
<1>1. TypeOK'
  <2>1. PICK kind \in DOMAIN RequestPayload : \E b \in Requests[kind] :
          sent' = [sent EXCEPT ![c] = EncodeRequest(nextId, [kind |-> kind, body |-> b])]
    OBVIOUS
  <2>2. \A d \in Calls : IsFrame(sent'[d])
    <3>1. PICK b \in Requests[kind] :
            sent' = [sent EXCEPT ![c] = EncodeRequest(nextId, [kind |-> kind, body |-> b])]
      BY <2>1
    <3>2. IsFrame(EncodeRequest(nextId, [kind |-> kind, body |-> b]))
      BY RequestIsFrame DEF TypeOK
    <3>3. DOMAIN sent = Calls
      BY DEF IsMap
    <3> HIDE DEF SessionInv, Call
    <3>4. \A d \in Calls : sent'[d] = IF d = c THEN EncodeRequest(nextId, [kind |-> kind, body |-> b])
                                      ELSE sent[d]
      BY <3>1, <3>3
    <3> QED
      BY <3>2, <3>4 DEF TypeOK, SessionInv
  <2>3. /\ caller' \in [Calls -> CallerPlaces]
        /\ via' \in [Calls -> {"none", "call", "frame", "peer"}]
    BY DEF TypeOK, CallerPlaces
  <2>4. id' \in [Calls -> Nat] /\ nextId' \in Nat
    BY DEF TypeOK
  <2>5. UNCHANGED <<server, reply, handle, daemon>>
    OBVIOUS
  <2> QED
    BY <2>2, <2>3, <2>4, <2>5 DEF TypeOK
<1>2. IsMap'
  BY DEF IsMap
<1>3. Connection(c)'
  BY DEF Connection, TypeOK, IsMap
<1>4. \A d \in Calls \ {c} : Connection(d)'
  BY Untouched DEF TypeOK, IsMap
<1> QED
  BY <1>1, <1>2, <1>3, <1>4

LEMMA CallHandleKeeps == ASSUME SessionInv, NEW c \in Calls, CallHandle(c) PROVE SessionInv'
<1> USE DEF SessionInv, CallHandle
<1>1. TypeOK'
  BY SessionAssumption DEF TypeOK, IsMap, CallerPlaces, ServerPlaces
<1>2. IsMap'
  BY DEF IsMap
<1>3. Connection(c)'
  BY DEF Connection, TypeOK, IsMap
<1>4. \A d \in Calls \ {c} : Connection(d)'
  BY Untouched DEF TypeOK, IsMap
<1> QED
  BY <1>1, <1>2, <1>3, <1>4

LEMMA CallFrameKeeps == ASSUME SessionInv, NEW c \in Calls, CallFrame(c) PROVE SessionInv'
<1> USE DEF SessionInv, CallFrame
<1>1. TypeOK'
  BY DEF TypeOK, IsMap, CallerPlaces, ServerPlaces
<1>2. IsMap'
  BY DEF IsMap
<1>3. Connection(c)'
  BY DEF Connection, TypeOK, IsMap
<1>4. \A d \in Calls \ {c} : Connection(d)'
  BY Untouched DEF TypeOK, IsMap
<1> QED
  BY <1>1, <1>2, <1>3, <1>4

LEMMA PeerCallKeeps == ASSUME SessionInv, NEW c \in Calls, PeerCall(c) PROVE SessionInv'
<1> USE DEF SessionInv, PeerCall
<1>1. TypeOK'
  BY SessionAssumption DEF TypeOK, IsMap, CallerPlaces, ServerPlaces
<1>2. IsMap'
  BY DEF IsMap
<1>3. Connection(c)'
  BY ValidIsReadable DEF Connection, TypeOK, IsMap
<1>4. \A d \in Calls \ {c} : Connection(d)'
  BY Untouched DEF TypeOK, IsMap
<1> QED
  BY <1>1, <1>2, <1>3, <1>4

LEMMA SendKeeps == ASSUME SessionInv, NEW c \in Calls, Send(c) PROVE SessionInv'
<1> USE DEF SessionInv, Send, Return
<1>1. TypeOK'
  BY DEF TypeOK, IsMap, CallerPlaces, ServerPlaces
<1>2. IsMap'
  BY DEF IsMap
<1>3. Connection(c)'
  BY ValidIsReadable DEF Connection, TypeOK, IsMap
<1>4. \A d \in Calls \ {c} : Connection(d)'
  BY Untouched DEF TypeOK, IsMap
<1> QED
  BY <1>1, <1>2, <1>3, <1>4

LEMMA ReceiveKeeps == ASSUME SessionInv, NEW c \in Calls, Receive(c) PROVE SessionInv'
<1> USE DEF SessionInv, Receive, Return
<1>1. TypeOK'
  BY DEF TypeOK, IsMap, CallerPlaces, ServerPlaces
<1>2. IsMap'
  BY DEF IsMap
<1>3. Connection(c)'
  BY DEF Connection, TypeOK, IsMap
<1>4. \A d \in Calls \ {c} : Connection(d)'
  BY Untouched DEF TypeOK, IsMap
<1> QED
  BY <1>1, <1>2, <1>3, <1>4

LEMMA LoseConnectionKeeps == ASSUME SessionInv, NEW c \in Calls, LoseConnection(c) PROVE SessionInv'
<1> USE DEF SessionInv, LoseConnection, Return
<1>1. TypeOK'
  BY DEF TypeOK, IsMap, CallerPlaces, ServerPlaces
<1>2. IsMap'
  BY DEF IsMap
<1>3. Connection(c)'
  BY DEF Connection, TypeOK, IsMap
<1>4. \A d \in Calls \ {c} : Connection(d)'
  BY Untouched DEF TypeOK, IsMap
<1> QED
  BY <1>1, <1>2, <1>3, <1>4

LEMMA AbandonKeeps == ASSUME SessionInv, NEW c \in Calls, Abandon(c) PROVE SessionInv'
<1> USE DEF SessionInv, Abandon
<1>1. TypeOK'
  BY DEF TypeOK, IsMap, CallerPlaces, ServerPlaces
<1>2. IsMap'
  BY DEF IsMap
<1>3. Connection(c)'
  BY DEF Connection, TypeOK, IsMap
<1>4. \A d \in Calls \ {c} : Connection(d)'
  BY Untouched DEF TypeOK, IsMap
<1> QED
  BY <1>1, <1>2, <1>3, <1>4

LEMMA ReadRequestKeeps == ASSUME SessionInv, NEW c \in Calls, ReadRequest(c) PROVE SessionInv'
<1> USE DEF SessionInv, ReadRequest
<1>1. TypeOK'
  BY DEF TypeOK, IsMap, CallerPlaces, ServerPlaces
<1>2. IsMap'
  BY DEF IsMap
<1>3. Connection(c)'
  BY DEF Connection, TypeOK, IsMap
<1>4. \A d \in Calls \ {c} : Connection(d)'
  BY Untouched DEF TypeOK, IsMap
<1> QED
  BY <1>1, <1>2, <1>3, <1>4

LEMMA DispatchKeeps == ASSUME SessionInv, NEW c \in Calls, Dispatch(c) PROVE SessionInv'
<1> USE DEF SessionInv, Dispatch
<1>1. TypeOK'
  BY DEF TypeOK, IsMap, CallerPlaces, ServerPlaces
<1>2. IsMap'
  BY DEF IsMap
<1>3. Connection(c)'
  BY DEF Connection, TypeOK, IsMap, IsComputed
<1>4. \A d \in Calls \ {c} : Connection(d)'
  BY Untouched DEF TypeOK, IsMap
<1> QED
  BY <1>1, <1>2, <1>3, <1>4

LEMMA WriteResponseKeeps == ASSUME SessionInv, NEW c \in Calls, WriteResponse(c) PROVE SessionInv'
<1> USE DEF SessionInv, WriteResponse
<1> DEFINE f == EncodeResponse(IdIn(sent[c]), computed[c])
<1>0. IsFrame(f)
  <2>1. IsComputed(computed[c])
    BY DEF Connection
  <2>2. PICK kind \in DOMAIN ResponsePayload :
          \E b \in Responses[kind] : computed[c] = [kind |-> kind, body |-> b]
    BY <2>1 DEF IsComputed
  <2>3. PICK b \in Responses[kind] : computed[c] = [kind |-> kind, body |-> b]
    BY <2>2
  <2> QED
    BY <2>3, ResponseIsFrame
<1>1. TypeOK'
  <2>1. \A d \in Calls : reply'[d] = reply[d] \/ reply'[d] = f
    BY DEF IsMap
  <2>2. \A d \in Calls : IsFrame(sent'[d]) /\ IsFrame(reply'[d])
    BY <1>0, <2>1 DEF TypeOK
  <2> HIDE DEF f
  <2>3. daemon' \in {"serving", "stopping", "ended", "foreign"}
    BY DEF TypeOK
  <2>4. server' \in [Calls -> ServerPlaces]
    BY DEF TypeOK, ServerPlaces
  <2> QED
    BY <2>2, <2>3, <2>4 DEF TypeOK
<1>2. IsMap'
  BY DEF IsMap
<1>3. Connection(c)'
  BY ValidIsReadable DEF Connection, TypeOK, IsMap
<1>4. \A d \in Calls \ {c} : Connection(d)'
  BY Untouched DEF TypeOK, IsMap
<1> QED
  BY <1>1, <1>2, <1>3, <1>4

LEMMA ForeignAnswerKeeps == ASSUME SessionInv, NEW c \in Calls, ForeignAnswer(c) PROVE SessionInv'
<1> USE DEF SessionInv, ForeignAnswer
<1>1. TypeOK'
  BY SessionAssumption DEF TypeOK, IsMap, CallerPlaces, ServerPlaces
<1>2. IsMap'
  BY DEF IsMap
<1>3. Connection(c)'
  BY DEF Connection, TypeOK, IsMap
<1>4. \A d \in Calls \ {c} : Connection(d)'
  BY Untouched DEF TypeOK, IsMap
<1> QED
  BY <1>1, <1>2, <1>3, <1>4

LEMMA EndKeeps == ASSUME SessionInv, End PROVE SessionInv'
<1> USE DEF SessionInv, End
<1>1. TypeOK'
  BY DEF TypeOK, ServerPlaces
<1>2. IsMap'
  BY DEF IsMap
<1>3. ASSUME NEW c \in Calls PROVE Connection(c)'
  BY DEF Connection, TypeOK, ServerPlaces
<1> QED
  BY <1>1, <1>2, <1>3

LEMMA SessionNext == SessionInv /\ [Next]_vars => SessionInv'
<1> SUFFICES ASSUME SessionInv, [Next]_vars PROVE SessionInv'
  OBVIOUS
<1>1. CASE End
  BY <1>1, EndKeeps
<1>2. ASSUME NEW c \in Calls, Step(c) PROVE SessionInv'
  BY <1>2, CallKeeps, CallHandleKeeps, CallFrameKeeps, PeerCallKeeps, SendKeeps, ReceiveKeeps,
     LoseConnectionKeeps, AbandonKeeps, ReadRequestKeeps, DispatchKeeps, WriteResponseKeeps,
     ForeignAnswerKeeps DEF Step
<1>3. CASE UNCHANGED vars
  BY <1>3 DEF vars, SessionInv, TypeOK, IsMap, Connection, IsComputed
<1> QED
  BY <1>1, <1>2, <1>3 DEF Next

LEMMA SessionInvariant == Spec => []SessionInv
<1> QED
  BY SessionInit, SessionNext, PTL DEF Spec

-----------------------------------------------------------------------------
(* What is meant and what is answered: a second invariant on top of the    *)
(* first.  A frame says what its caller means, encoded by Client::call or  *)
(* verified by call_frame; the reply is the encoded answer to what         *)
(* dispatch() was given; what the caller is given is the reply decoded.    *)

Meant(c) ==
  /\ via[c] = "call" => \E n : \E kind \in DOMAIN RequestPayload : \E b \in Requests[kind] :
       asked[c] = [kind |-> kind, body |-> b] /\ sent[c] = EncodeRequest(n, asked[c])
  /\ via[c] = "frame" /\ (caller[c] = "encoded" \/ server[c] # "none")
       => asked[c] = RequestIn(sent[c])

Replied(c) ==
  /\ IsComputed(computed[c]) /\ Answers(ran[c], computed[c])
  /\ \E n : reply[c] = EncodeResponse(n, computed[c])

Taken(c) ==
  /\ server[c] = "replied" /\ via[c] # "peer"
  /\ IsResponse(reply[c]) /\ got[c] = ResponseIn(reply[c])

Conversation(c) ==
  /\ caller[c] = "idle" <=> via[c] = "none"
  /\ caller[c] = "queued" => via[c] = "frame"
  /\ Meant(c)
  /\ server[c] = "computed" => Answers(ran[c], computed[c])
  /\ server[c] = "replied" /\ ran[c] # NoMessage => Replied(c)
  /\ caller[c] = "answered" => Taken(c)

AnswerInv == SessionInv /\ \A c \in Calls : Conversation(c)

LEMMA AnswerInit == Init => AnswerInv
BY SessionInit DEF Init, AnswerInv, Conversation, Meant

\* A call no step touches.
LEMMA Undisturbed ==
  ASSUME NEW d, Conversation(d),
         caller'[d] = caller[d], server'[d] = server[d], via'[d] = via[d], asked'[d] = asked[d],
         sent'[d] = sent[d], ran'[d] = ran[d], computed'[d] = computed[d], reply'[d] = reply[d],
         got'[d] = got[d]
  PROVE  Conversation(d)'
BY DEF Conversation, Meant, Replied, Taken, IsComputed

LEMMA CallConverses ==
  ASSUME AnswerInv, NEW c \in Calls, Call(c) PROVE \A d \in Calls : Conversation(d)'
<1> USE DEF AnswerInv, SessionInv, Call
<1>1. Conversation(c)'
  <2>1. PICK kind \in DOMAIN RequestPayload : \E b \in Requests[kind] :
          LET m == [kind |-> kind, body |-> b]
          IN  asked'[c] = m /\ sent'[c] = EncodeRequest(nextId, m)
    BY DEF IsMap
  <2>2. Meant(c)'
    <3>1. via'[c] = "call"
      BY DEF TypeOK
    <3> QED
      BY <2>1, <3>1 DEF Meant
  <2>3. caller'[c] = "encoded" /\ via'[c] = "call" /\ server'[c] = "none"
    BY DEF Connection, TypeOK
  <2> QED
    BY <2>2, <2>3 DEF Conversation
<1>2. \A d \in Calls \ {c} : Conversation(d)'
  BY Undisturbed DEF TypeOK, IsMap
<1> QED
  BY <1>1, <1>2

LEMMA CallHandleConverses ==
  ASSUME AnswerInv, NEW c \in Calls, CallHandle(c) PROVE \A d \in Calls : Conversation(d)'
<1> USE DEF AnswerInv, SessionInv, CallHandle
<1>1. Conversation(c)'
  BY DEF Connection, Conversation, Meant, Replied, Taken, IsComputed, TypeOK, IsMap
<1>2. \A d \in Calls \ {c} : Conversation(d)'
  BY Undisturbed DEF TypeOK, IsMap
<1> QED
  BY <1>1, <1>2

LEMMA CallFrameConverses ==
  ASSUME AnswerInv, NEW c \in Calls, CallFrame(c) PROVE \A d \in Calls : Conversation(d)'
<1> USE DEF AnswerInv, SessionInv, CallFrame
<1>1. Conversation(c)'
  <2>1. /\ via'[c] = via[c] /\ via[c] # "none" /\ sent'[c] = sent[c]
        /\ server'[c] = "none" /\ caller'[c] \in {"encoded", "failed"}
        /\ caller'[c] = "encoded" => asked'[c] = RequestIn(sent[c])
        /\ caller'[c] = "failed" => asked'[c] = asked[c]
    BY DEF Connection, Conversation, TypeOK, IsMap
  <2>2. via[c] # "call"
    BY DEF Conversation
  <2> QED
    BY <2>1, <2>2 DEF Conversation, Meant
<1>2. \A d \in Calls \ {c} : Conversation(d)'
  BY Undisturbed DEF TypeOK, IsMap
<1> QED
  BY <1>1, <1>2

LEMMA PeerCallConverses ==
  ASSUME AnswerInv, NEW c \in Calls, PeerCall(c) PROVE \A d \in Calls : Conversation(d)'
<1> USE DEF AnswerInv, SessionInv, PeerCall
<1>1. Conversation(c)'
  BY DEF Connection, Conversation, Meant, Replied, Taken, IsComputed, TypeOK, IsMap
<1>2. \A d \in Calls \ {c} : Conversation(d)'
  BY Undisturbed DEF TypeOK, IsMap
<1> QED
  BY <1>1, <1>2

LEMMA SendConverses ==
  ASSUME AnswerInv, NEW c \in Calls, Send(c) PROVE \A d \in Calls : Conversation(d)'
<1> USE DEF AnswerInv, SessionInv, Send, Return
<1>1. Conversation(c)'
  BY DEF Connection, Conversation, Meant, Replied, Taken, IsComputed, TypeOK, IsMap
<1>2. \A d \in Calls \ {c} : Conversation(d)'
  BY Undisturbed DEF TypeOK, IsMap
<1> QED
  BY <1>1, <1>2

LEMMA ReceiveConverses ==
  ASSUME AnswerInv, NEW c \in Calls, Receive(c) PROVE \A d \in Calls : Conversation(d)'
<1> USE DEF AnswerInv, SessionInv, Receive, Return
<1>1. Conversation(c)'
  BY DEF Connection, Conversation, Meant, Replied, Taken, IsComputed, TypeOK, IsMap
<1>2. \A d \in Calls \ {c} : Conversation(d)'
  BY Undisturbed DEF TypeOK, IsMap
<1> QED
  BY <1>1, <1>2

LEMMA LoseConnectionConverses ==
  ASSUME AnswerInv, NEW c \in Calls, LoseConnection(c) PROVE \A d \in Calls : Conversation(d)'
<1> USE DEF AnswerInv, SessionInv, LoseConnection, Return
<1>1. Conversation(c)'
  BY DEF Connection, Conversation, Meant, Replied, Taken, IsComputed, TypeOK, IsMap
<1>2. \A d \in Calls \ {c} : Conversation(d)'
  BY Undisturbed DEF TypeOK, IsMap
<1> QED
  BY <1>1, <1>2

LEMMA AbandonConverses ==
  ASSUME AnswerInv, NEW c \in Calls, Abandon(c) PROVE \A d \in Calls : Conversation(d)'
<1> USE DEF AnswerInv, SessionInv, Abandon
<1>1. Conversation(c)'
  BY DEF Connection, Conversation, Meant, Replied, Taken, IsComputed, TypeOK, IsMap
<1>2. \A d \in Calls \ {c} : Conversation(d)'
  BY Undisturbed DEF TypeOK, IsMap
<1> QED
  BY <1>1, <1>2

LEMMA ReadRequestConverses ==
  ASSUME AnswerInv, NEW c \in Calls, ReadRequest(c) PROVE \A d \in Calls : Conversation(d)'
<1> USE DEF AnswerInv, SessionInv, ReadRequest
<1>1. Conversation(c)'
  BY DEF Connection, Conversation, Meant, Replied, Taken, IsComputed, TypeOK, IsMap
<1>2. \A d \in Calls \ {c} : Conversation(d)'
  BY Undisturbed DEF TypeOK, IsMap
<1> QED
  BY <1>1, <1>2

LEMMA DispatchConverses ==
  ASSUME AnswerInv, NEW c \in Calls, Dispatch(c) PROVE \A d \in Calls : Conversation(d)'
<1> USE DEF AnswerInv, SessionInv, Dispatch
<1>1. Conversation(c)'
  BY DEF Connection, Conversation, Meant, Replied, Taken, IsComputed, TypeOK, IsMap
<1>2. \A d \in Calls \ {c} : Conversation(d)'
  BY Undisturbed DEF TypeOK, IsMap
<1> QED
  BY <1>1, <1>2

LEMMA WriteResponseConverses ==
  ASSUME AnswerInv, NEW c \in Calls, WriteResponse(c) PROVE \A d \in Calls : Conversation(d)'
<1> USE DEF AnswerInv, SessionInv, WriteResponse
<1>1. Conversation(c)'
  BY DEF Connection, Conversation, Meant, Replied, Taken, IsComputed, TypeOK, IsMap
<1>2. \A d \in Calls \ {c} : Conversation(d)'
  BY Undisturbed DEF TypeOK, IsMap
<1> QED
  BY <1>1, <1>2

LEMMA ForeignAnswerConverses ==
  ASSUME AnswerInv, NEW c \in Calls, ForeignAnswer(c) PROVE \A d \in Calls : Conversation(d)'
<1> USE DEF AnswerInv, SessionInv, ForeignAnswer
<1>1. Conversation(c)'
  BY DEF Connection, Conversation, Meant, Replied, Taken, IsComputed, TypeOK, IsMap
<1>2. \A d \in Calls \ {c} : Conversation(d)'
  BY Undisturbed DEF TypeOK, IsMap
<1> QED
  BY <1>1, <1>2

LEMMA EndConverses == ASSUME AnswerInv, End PROVE \A c \in Calls : Conversation(c)'
<1> SUFFICES ASSUME AnswerInv, End, NEW c \in Calls PROVE Conversation(c)'
  OBVIOUS
<1>1. UNCHANGED <<caller, via, asked, sent, ran, computed, reply, got>>
  BY DEF End
<1>2. \/ server'[c] = server[c]
      \/ server[c] \notin {"none", "replied"} /\ server'[c] = "closed"
  BY DEF End
<1>3. Conversation(c) /\ Meant(c)
  BY DEF AnswerInv, Conversation
<1>4. Meant(c)'
  BY <1>1, <1>2, <1>3 DEF Meant
<1>5. Replied(c) => Replied(c)'
  BY <1>1 DEF Replied, IsComputed
<1>6. Taken(c) => Taken(c)'
  BY <1>1, <1>2 DEF Taken
<1> QED
  BY <1>1, <1>2, <1>3, <1>4, <1>5, <1>6 DEF Conversation

LEMMA AnswerNext == AnswerInv /\ [Next]_vars => AnswerInv'
<1> SUFFICES ASSUME AnswerInv, [Next]_vars PROVE AnswerInv'
  OBVIOUS
<1>1. SessionInv'
  BY SessionNext DEF AnswerInv
<1>2. CASE End
  BY <1>1, <1>2, EndConverses DEF AnswerInv
<1>3. ASSUME NEW c \in Calls, Step(c) PROVE AnswerInv'
  BY <1>1, <1>3, CallConverses, CallHandleConverses, CallFrameConverses, PeerCallConverses,
     SendConverses, ReceiveConverses, LoseConnectionConverses, AbandonConverses,
     ReadRequestConverses, DispatchConverses, WriteResponseConverses, ForeignAnswerConverses
     DEF Step, AnswerInv
<1>4. CASE UNCHANGED vars
  BY <1>1, <1>4, Undisturbed DEF vars, AnswerInv
<1> QED
  BY <1>2, <1>3, <1>4 DEF Next

LEMMA AnswerInvariant == Spec => []AnswerInv
<1> QED
  BY AnswerInit, AnswerNext, PTL DEF Spec

-----------------------------------------------------------------------------
(* Theorems. *)

\* Every side of every call is in a place the code has, with a frame once it has been sent.
THEOREM SessionTypes == Spec => []TypeOK
<1>1. SessionInv => TypeOK
  BY DEF SessionInv
<1> QED
  BY <1>1, SessionInvariant, PTL

(* However long messages are, what one side writes the other side reads:   *)
(* write_frame's limit is never above read_frame's.                        *)
THEOREM LimitsAlwaysAgree == Spec => []LimitsAgree
<1>1. SessionInv => LimitsAgree
  BY DEF SessionInv, Connection, LimitsAgree
<1> QED
  BY <1>1, SessionInvariant, PTL

(* Whatever a client of whatever version sends, the daemon applies a       *)
(* configuration live only for a frame in which the action and dry_run are *)
(* both written.                                                           *)
THEOREM LiveIsAlwaysSaid == Spec => []LiveOnlyWhenSaid
<1>1. SessionInv => LiveOnlyWhenSaid
  <2> SUFFICES ASSUME SessionInv, NEW c \in Calls, ran[c].kind = "Config",
                      ran[c].body.action = "Apply", ran[c].body.dry_run = FALSE
               PROVE  LET cells == sent[c].envelope[4]
                      IN  {1, 4} \subseteq DOMAIN cells /\ cells[1] = ConfigAction.Apply /\ cells[4] = FALSE
    BY DEF LiveOnlyWhenSaid
  <2>1. ran[c] # NoMessage
    BY DEF NoMessage
  <2>2. IsRequest(sent[c]) /\ ran[c] = RequestIn(sent[c])
    BY <2>1 DEF SessionInv, Connection
  <2> QED
    BY <2>2, LiveIsWritten
<1> QED
  BY <1>1, SessionInvariant, PTL

(* What is acted on is understood: of whatever version a frame is, the     *)
(* daemon runs a request, and a caller takes an answer, only if its        *)
(* protocol version, its payload and every byte of an enumeration that is  *)
(* read from its table are known to this version of the schema.            *)
THEOREM UnderstoodOrAlwaysRefused == Spec => []UnderstoodOrRefused
<1>1. AnswerInv => UnderstoodOrRefused
  <2> SUFFICES ASSUME AnswerInv, NEW c \in Calls
               PROVE  /\ ran[c] # NoMessage => Understood(RequestPayload, sent[c])
                      /\ caller[c] = "answered" => Understood(ResponsePayload, reply[c])
    BY DEF UnderstoodOrRefused
  <2>1. ran[c] # NoMessage => DecodesAs(RequestPayload, sent[c])
    BY DEF AnswerInv, SessionInv, Connection, IsRequest
  <2>2. caller[c] = "answered" => DecodesAs(ResponsePayload, reply[c])
    BY DEF AnswerInv, Conversation, Taken, IsResponse
  <2> QED
    BY <2>1, <2>2, DecodedIsUnderstood DEF MessageKinds
<1> QED
  BY <1>1, AnswerInvariant, PTL

(* Whatever is asked and answered, of every type of message the schema     *)
(* has: dispatch() is given what the caller meant, the caller what         *)
(* dispatch() computed, and that is an answer to what it asked.  Nothing   *)
(* is lost, defaulted or taken for another value on either way.            *)
THEOREM AnswersAreAlwaysOwn == Spec => []AnswersAreOwn
<1>1. AnswerInv => AnswersAreOwn
  <2> SUFFICES ASSUME AnswerInv, NEW c \in Calls
               PROVE  /\ server[c] \in {"running", "computed", "replied"} /\ ran[c] # NoMessage
                           /\ via[c] # "peer" => ran[c] = asked[c]
                      /\ caller[c] = "answered" /\ ran[c] # NoMessage
                           => got[c] = computed[c] /\ Answers(asked[c], got[c])
    BY DEF AnswersAreOwn
  <2>1. ASSUME server[c] \in {"running", "computed", "replied"}, ran[c] # NoMessage, via[c] # "peer"
        PROVE  ran[c] = asked[c]
    <3>1. IsRequest(sent[c]) /\ ran[c] = RequestIn(sent[c])
      BY <2>1 DEF AnswerInv, SessionInv, Connection
    <3>2. via[c] \in {"call", "frame"}
      BY <2>1 DEF AnswerInv, SessionInv, TypeOK, Connection, Conversation
    <3>3. CASE via[c] = "frame"
      BY <2>1, <3>1, <3>3 DEF AnswerInv, Conversation, Meant
    <3>4. CASE via[c] = "call"
      <4>1. PICK n : \E kind \in DOMAIN RequestPayload : \E b \in Requests[kind] :
              asked[c] = [kind |-> kind, body |-> b] /\ sent[c] = EncodeRequest(n, asked[c])
        BY <3>4 DEF AnswerInv, Conversation, Meant
      <4>2. PICK kind \in DOMAIN RequestPayload : \E b \in Requests[kind] :
              asked[c] = [kind |-> kind, body |-> b] /\ sent[c] = EncodeRequest(n, asked[c])
        BY <4>1
      <4>3. PICK b \in Requests[kind] :
              asked[c] = [kind |-> kind, body |-> b] /\ sent[c] = EncodeRequest(n, asked[c])
        BY <4>2
      <4>4. HasMessageType(TableOf(RequestPayload, kind), b)
        BY SessionAssumption DEF AreTyped
      <4> QED
        BY <3>1, <4>3, <4>4, DecodedIsEncoded DEF MessageKinds, IsRequest, RequestIn, EncodeRequest
    <3> QED
      BY <3>2, <3>3, <3>4
  <2>2. ASSUME caller[c] = "answered", ran[c] # NoMessage
        PROVE  got[c] = computed[c] /\ Answers(asked[c], got[c])
    <3>1. Taken(c) /\ Replied(c)
      BY <2>2 DEF AnswerInv, Conversation, Taken
    <3>2. PICK kind \in DOMAIN ResponsePayload : \E b \in Responses[kind] :
            computed[c] = [kind |-> kind, body |-> b]
      BY <3>1 DEF Replied, IsComputed
    <3>3. PICK b \in Responses[kind] : computed[c] = [kind |-> kind, body |-> b]
      BY <3>2
    <3>4. PICK n : reply[c] = EncodeResponse(n, computed[c])
      BY <3>1 DEF Replied
    <3>5. HasMessageType(TableOf(ResponsePayload, kind), b)
      BY SessionAssumption DEF AreTyped
    <3>6. got[c] = computed[c]
      BY <3>1, <3>3, <3>4, <3>5, DecodedIsEncoded
         DEF MessageKinds, Taken, IsResponse, ResponseIn, EncodeResponse
    <3>7. ran[c] = asked[c]
      BY <2>1, <2>2, <3>1 DEF Taken
    <3> QED
      BY <3>1, <3>6, <3>7 DEF Replied
  <2> QED
    BY <2>1, <2>2
<1> QED
  BY <1>1, AnswerInvariant, PTL
=============================================================================
