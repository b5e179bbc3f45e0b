---------------------------- MODULE ExcelValues ----------------------------
(***************************************************************************)
(* Conversion between what Excel passes and what a worksheet function      *)
(* sees (utf16.rs, value/*, reference.rs, return_abi/array.rs).  Nothing   *)
(* here has state beyond one call; each conversion is an operator, and is  *)
(* compared with a definition of what it has to compute over small inputs. *)
(*                                                                         *)
(* A raw value is a tuple <<type, payload...>>.  A number is counted in    *)
(* halves.  An identity is the sequence of writes to the encoder, each a   *)
(* pair <<bytes, number>>; what the encoder makes of them is the subject   *)
(* of FormulaIdentity.                                                     *)
(***************************************************************************)
EXTENDS Integers, Sequences, FiniteSets, SequencesExt, FiniteSetsExt

CONSTANTS Units,           \* UTF-16 code units
          MaxText,         \* units of a string
          TextLimits,      \* limits that an encoder is given
          InlineUnits,     \* INLINE_UTF16_CAPACITY
          InlineText,      \* INLINE_TEXT_CAPACITY
          Serials,         \* days of date serials
          Years,           \* years whose every day is a serial as well
          MaxRows, MaxColumns, MaxElements,
          MaxAreas,        \* MAX_REFERENCE_AREAS
          ArrayBytes,      \* MAX_ARRAY_BYTES
          OperBytes,       \* size of an XLOPER12
          I32Max,          \* the largest i32
          Exact            \* the largest integer a number represents exactly

Bit(condition) == IF condition THEN 1 ELSE 0
RECURSIVE Total(_)
Total(s) == IF s = <<>> THEN 0 ELSE Head(s) + Total(Tail(s))
Map(s, Op(_)) == [i \in DOMAIN s |-> Op(s[i])]

-----------------------------------------------------------------------------
(* Text.  Utf16Decoder plans the length of the UTF-8 text unit by unit. *)
High == 55296..56319
Low == 56320..57343
UnitBytes(u) == 1 + Bit(u >= 128) + Bit(u >= 2048) - Bit(u \in High \cup Low)
Plan(units) == Total(Map(units, UnitBytes))

\* char::decode_utf16 and char::encode_utf16; a lone surrogate is -1.
RECURSIVE Scalars(_)
Scalars(units) ==
  IF units = <<>> THEN <<>>
  ELSE LET u == Head(units) IN
    IF u \in High /\ Len(units) > 1 /\ units[2] \in Low
    THEN <<65536 + (u - 55296) * 1024 + (units[2] - 56320)>> \o Scalars(Tail(Tail(units)))
    ELSE <<IF u \in High \cup Low THEN -1 ELSE u>> \o Scalars(Tail(units))
Surrogates(c) ==
  IF c < 65536 THEN <<c>> ELSE <<55296 + (c - 65536) \div 1024, 56320 + ((c - 65536) % 1024)>>
WellFormed(units) == \A i \in DOMAIN Scalars(units) : Scalars(units)[i] # -1

\* decode_into, one scalar at a time
Follow(c, shift) == 128 + ((c \div shift) % 64)
Utf8(c) ==
  CASE c < 128 -> <<c>>
    [] c \in 128..2047 -> <<192 + c \div 64, Follow(c, 1)>>
    [] c \in 2048..65535 -> <<224 + c \div 4096, Follow(c, 64), Follow(c, 1)>>
    [] OTHER -> <<240 + c \div 262144, Follow(c, 4096), Follow(c, 64), Follow(c, 1)>>
\* decode_three_byte_bmp
ThreeBytes(u) == <<224 + u \div 4096, 128 + ((u \div 64) % 64), 128 + (u % 64)>>

Failure == <<-1>>
\* What has been written when the first lone surrogate is met, or all of it.
Prefix(units) ==
  LET cs == Scalars(units) lone == {i \in DOMAIN cs : cs[i] = -1} IN
    FlattenSeq(Map(IF lone = {} THEN cs ELSE SubSeq(cs, 1, Min(lone) - 1), Utf8))
DecodeInto(units) ==
  CASE Plan(units) = Len(units) -> Map(units, LAMBDA u : u % 256)
    [] Plan(units) = 3 * Len(units) -> FlattenSeq(Map(units, ThreeBytes))
    [] OTHER -> IF WellFormed(units) THEN Prefix(units) ELSE Failure
\* decode_owned
DecodeOwned(units) == IF units = <<>> THEN <<>> ELSE DecodeInto(units)

\* non_ascii_utf16_len, over the bytes
Utf16Len(bytes) == Total(Map(bytes, LAMBDA b : Bit(b \div 64 # 2) + Bit(b >= 240)))
\* checked_utf16_len
CheckedLen(bytes) == IF \A i \in DOMAIN bytes : bytes[i] < 128 THEN Len(bytes) ELSE Utf16Len(bytes)
\* validate_utf16_limit
WithinLimit(bytes, limit) == Len(bytes) <= limit \/ CheckedLen(bytes) <= limit

\* encode_counted: the room that is reserved, and the counted units.
Capacity(bytes, limit) ==
  IF Len(bytes) < InlineUnits /\ Len(bytes) <= limit THEN Len(bytes) + 1 ELSE CheckedLen(bytes) + 1
EncodeCounted(cs, limit) ==
  LET bytes == FlattenSeq(Map(cs, Utf8))
      short == Len(bytes) < InlineUnits /\ Len(bytes) <= limit
      ascii == IF short THEN \A i \in DOMAIN bytes : bytes[i] < 128 ELSE Len(bytes) = CheckedLen(bytes)
      units == FlattenSeq(Map(cs, Surrogates)) IN
  IF ~short /\ CheckedLen(bytes) > limit THEN Failure
  ELSE IF ascii THEN <<Len(bytes)>> \o bytes ELSE <<Len(units)>> \o units

\* fold_ascii, utf16_eq_ignore_ascii_case
FoldAscii(u) == IF u \in 65..90 THEN u + 32 ELSE u
EqIgnoreCase(a, b) == Len(a) = Len(b) /\ \A i \in DOMAIN a : FoldAscii(a[i]) = FoldAscii(b[i])

\* CallScratch::decode_utf16: where the text goes.  The inline slot is one, an arena appends.
Place(inlineUsed, large, units) ==
  CASE units = <<>> -> "static"
    [] units # <<>> /\ Plan(units) <= InlineText /\ ~inlineUsed -> "inline"
    [] OTHER -> IF large THEN "strings" ELSE "arena"
\* The texts of a call in a row: none that was handed out is overwritten by a later one.
RECURSIVE Stored(_, _, _)
Stored(texts, large, inline) ==
  IF texts = <<>> THEN <<>>
  ELSE LET place == Place(inline, large, Head(texts)) IN
         <<place>> \o Stored(Tail(texts), large,
                             inline \/ (place = "inline" /\ DecodeInto(Head(texts)) # Failure))

Texts == SeqOf(Units, MaxText)

(* The three ways of decoding agree with the definition of UTF-16: a text is refused exactly *)
(* when a surrogate is alone, also on the paths that look at lengths only, it fills its plan *)
(* exactly, nothing is ever written past the plan, and encoding it again gives the units back *)
(* within the room reserved, refused exactly above the limit. *)
TextIsExact ==
  \A us \in Texts :
    LET decoded == DecodeOwned(us) IN
    /\ decoded = (IF WellFormed(us) THEN Prefix(us) ELSE Failure)
    /\ Len(Prefix(us)) <= Plan(us)
    /\ WellFormed(us) =>
         /\ Len(decoded) = Plan(us) /\ CheckedLen(decoded) = Len(us)
         /\ \A limit \in TextLimits :
              /\ WithinLimit(decoded, limit) <=> Len(us) <= limit
              /\ LET counted == EncodeCounted(Scalars(us), limit) IN
                   IF Len(us) <= limit
                   THEN counted = <<Len(us)>> \o us /\ Len(counted) <= Capacity(decoded, limit)
                   ELSE counted = Failure

(* Comparing with the case of letters ignored equates a capital with its small letter only. *)
CaseIsLetters ==
  \A u, w \in 60..130 :
    EqIgnoreCase(<<u>>, <<w>>) <=> u = w \/ \E k \in 65..90 : {u, w} = {k, k + 32}

(* No two texts of a call share the inline slot, whatever texts came in between. *)
TextsKeepTheirPlace ==
  \A a, b, c \in {us \in Texts : Len(us) <= 1}, large \in BOOLEAN :
    LET places == Stored(<<a, b, c>>, large, FALSE) IN
      Cardinality({i \in 1..3 : places[i] = "inline" /\ DecodeInto(<<a, b, c>>[i]) # Failure}) <= 1

-----------------------------------------------------------------------------
(* Dates.  A serial is a number of quarter days. *)
Systems == {"workbook", "windows1900", "mac1904"}
IsLeap(y) == y % 4 = 0 /\ (y % 100 # 0 \/ y % 400 = 0)
DaysBeforeYear(y) == LET p == y - 1 IN 365 * p + p \div 4 - p \div 100 + p \div 400
DaysInMonth(y, m) ==
  CASE m = 2 -> 28 + Bit(IsLeap(y)) [] m \in {4, 6, 9, 11} -> 30 [] OTHER -> 31
DaysBeforeMonth == <<0, 31, 59, 90, 120, 151, 181, 212, 243, 273, 304, 334>>
March1900 == DaysBeforeYear(1900) + 59
Epoch(system) == IF system = "windows1900" THEN DaysBeforeYear(1900) - 1 ELSE DaysBeforeYear(1904)

None == <<>>
FromYmd(y, m, d, system) ==
  IF system = "workbook" \/ y \notin 1..9999 \/ m \notin 1..12 \/ d < 1 \/ d > DaysInMonth(y, m) THEN None
  ELSE LET ordinal == DaysBeforeYear(y) + DaysBeforeMonth[m] + Bit(m > 2 /\ IsLeap(y)) + d - 1 IN
         <<ordinal - Epoch(system) + Bit(system = "windows1900" /\ ordinal >= March1900)>>

\* calendar_day: the year by bisection, the month by counting.
RECURSIVE FindYear(_, _, _)
FindYear(ordinal, year, end) ==
  IF year + 1 >= end THEN year
  ELSE LET middle == year + (end - year) \div 2 IN
         IF DaysBeforeYear(middle) <= ordinal THEN FindYear(ordinal, middle, end)
         ELSE FindYear(ordinal, year, middle)
RECURSIVE FindMonth(_, _, _)
FindMonth(year, month, day) ==
  IF day < DaysInMonth(year, month) THEN <<year, month, day + 1>>
  ELSE FindMonth(year, month + 1, day - DaysInMonth(year, month))
ToYmd(quarters, system) ==
  LET day == quarters \div 4
      ordinal == day + Epoch(system) - Bit(system = "windows1900" /\ day >= 61) IN
  IF system = "workbook" \/ (system = "windows1900" /\ day = 60)
     \/ ordinal < 0 \/ ordinal >= DaysBeforeYear(10000) THEN None
  ELSE LET year == FindYear(ordinal, 1, 10000) IN FindMonth(year, 1, ordinal - DaysBeforeYear(year))

NextDay(date) ==
  LET y == date[1] m == date[2] d == date[3] IN
    IF d < DaysInMonth(y, m) THEN <<y, m, d + 1>>
    ELSE IF m < 12 THEN <<y, m + 1, 1>> ELSE <<y + 1, 1, 1>>
Days == Serials \cup UNION {{FromYmd(y, m, 1, "mac1904")[1] : m \in 1..12} : y \in Years}

(* Both calendars count one Gregorian day per serial from their epoch on, except that the *)
(* 1900 system has one serial that is no date at all, 60; a date and its serial determine one *)
(* another, and the time of day never changes the date, before the epoch either. *)
DatesAreExact ==
  /\ ToYmd(4, "windows1900") = <<1900, 1, 1>> /\ ToYmd(0, "mac1904") = <<1904, 1, 1>>
  /\ \A day \in Days, system \in Systems :
       LET date == ToYmd(4 * day, system) next == ToYmd(4 * (day + 1), system) IN
       /\ \A q \in 1..3 : ToYmd(4 * day + q, system) = date
       /\ date # None => FromYmd(date[1], date[2], date[3], system) = <<day>>
       /\ date # None /\ next # None => next = NextDay(date)
       /\ system = "windows1900" /\ day = 59 =>
            next = None /\ ToYmd(4 * 61, system) = NextDay(date)
       /\ system = "workbook" => date = None

-----------------------------------------------------------------------------
(* ReferenceArea: the A1 label of a column, and the areas that are accepted. *)
RECURSIVE Label(_)
Label(number) == IF number = 0 THEN <<>> ELSE Append(Label((number - 1) \div 26), (number - 1) % 26)
Address(row, column) == <<Label(column + 1), row + 1>>
RECURSIVE ColumnOf(_)
ColumnOf(label) == IF label = <<>> THEN 0 ELSE 26 * ColumnOf(Front(label)) + Last(label) + 1

\* ReferenceArea::parse over <<first row, last row, first column, last column>>
AreaAccepted(a) ==
  ~(a[1] < 0 \/ a[2] < a[1] \/ a[2] > MaxRows - 1 \/ a[3] < 0 \/ a[4] < a[3] \/ a[4] > MaxColumns - 1)
CellCount(a) == (a[2] - a[1] + 1) * (a[4] - a[3] + 1)
\* ExcelReference::from_excel_reference: the areas that are handed out, none if it is refused
FromReference(type, count, table) ==
  CASE type = "sref" -> IF count = 1 /\ AreaAccepted(table[1]) THEN <<table[1]>> ELSE None
    [] type = "ref" -> IF count = 0 \/ count > MaxAreas \/ \E i \in 1..count : ~AreaAccepted(table[i])
                       THEN None ELSE SubSeq(table, 1, count)
    [] OTHER -> None
Areas == (-1..MaxRows) \X (-1..MaxRows) \X (-1..MaxColumns) \X (-1..MaxColumns)

(* Every column of a worksheet has an address of its own, of at most three letters, and an *)
(* accepted area lies within the sheet and counts its cells.  A reference is taken as a whole: *)
(* each area it hands out has been validated, and one bad area refuses them all. *)
ReferencesAreExact ==
  /\ \A column \in {0, 25, 26, 701, 702, 16383} \cup 0..60 :
       Len(Label(column + 1)) \in 1..3 /\ ColumnOf(Label(column + 1)) = column + 1
  /\ \A a \in Areas :
       LET cells == {<<r, c>> \in (0..MaxRows - 1) \X (0..MaxColumns - 1) :
                       r \in a[1]..a[2] /\ c \in a[3]..a[4]} IN
       /\ AreaAccepted(a) => Cardinality(cells) = CellCount(a) /\ cells # {}
       /\ \A type \in {"sref", "ref", "number"}, count \in 0..MaxAreas + 1 :
            LET good == <<0, 0, 0, 0>>
                table == [i \in 1..MaxAreas + 1 |-> IF i = 2 THEN a ELSE good]
                areas == FromReference(type, count, table) IN
            /\ \A i \in DOMAIN areas : AreaAccepted(areas[i])
            /\ areas # None <=> \/ type = "sref" /\ count = 1
                               \/ /\ type = "ref" /\ count \in 1..MaxAreas
                                  /\ count >= 2 => AreaAccepted(a)
            /\ areas # None => Len(areas) = count

-----------------------------------------------------------------------------
(* Cells.  A conversion gives an error, or a value and the identity it has recorded. *)
NaN == 1000001
NegZero == -1000001
KnownErrors == {7, 42}
Fail(error) == [error |-> error, value |-> <<>>, id |-> <<>>]
Ok(value, id) == [error |-> "", value |-> value, id |-> id]
\* The ? operator: an error is passed on, a value is wrapped and recorded after a prefix.
Then(r, Wrap(_), before) == IF r.error # "" THEN r ELSE Ok(Wrap(r.value), before \o r.id)
Checked(error, r) == IF error # "" THEN Fail(error) ELSE r
Plain(x) == x
Ready(x) == <<"ready", x>>
Present(x) == <<"present", x>>
Tag(n) == <<1, n>>
Wide(n) == <<8, n>>
TypeOf(v) == v[1]
\* XlValueRef::wrong_type
WrongType(v) ==
  IF TypeOf(v) # "error" THEN Fail("wrong type")
  ELSE IF v[2] \in KnownErrors THEN Fail("excel value") ELSE Fail("unknown error code")

\* f64: integers widen exactly
FromNumber(v) ==
  CASE TypeOf(v) = "number" -> IF v[2] = NaN THEN Fail("non finite") ELSE Ok(<<"f64", v[2]>>, <<Wide(v[2])>>)
    [] TypeOf(v) = "integer" -> Ok(<<"f64", 2 * v[2]>>, <<Wide(2 * v[2])>>)
    [] OTHER -> WrongType(v)
\* bool, any nonzero payload
FromBoolean(v) ==
  IF TypeOf(v) # "boolean" THEN WrongType(v)
  ELSE Ok(<<"bool", Bit(v[2] # 0)>>, <<Tag(Bit(v[2] # 0))>>)
\* number_to_integer
ToInteger(n, limit, low) ==
  IF n = NaN THEN Fail("non finite")
  ELSE LET x == IF n = NegZero THEN 0 ELSE n IN
    IF x % 2 # 0 THEN Fail("not integer")
    ELSE IF x < 2 * low \/ x > 2 * limit THEN Fail("numeric overflow")
    ELSE Ok(<<"int", x \div 2>>, <<Wide(x \div 2)>>)
\* i32 and i64
FromInteger(v, limit, low) ==
  CASE TypeOf(v) = "integer" -> Ok(<<"int", v[2]>>, <<Wide(v[2])>>)
    [] TypeOf(v) = "number" -> ToInteger(v[2], limit, low)
    [] OTHER -> WrongType(v)
\* ExcelError
FromError(v) ==
  IF TypeOf(v) # "error" THEN WrongType(v)
  ELSE IF v[2] \in KnownErrors THEN Ok(<<"error", v[2]>>, <<Wide(v[2])>>) ELSE Fail("unknown error code")
\* ExcelSerialDate: the serial and its unresolved system
FromDate(v) ==
  LET n == FromNumber(v) IN
    IF n.error # "" THEN n ELSE Ok(<<"date", n.value[2]>>, n.id \o <<Tag(0)>>)

\* InputIdentityEncoder::string, and semantic_utf16, which writes the same from the units.
StringId(bytes) == <<Wide(Len(bytes))>> \o Map(bytes, Tag)
SemanticId(units) ==
  IF Plan(units) = Len(units) THEN <<Wide(Plan(units))>> \o Map(units, LAMBDA u : Tag(u % 256))
  ELSE <<Wide(Plan(units))>> \o Map(Prefix(units), Tag)
Decoded(bytes, recorded) ==
  IF bytes = Failure THEN Fail("invalid utf16")
  ELSE Ok(<<"string", bytes>>, IF recorded THEN StringId(bytes) ELSE <<>>)
\* String::from_excel
FromString(v) ==
  IF TypeOf(v) # "string" THEN WrongType(v)
  ELSE Decoded(DecodeOwned(v[2]), TRUE)
\* PrepareExcel for String, prepare_borrowed_string: the units are validated and kept.
PrepareString(v) ==
  IF TypeOf(v) # "string" THEN WrongType(v)
  ELSE IF ~WellFormed(v[2]) THEN Fail("invalid utf16")
  ELSE Ok(<<"units", v[2]>>, SemanticId(v[2]))

\* ExcelCellValue::from_excel and decode_cell_ref, with the tag of the kind
Tagged(n, r) == Then(r, Plain, <<Tag(n)>>)
FromCell(v) ==
  CASE TypeOf(v) \in {"number", "integer"} -> Tagged(1, FromNumber(v))
    [] TypeOf(v) = "boolean" -> Tagged(2, FromBoolean(v))
    [] TypeOf(v) = "string" -> Tagged(3, FromString(v))
    [] TypeOf(v) = "error" -> Tagged(4, FromError(v))
    [] TypeOf(v) = "nil" -> Ok(<<"blank">>, <<Tag(5)>>)
    [] OTHER -> WrongType(v)
\* validate_dynamic_cell: the same, without decoding
ValidateDynamic(v) ==
  IF TypeOf(v) = "string" THEN Tagged(3, PrepareString(v)) ELSE FromCell(v)

-----------------------------------------------------------------------------
(* Grids.  A scalar is a grid of one cell. *)
Rows(v) == IF TypeOf(v) = "multi" THEN v[2] ELSE 1
Columns(v) == IF TypeOf(v) = "multi" THEN v[3] ELSE 1
Cells(v) == IF TypeOf(v) = "multi" THEN v[4] ELSE <<v>>
\* array_element_count, with XlValueRef::array's own checks
ArrayError(r, c) ==
  CASE r < 0 \/ c < 0 -> "malformed"
    [] OTHER -> IF r > MaxRows \/ c > MaxColumns \/ r * c > MaxElements \/ r * c * OperBytes > ArrayBytes
                THEN "too large" ELSE ""
\* matrix_element_count: a matrix is never empty
MatrixError(r, c) == IF r = 0 \/ c = 0 THEN "malformed" ELSE ArrayError(r, c)

\* GridShapePolicy: MATRIX_LIMITS and expected
HasLimits(shape) == shape # "vector"
Unexpected(shape, r, c) ==
  \/ shape = "vector" /\ r # 1 /\ c # 1
  \/ shape = "row" /\ r # 1
  \/ shape = "column" /\ c # 1
\* convert::grid and bounded_grid; most = -1 is no bound
GridError(shape, most, v) ==
  LET r == Rows(v) c == Columns(v) IN
  CASE most = 0 -> "malformed"
    [] most # 0 /\ TypeOf(v) = "multi" /\ ArrayError(r, c) # "" -> ArrayError(r, c)
    [] OTHER -> IF HasLimits(shape) /\ MatrixError(r, c) # "" THEN MatrixError(r, c)
                ELSE IF Unexpected(shape, r, c) THEN "shape"
                ELSE IF most > 0 /\ r * c > most THEN "too large" ELSE ""

\* ArrayInputBudget: the host's array, the converted one, and the text of both
SizeOf(t) ==
  CASE t[1] \in {"bool", "error"} -> 1
    [] t[1] \in {"f64", "i32", "i64"} -> 2
    [] t[1] \in {"option", "optional"} -> 3
    [] OTHER -> 4
\* What a prepared element takes, with the wrapper around it.
PreparedSize(t) == IF t[1] \in {"string", "cell", "value", "f64", "bool", "i32", "i64", "error", "date"}
                   THEN SizeOf(t) ELSE SizeOf(t) + 8
Budget(n, size) == n * (OperBytes + size)
TextBytes(cell) == IF TypeOf(cell) = "string" THEN 5 * Len(cell[2]) ELSE 0

\* The first error, or all values and what they recorded in their order.
Collected(results) ==
  LET bad == {i \in DOMAIN results : results[i].error # ""} IN
    IF bad # {} THEN Fail(results[Min(bad)].error)
    ELSE Ok(Map(results, LAMBDA r : r.value), FlattenSeq(Map(results, LAMBDA r : r.id)))

\* convert_owned_grid_elements: each cell is checked, charged and converted in turn.
CellError(cells, base, i) ==
  CASE TypeOf(cells[i]) \in {"unknown", "multi"} -> "malformed"
    [] OTHER -> IF TypeOf(cells[i]) = "string"
                     /\ base + Total([j \in 1..i |-> TextBytes(cells[j])]) > ArrayBytes
                THEN "too large" ELSE ""
Sweep(cells, base, Step(_)) ==
  IF base > ArrayBytes THEN Fail("too large")
  ELSE Collected([i \in DOMAIN cells |-> Checked(CellError(cells, base, i), Step(cells[i]))])

\* ExcelValue and ExcelValueRef: a missing argument, one cell, or a matrix of cells
Dynamic(v, Step(_)) ==
  CASE TypeOf(v) = "missing" -> Ok(<<"missing">>, <<Tag(2)>>)
    [] TypeOf(v) = "multi" ->
         Checked(GridError("matrix", -1, v),
                 Then(Sweep(Cells(v), Budget(Len(Cells(v)), SizeOf(<<"cell">>)), Step),
                      LAMBDA cells : <<"array", Rows(v), Columns(v), cells>>,
                      <<Tag(3), Wide(Rows(v)), Wide(Columns(v))>>))
    [] OTHER -> Tagged(1, Step(v))
FromDynamic(v) == Dynamic(v, FromCell)

\* encode_raw_value: every kind has a tag and its bits; an integer is not a number here
RawId(cell) ==
  CASE TypeOf(cell) = "number" -> <<Tag(1), Wide(cell[2])>>
    [] TypeOf(cell) = "boolean" -> <<Tag(2), <<4, cell[2]>>>>
    [] TypeOf(cell) = "string" -> <<Tag(3), Wide(Len(cell[2]))>> \o Map(cell[2], LAMBDA u : <<2, u>>)
    [] TypeOf(cell) = "error" -> <<Tag(4), Wide(cell[2])>>
    [] TypeOf(cell) = "missing" -> <<Tag(5)>>
    [] TypeOf(cell) = "nil" -> <<Tag(6)>>
    [] TypeOf(cell) = "integer" -> <<Tag(8), Wide(cell[2])>>
    [] OTHER -> <<>>
\* XlArrayRef: the types of the cells are checked when it is made, the rest by its encoder
RawArray(v) ==
  IF TypeOf(v) # "multi" THEN WrongType(v)
  ELSE IF ArrayError(Rows(v), Columns(v)) # "" THEN Fail(ArrayError(Rows(v), Columns(v)))
  ELSE LET cells == Cells(v)
           text == Total(Map(cells, LAMBDA c : IF TypeOf(c) = "string" THEN 2 * (Len(c[2]) + 1) ELSE 0)) IN
       IF \E i \in DOMAIN cells : TypeOf(cells[i]) = "unknown" THEN Fail("malformed")
       ELSE IF Budget(Len(cells), 0) + text > ArrayBytes THEN Fail("too large")
       ELSE IF \E i \in DOMAIN cells : RawId(cells[i]) = <<>>
            THEN Fail(IF TypeOf(cells[Min({i \in DOMAIN cells : RawId(cells[i]) = <<>>})]) = "multi"
                      THEN "malformed" ELSE "wrong type")
       ELSE Ok(<<"raw", Rows(v), Columns(v), cells>>,
               <<Wide(Rows(v)), Wide(Columns(v))>> \o FlattenSeq(Map(cells, RawId)))

-----------------------------------------------------------------------------
(* Parameters.  A type is <<name>>, or <<container, element type>>. *)
\* ExcelValueRef::decode: prepared, then materialized
Identified(made, id) == IF made.error # "" THEN made ELSE Ok(made.value, id)
MadeOf(prepared, made) == IF prepared.error # "" THEN prepared ELSE Identified(made, prepared.id)
FromValueRef(v) == MadeOf(Dynamic(v, ValidateDynamic), FromDynamic(v))
Scalar(kind, v) ==
  CASE kind = "f64" -> FromNumber(v)
    [] kind = "bool" -> FromBoolean(v)
    [] kind = "i32" -> FromInteger(v, I32Max, -I32Max - 1)
    [] kind = "i64" -> FromInteger(v, Exact, -Exact)
    [] kind = "error" -> FromError(v)
    [] kind = "date" -> FromDate(v)
    [] kind \in {"string", "str"} -> FromString(v)
    [] kind = "cell" -> FromCell(v)
    [] kind = "value" -> FromDynamic(v)
    [] kind = "array" -> RawArray(v)
    [] OTHER -> FromValueRef(v)

\* The shape that each container accepts and the lengths it records.
MatrixOf == [shape |-> "matrix", most |-> -1, lengths |-> 2]
MatrixRefOf == [shape |-> "matrix", most |-> -1, lengths |-> 2]
VecOf == [shape |-> "vector", most |-> -1, lengths |-> 1]
RowOf == [shape |-> "row", most |-> -1, lengths |-> 1]
ColumnsOf == [shape |-> "column", most |-> -1, lengths |-> 1]
VarArgsOf(most) == [shape |-> "vector", most |-> most, lengths |-> 1]
Container(t) ==
  CASE t[1] = "matrix" -> MatrixOf
    [] t[1] = "matrixref" -> MatrixRefOf
    [] t[1] = "vec" -> VecOf
    [] t[1] = "row" -> RowOf
    [] t[1] = "column" -> ColumnsOf
    [] OTHER -> VarArgsOf(t[3])
Lengths(t, v) ==
  IF Container(t).lengths = 2 THEN <<Wide(Rows(v)), Wide(Columns(v))>> ELSE <<Wide(Len(Cells(v)))>>
Built(t, v, cells) ==
  IF Container(t).lengths = 2 THEN <<"grid", Rows(v), Columns(v), cells>> ELSE <<"list", cells>>

\* Presence of an argument, as the tag that is recorded.
OptionTag(v) == Bit(TypeOf(v) \notin {"missing", "nil"})
OptionalTag(v) == CASE TypeOf(v) = "missing" -> 0 [] TypeOf(v) = "nil" -> 1 [] OTHER -> 2
Wrapped(t) == t[1] \in {"option", "optional"}
PresenceTag(t, v) == IF t[1] = "option" THEN OptionTag(v) ELSE OptionalTag(v)
PresentTag(t) == IF t[1] = "option" THEN 1 ELSE 2
\* None; OptionalExcelValue::Missing and Blank
Absent(t, v) == IF t[1] = "option" THEN <<"none">> ELSE <<TypeOf(v)>>
Plainly(kinds, t) == t[1] \in kinds
\* Option and OptionalExcelValue around what their element gives.
Presence(t, v, absent, inner) ==
  IF PresenceTag(t, v) # PresentTag(t) THEN Ok(absent, <<Tag(PresenceTag(t, v))>>)
  ELSE Then(inner, Present, <<Tag(PresentTag(t))>>)

\* The inputs and the parameter types over which the conversions are compared.
Numbers == {0, 1, 2, 2 * I32Max, 2 * I32Max + 2, -2 * I32Max - 2, 2 * Exact, 2 * Exact + 2, NaN, NegZero}
Strings == {us \in Texts : Len(us) <= 2}
ScalarValues ==
  {<<"number", n>> : n \in Numbers} \cup {<<"integer", n>> : n \in {0, 1}}
    \cup {<<"boolean", b>> : b \in 0..2} \cup {<<"string", us>> : us \in Strings}
    \cup {<<"error", code>> : code \in {7, 99}} \cup {<<"missing">>, <<"nil">>, <<"reference">>}
CellValues ==
  {<<"number", 2>>, <<"number", NaN>>, <<"integer", 1>>, <<"boolean", 2>>, <<"error", 7>>, <<"missing">>,
   <<"nil">>, <<"unknown">>, <<"multi", 0, 0, <<>>>>} \cup {<<"string", us>> : us \in {<<55357>>, <<66>>, <<66, 98>>}}
Grids ==
  {<<"multi", r, c, <<>>>> : r \in {0}, c \in {0, 1}} \cup {<<"multi", -1, 1, <<>>>>}
    \cup {<<"multi", 1, 1, <<a>>>> : a \in CellValues}
    \cup {<<"multi", rc[1], rc[2], <<a, b>>>> : rc \in {<<1, 2>>, <<2, 1>>}, a, b \in CellValues}
    \cup {<<"multi", 2, 2, <<a, a, a, a>>>> : a \in CellValues}
Values == ScalarValues \cup Grids
\* What Excel may have converted itself, as the cells it comes from.
NativeShapes == {<<0, 1>>, <<1, 1>>, <<1, 2>>, <<2, 1>>}
NativeNumbers(rc) == [1..rc[1] * rc[2] -> {0, NegZero, NaN}]
NativeGrid(rc, numbers) == <<"multi", rc[1], rc[2], [i \in DOMAIN numbers |-> <<"number", numbers[i]>>]>>

Kinds == {"f64", "bool", "i32", "i64", "error", "date", "string", "str", "cell", "value", "valueref", "array"}
ElementTypes == {<<"f64">>, <<"bool">>, <<"string">>, <<"str">>, <<"cell">>, <<"option", <<"f64">>>>,
                 <<"optional", <<"str">>>>}
ParameterTypes ==
  {<<kind>> : kind \in Kinds} \cup {<<w, <<kind>>>> : w \in {"option", "optional"}, kind \in Kinds}
    \cup {<<c, e>> : c \in {"matrix", "matrixref", "vec", "row", "column"}, e \in ElementTypes}
    \cup {<<"varargs", e, most>> : e \in {<<"f64">>, <<"str">>}, most \in 0..1}
    \cup {<<"option", <<"matrix", <<"str">>>>>>, <<"vec", <<"matrix", <<"f64">>>>>>}

\* ExcelParameter::decode
RECURSIVE Decode(_, _)
Decode(t, v) ==
  IF Wrapped(t) THEN Presence(t, v, Absent(t, v), Decode(t[2], v))
  ELSE IF Len(t) = 1 THEN Scalar(t[1], v)
  ELSE Checked(GridError(Container(t).shape, Container(t).most, v),
               Then(Sweep(Cells(v), Budget(Len(Cells(v)), SizeOf(t[2])), LAMBDA c : Decode(t[2], c)),
                    LAMBDA cells : Built(t, v, cells), Lengths(t, v)))

\* __BORROWED_ELEMENTS: the cells themselves are the prepared state of a collection.
RECURSIVE Borrowed(_)
Borrowed(t) ==
  IF Wrapped(t) THEN Borrowed(t[2])
  ELSE Plainly({"f64", "bool", "i32", "i64", "error", "date", "string", "array"}, t)

\* ExcelInputCells::retain, borrowed, borrowed_wrapped
NoRoom(t, n, owned) ==
  (Borrowed(t) => Wrapped(t) /\ owned) /\ Budget(n, PreparedSize(t)) > ArrayBytes
PrepareElements(t, cells, owned, Whole(_), Element(_)) ==
  LET n == Len(cells) IN
  IF NoRoom(t, n, owned) THEN Fail("too large")
  ELSE IF Borrowed(t)
  THEN Then(Sweep(cells, Budget(n, SizeOf(t)), Whole), LAMBDA x : <<"borrowed", cells>>, <<>>)
  ELSE Then(Sweep(cells, Budget(n, SizeOf(t)), Element), LAMBDA x : <<"retained", x>>, <<>>)

\* ExcelParameter::prepare and prepare_element, in the mode that records identities; as an
\* element, a borrowed string is decoded into the scratch at once.
RECURSIVE Prepare(_, _, _)
Prepare(role, t, v) ==
  IF role = "element" /\ t[1] = "str" THEN Then(FromString(v), Ready, <<>>)
  ELSE IF Wrapped(t) THEN Presence(t, v, Ready(Absent(t, v)), Prepare(role, t[2], v))
  ELSE IF Plainly({"string", "str"}, t) THEN PrepareString(v)
  ELSE IF Plainly({"valueref"}, t) THEN Then(Dynamic(v, ValidateDynamic), LAMBDA x : <<"dynamic", v>>, <<>>)
  ELSE IF Len(t) = 1 THEN Then(Scalar(t[1], v), Ready, <<>>)
  ELSE Checked(GridError(Container(t).shape, Container(t).most, v),
         IF t[1] = "matrixref" /\ ~Borrowed(t[2]) THEN Then(Decode(t, v), Ready, <<>>)
         ELSE Then(PrepareElements(t[2], Cells(v), t[1] # "matrixref",
                     LAMBDA c : IF Wrapped(t[2]) THEN Decode(t[2], c) ELSE Prepare("argument", t[2], c),
                     LAMBDA c : Prepare("element", t[2], c)),
                   LAMBDA cells : <<"collection", Rows(v), Columns(v), cells>>, Lengths(t, v)))

\* PreparedArgument::materialize, on a miss; cells that were borrowed are converted now.
RECURSIVE Materialize(_, _)
Materialize(t, state) ==
  CASE state[1] = "ready" -> Ok(state[2], <<>>)
    [] state[1] = "units" -> Decoded(DecodeOwned(state[2]), FALSE)
    [] state[1] = "dynamic" -> FromDynamic(state[2])
    [] state[1] = "present" -> Then(Materialize(t[2], state[2]), Present, <<>>)
    [] OTHER ->
         LET kept == state[4] IN
           Then(Collected(Map(kept[2], LAMBDA e : IF kept[1] = "borrowed" THEN Decode(t[2], e)
                                                  ELSE Materialize(t[2], e))),
                LAMBDA cells : IF Container(t).lengths = 2 THEN <<"grid", state[2], state[3], cells>>
                               ELSE <<"list", cells>>, <<>>)

\* encode_decoded: the identity of a value that has been converted already
RECURSIVE Encode(_, _)
EncodeCell(x) ==
  CASE x[1] = "f64" -> <<Tag(1), Wide(x[2])>>
    [] x[1] = "bool" -> <<Tag(2), Tag(x[2])>>
    [] x[1] = "string" -> <<Tag(3)>> \o StringId(x[2])
    [] x[1] = "error" -> <<Tag(4), Wide(x[2])>>
    [] OTHER -> <<Tag(5)>>
EncodeDynamic(x) ==
  CASE x[1] = "missing" -> <<Tag(2)>>
    [] x[1] = "array" -> <<Tag(3), Wide(x[2]), Wide(x[3])>> \o FlattenSeq(Map(x[4], EncodeCell))
    [] OTHER -> <<Tag(1)>> \o EncodeCell(x)
Encode(t, x) ==
  CASE Wrapped(t) -> IF x[1] = "present" THEN <<Tag(PresentTag(t))>> \o Encode(t[2], x[2])
                    ELSE <<Tag(Bit(x = <<"nil">>))>>
    [] Plainly({"f64", "i32", "i64", "error"}, t) -> <<Wide(x[2])>>
    [] Plainly({"bool"}, t) -> <<Tag(x[2])>>
    [] Plainly({"date"}, t) -> <<Wide(x[2]), Tag(0)>>
    [] Plainly({"string", "str"}, t) -> StringId(x[2])
    [] Plainly({"cell"}, t) -> EncodeCell(x)
    [] Plainly({"value", "valueref"}, t) -> EncodeDynamic(x)
    [] Plainly({"array"}, t) -> <<Wide(x[2]), Wide(x[3])>> \o FlattenSeq(Map(x[4], RawId))
    [] OTHER -> IF x[1] = "grid"
                THEN <<Wide(x[2]), Wide(x[3])>> \o FlattenSeq(Map(x[4], LAMBDA e : Encode(t[2], e)))
                ELSE <<Wide(Len(x[2]))>> \o FlattenSeq(Map(x[2], LAMBDA e : Encode(t[2], e)))

-----------------------------------------------------------------------------
(* Arguments that Excel converts itself: ArgumentContext::native_*, NumericMatrixRef::from_raw. *)
Native(kind, raw) ==
  CASE kind = "f64" -> IF raw = NaN THEN Fail("non finite") ELSE Ok(<<"f64", raw>>, <<Wide(raw)>>)
    [] kind = "bool" -> IF raw \in 0..1 THEN Ok(<<"bool", raw>>, <<Tag(raw)>>) ELSE Fail("malformed")
    [] kind = "i32" -> Ok(<<"int", raw>>, <<Wide(raw)>>)
    [] OTHER -> Then(PrepareString(<<"string", raw>>),
                     LAMBDA state : Materialize(<<"string">>, state).value, <<>>)
NumericMatrix(r, c, numbers) ==
  IF MatrixError(r, c) # "" THEN Fail(MatrixError(r, c))
  ELSE IF \E i \in DOMAIN numbers : numbers[i] = NaN THEN Fail("non finite")
  ELSE Ok(<<"grid", r, c, Map(numbers, LAMBDA n : <<"f64", n>>)>>, <<Wide(r), Wide(c)>> \o Map(numbers, Wide))

\* Room for the prepared elements, which take more of it than the elements.
RoomToPrepare(t, v) ==
  \A e \in ElementTypes \cup {<<"matrix", <<"f64">>>>} :
    Budget(Len(Cells(v)), PreparedSize(e)) <= ArrayBytes

(* Preparing an argument before the lookup and materializing it after a miss is the same as *)
(* decoding it: the same errors, the same identity and the same value, and nothing is left to *)
(* fail after a hit could have skipped it.  Preparation refuses more than decoding only when *)
(* its own state has no room. *)
PreparedAgrees ==
  \A t \in ParameterTypes, v \in Values :
    \A decoded \in {Decode(t, v)}, prepared \in {Prepare("argument", t, v)} :
    /\ prepared.error = "" =>
         /\ decoded.error = "" /\ prepared.id = decoded.id
         /\ \A value \in {Materialize(t, prepared.value)} : value.error = "" /\ value.value = decoded.value
    /\ prepared.error # decoded.error => prepared.error = "too large" /\ ~RoomToPrepare(t, v)
    /\ decoded.error = "" => Encode(t, decoded.value) = decoded.id

(* Two inputs of a parameter have one identity exactly when the function sees one value: a *)
(* handle is never served for other inputs, and no revision is made for the same ones. *)
IdentityIsTheValue ==
  \A t \in ParameterTypes :
    LET seen == {r \in {Decode(t, v) : v \in Values} : r.error = ""} IN
    Cardinality({r.id : r \in seen}) = Cardinality(seen)
      /\ Cardinality({r.value : r \in seen}) = Cardinality(seen)

(* A number becomes an integer exactly when it is one that the type holds, and then that one. *)
IntegersAreExact ==
  \A n \in Numbers, type \in {<<"i32", I32Max, -I32Max - 1>>, <<"i64", Exact, -Exact>>} :
    LET r == Decode(<<type[1]>>, <<"number", n>>)
        fits == {i \in type[3]..type[2] : 2 * i = (IF n = NegZero THEN 0 ELSE n)} IN
    IF fits = {} THEN r.error # "" ELSE r.error = "" /\ r.value = <<"int", CHOOSE i \in fits : TRUE>>

(* An argument that Excel has converted itself is taken as the same value with the same *)
(* identity as the cell would be, so that the type text of the export does not matter. *)
NativeAgrees ==
  /\ \A n \in Numbers : Native("f64", n) = Decode(<<"f64">>, <<"number", n>>)
  /\ \A b \in 0..1 : Native("bool", b) = Decode(<<"bool">>, <<"boolean", b>>)
  /\ \A n \in 0..I32Max : Native("i32", n) = Decode(<<"i32">>, <<"integer", n>>)
  /\ \A us \in Strings : Native("str", us) = Decode(<<"str">>, <<"string", us>>)
  /\ \A rc \in NativeShapes : \A numbers \in NativeNumbers(rc) :
       NumericMatrix(rc[1], rc[2], numbers) = Decode(<<"matrix", <<"f64">>>>, NativeGrid(rc, numbers))

-----------------------------------------------------------------------------
(* Results.  IntoExcel::into_excel, the cell a value stands for; write_into, the same cell *)
(* written into an XlArrayBuilder. *)
Finite(n) == IF n = NaN THEN Fail("domain") ELSE Ok(<<"number", n>>, <<>>)
IntoExcel(o) ==
  CASE o[1] \in {"f64", "date"} -> Finite(o[2])
    [] o[1] = "i64" -> IF o[2] \in -Exact..Exact THEN Ok(<<"number", 2 * o[2]>>, <<>>) ELSE Fail("domain")
    [] o[1] = "u64" -> IF o[2] <= Exact THEN Ok(<<"number", 2 * o[2]>>, <<>>) ELSE Fail("domain")
    [] o[1] = "bool" -> Ok(<<"boolean", o[2]>>, <<>>)
    [] o[1] = "error" -> Ok(<<"error", o[2]>>, <<>>)
    [] OTHER -> Ok(<<"text", o[2]>>, <<>>)

\* XlArrayBuilder::new
NewBuilder(r, c) == [rows |-> r, columns |-> c, cells |-> <<>>, payload |-> r * c * OperBytes, error |-> ""]
Refused(b, error) == [b EXCEPT !.error = error]
PushOper(b, cell) ==
  IF Len(b.cells) = b.rows * b.columns THEN Refused(b, "malformed")
  ELSE [b EXCEPT !.cells = Append(@, cell), !.error = ""]
PushNumber(b, n) == IF n = NaN THEN Refused(b, "domain") ELSE PushOper(b, <<"number", n>>)
\* push_str: counted and charged before it is encoded
PushText(b, us, limit) ==
  LET bytes == DecodeOwned(us) next == b.payload + 2 * (CheckedLen(bytes) + 1) IN
  IF Len(b.cells) = b.rows * b.columns THEN Refused(b, "malformed")
  ELSE IF CheckedLen(bytes) > limit \/ next > ArrayBytes THEN Refused(b, "too large")
  ELSE [PushOper(b, <<"string", Tail(EncodeCounted(Scalars(us), limit))>>) EXCEPT !.payload = next]
WriteInto(b, o, limit) ==
  CASE o[1] \in {"f64", "date"} -> PushNumber(b, o[2])
    [] o[1] = "i64" -> IF o[2] \in -Exact..Exact THEN PushNumber(b, 2 * o[2]) ELSE Refused(b, "domain")
    [] o[1] = "u64" -> IF o[2] <= Exact THEN PushNumber(b, 2 * o[2]) ELSE Refused(b, "domain")
    [] o[1] = "bool" -> PushOper(b, <<"boolean", o[2]>>)
    [] o[1] = "error" -> PushOper(b, <<"error", o[2]>>)
    [] OTHER -> PushText(b, o[2], limit)
Push(b, o, limit) == IF Len(b.cells) = b.rows * b.columns THEN Refused(b, "malformed") ELSE WriteInto(b, o, limit)
Finish(b) == Len(b.cells) = b.rows * b.columns

Outputs ==
  {<<"f64", n>> : n \in {1, NaN}} \cup {<<"i64", n>> : n \in {-Exact - 1, -Exact, Exact, Exact + 1}}
    \cup {<<"u64", n>> : n \in {Exact, Exact + 1}} \cup {<<"bool", 1>>, <<"error", 7>>, <<"date", 3>>}
    \cup {<<"text", us>> : us \in {t \in Strings \cup {<<66, 66, 66>>} : WellFormed(t)}}
TextUnits(cells) == Total(Map(cells, LAMBDA c : IF c[1] = "string" THEN 2 * (Len(c[2]) + 1) ELSE 0))

(* A result written into an array is the cell that it converts to, or is refused for the same *)
(* reason, and a refused one leaves the array as it was; the array never holds more than its *)
(* limit, counts every byte it holds and is finished only when it is full.  An integer that is *)
(* accepted reads back as itself. *)
OutputsAgree ==
  \A o, p \in Outputs, limit \in {1, 3} :
    LET empty == NewBuilder(1, 2)
        one == Push(empty, o, limit)
        two == Push(one, p, limit) IN
    /\ \A step \in {<<empty, o, one>>, <<one, p, two>>} :
         LET before == step[1] cell == IntoExcel(step[2]) after == step[3] IN
         /\ after.error = "domain" <=> cell.error = "domain"
         /\ after.error # "" => after.cells = before.cells /\ after.payload = before.payload
         /\ after.error = "" =>
              Last(after.cells) = (IF step[2][1] = "text" THEN <<"string", step[2][2]>> ELSE cell.value)
         /\ after.payload = 2 * OperBytes + TextUnits(after.cells)
         /\ after.payload <= ArrayBytes
    /\ Finish(two) <=> one.error = "" /\ two.error = ""
    /\ Finish(two) => Push(two, p, limit).error # "" /\ Push(two, p, limit).cells = two.cells
    /\ one.error = "" /\ o[1] \in {"i64", "u64"} => Decode(<<"i64">>, one.cells[1]).value = <<"int", o[2]>>
=============================================================================
