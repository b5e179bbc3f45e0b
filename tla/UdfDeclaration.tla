---------------------------- MODULE UdfDeclaration ----------------------------
(***************************************************************************)
(* From a declared function to what Excel calls: the attribute macros      *)
(* (xlfn-macros), the rules they share with the runtime (xlfn-common) and  *)
(* the registration that the runtime prepares (registration/schema.rs,     *)
(* preflight.rs).  A Rust type is its last path segment with what the      *)
(* macros look at around it; the host's reading of a type text is external.*)
(*                                                                         *)
(* Each pass is an operator translated from the code; the properties       *)
(* compare what the passes produce with each other, or with a definition   *)
(* of what they have to decide, over all small inputs.                     *)
(***************************************************************************)
EXTENDS Naturals, Sequences, FiniteSets, SequencesExt

CONSTANTS MaxArguments,    \* MAX_EXCEL_FUNCTION_ARGUMENTS, scaled down
          MaxEntries,      \* entries of an #[excel_arg] attribute
          MaxAbis,         \* arguments of a registration signature
          MaxName,         \* characters of a function name
          NameLimit,       \* EXCEL_FUNCTION_NAME_LIMIT, scaled down
          TextLimit,       \* EXCEL_STRING_LIMIT, scaled down
          GridRows, GridColumns,
          MaxAttributes    \* attributes of an item, items of an implementation

None == "none"
Lists(S, n) == UNION {[1..k -> S] : k \in 0..n}

-----------------------------------------------------------------------------
(* Types.  Parentheses and groups are transparent: wrap is what else is around the path, from *)
(* is the path before its last segment: nothing, the defining module, or a module of the user. *)
Type(last) == [wrap |-> "value", from |-> "", last |-> last, qself |-> FALSE, args |-> <<>>]
Borrowed(t) == [t EXCEPT !.wrap = "ref"]
Contexts == {"MainThread", "ThreadSafe", "MacroSheet", "Async"}

\* recognize_context_type
IsContext(t) == t.last \in Contexts
\* context_addin_type and the checks of parse_udf around it
ContextAccepted(t) ==
  /\ t.wrap = "value" /\ ~t.qself
  /\ t.args \in {<<"type">>, <<"lifetime", "type">>}

\* parse_handle_lease_type, parse_numeric_matrix_type
IsLease(t) == t.last = "HandleLease"
LeaseAccepted(t) == t.wrap = "value" /\ ~t.qself /\ t.args = <<"lifetime", "type">>
IsNumericMatrix(t) == t.last = "NumericMatrixRef"
NumericMatrixAccepted(t) == t.wrap = "value" /\ ~t.qself /\ t.args \in {<<>>, <<"lifetime">>}

\* is_standard_path, is_borrowed_string
IsStandard(t, name) == t.last = name /\ t.from # "user" /\ ~t.qself /\ t.args = <<>>
IsBorrowedString(t) == t.wrap = "ref" /\ IsStandard(t, "str")
\* native_argument_abi
NativeAbi(t) ==
  IF IsBorrowedString(t) THEN "CountedUtf16"
  ELSE IF t.wrap # "value" THEN None
  ELSE CASE IsStandard(t, "f64") -> "Float64"
         [] IsStandard(t, "bool") -> "Boolean16"
         [] IsStandard(t, "i32") -> "Integer32"
         [] IsStandard(t, "String") -> "CountedUtf16"
         [] OTHER -> None

\* is_numeric_array_return: args of a result are types here
RECURSIVE IsNumericReturn(_)
IsNumericReturn(t) ==
  /\ t.wrap = "value" /\ ~t.qself /\ t.from # "user"
  /\ \/ t.last = "NumericArrayOutput" /\ t.args = <<>>
     \/ t.last = "XllResult" /\ Len(t.args) = 1 /\ IsNumericReturn(t.args[1])
     \/ t.last = "Result" /\ Len(t.args) = 2 /\ IsNumericReturn(t.args[1])

-----------------------------------------------------------------------------
(* parse_argument_options: an entry is a key and its value. *)
Policies == {"convert", "default", "error", "other"}
Entries == {<<"reference", "yes">>, <<"strict", "yes">>, <<"default", "expression">>, <<"unknown", "yes">>}
           \cup ({"blank", "missing"} \X Policies)
Unset == [reference |-> None, strict |-> None, default |-> None, blank |-> None, missing |-> None]
ParseOptions(entries) ==
  LET Enter(parsed, entry) ==
        IF ~parsed.ok \/ entry[1] \notin DOMAIN Unset \/ parsed.options[entry[1]] # None
        THEN [parsed EXCEPT !.ok = FALSE]
        ELSE [parsed EXCEPT !.options[entry[1]] = entry[2]]
  IN FoldLeft(Enter, [ok |-> TRUE, options |-> Unset], entries)

\* analyze_presence
Presence(policy, default) ==
  CASE policy \in {None, "convert"} -> "convert"
    [] policy = "default" /\ default # None -> "default"
    [] policy = "error" -> "error"
    [] OTHER -> "refused"
HasPolicies(o) == o.strict # None \/ o.default # None \/ o.blank # None \/ o.missing # None

Converted(kind) == [ok |-> TRUE, kind |-> kind, abi |-> "Value12", blank |-> "convert", missing |-> "convert"]
Refused == [Converted("value") EXCEPT !.ok = FALSE]

(* analyze_arguments, one argument *)
Convert(t, o, execution, strictInputs) ==
  LET async == execution = "Async"
      blank == Presence(o.blank, o.default)
      missing == Presence(IF o.missing = None /\ o.default # None THEN "default" ELSE o.missing, o.default)
  IN CASE async /\ IsBorrowedString(t) -> Refused
       [] IsNumericMatrix(t) ->
            IF ~NumericMatrixAccepted(t) \/ async \/ o.reference # None \/ HasPolicies(o) THEN Refused
            ELSE [Converted("numeric") EXCEPT !.abi = "NumericArray12"]
       [] IsLease(t) ->
            IF ~LeaseAccepted(t) \/ ~async \/ o.reference # None \/ HasPolicies(o) THEN Refused
            ELSE Converted("lease")
       [] o.reference # None ->
            IF HasPolicies(o) THEN Refused ELSE [Converted("reference") EXCEPT !.abi = "Reference12"]
       [] "refused" \in {blank, missing} -> Refused
       [] o.default # None /\ "default" \notin {blank, missing} -> Refused
       [] ~strictInputs /\ ~HasPolicies(o) /\ NativeAbi(t) # None ->
            [Converted("native") EXCEPT !.abi = NativeAbi(t)]
       [] OTHER -> [Converted("value") EXCEPT !.blank = blank, !.missing = missing]

-----------------------------------------------------------------------------
(* A declaration: the form of the item, its flags and options, its parameters and its result. *)
Parameter(t, entries) == [ty |-> t, entries |-> entries, simple |-> TRUE]

\* parse_udf, after the options are parsed: a context comes first, once, by value and bare.
ParameterParsed(d, i) ==
  LET p == d.parameters[i] IN
    /\ ParseOptions(p.entries).ok
    /\ IF IsContext(p.ty)
       THEN ContextAccepted(p.ty) /\ i = 1 /\ p.entries = <<>>
       ELSE p.simple
Parsed(d) == \A i \in DOMAIN d.parameters : ParameterParsed(d, i)
ContextOf(d) ==
  IF d.parameters # <<>> /\ IsContext(d.parameters[1].ty) THEN d.parameters[1].ty.last ELSE None
Visible(d) == SelectSeq(d.parameters, LAMBDA p : ~IsContext(p.ty))

\* analyze_execution
ExecutionAccepted(d) ==
  LET context == ContextOf(d) IN
    /\ context # None => ~d.thread_safe /\ ~d.macro_sheet
    /\ IF d.async THEN context \in {None, "Async"} ELSE context # "Async"
    /\ ~(d.macro_sheet /\ d.thread_safe) /\ ~(d.async /\ (d.macro_sheet \/ d.thread_safe))
Execution(d) ==
  IF d.async THEN "Async"
  ELSE IF d.macro_sheet \/ ContextOf(d) = "MacroSheet" THEN "MacroSheet"
  ELSE IF d.thread_safe \/ ContextOf(d) = "ThreadSafe" THEN "ThreadSafe"
  ELSE "MainThread"

\* analyze_return_abi
ReturnAccepted(d) == d.return_abi \in {None, "xloper12", "fp12"} /\ (d.return_abi = "fp12" => ~d.async)
ReturnAbi(d) ==
  IF d.return_abi = "fp12" \/ (d.return_abi = None /\ ~d.async /\ IsNumericReturn(d.returns))
  THEN "NumericArray12" ELSE "Value12"

\* max_excel_function_arguments
MaxVisible(execution) == IF execution = "Async" THEN MaxArguments - 1 ELSE MaxArguments

\* analyze_arguments
Conversions(d) ==
  [i \in DOMAIN Visible(d) |->
     Convert(Visible(d)[i].ty, ParseOptions(Visible(d)[i].entries).options, Execution(d),
             d.input_semantics = "strict")]
ArgumentsAccepted(d) ==
  /\ Len(Visible(d)) <= MaxVisible(Execution(d))
  /\ \A i \in DOMAIN Visible(d) : Conversions(d)[i].ok
  /\ (\E i \in DOMAIN Visible(d) : Conversions(d)[i].kind = "reference") => Execution(d) = "MacroSheet"

\* analyze
Accepted(d) ==
  /\ Parsed(d) /\ d.form = "function"
  /\ ExecutionAccepted(d) /\ ReturnAccepted(d)
  /\ d.input_semantics \in {None, "strict"} /\ d.handle_reuse \in {None, "inputs", "never"}
  /\ d.handle_reuse # None => ~d.async /\ ReturnAbi(d) = "Value12"
  /\ ArgumentsAccepted(d)

-----------------------------------------------------------------------------
(* emit_excel_function: the exported wrapper and the descriptor that is registered for it. *)
RawType(abi) ==
  CASE abi \in {"Value12", "Reference12"} -> "XLOPER12*"
    [] abi = "NumericArray12" -> "FP12*"
    [] abi = "Float64" -> "f64"
    [] abi = "Boolean16" -> "i16"
    [] abi = "Integer32" -> "i32"
    [] abi = "CountedUtf16" -> "u16*"
Wrapper(d) ==
  LET raw == [i \in DOMAIN Visible(d) |-> RawType(Conversions(d)[i].abi)] IN
    [parameters |-> IF d.async THEN Append(raw, "async handle") ELSE raw,
     returns |-> IF d.async THEN "void"
                 ELSE IF ReturnAbi(d) = "NumericArray12" THEN "FP12*" ELSE "XLOPER12*"]
\* What the wrapper passes to the function, a raw argument by its index.
Invocation(d) ==
  LET converted == [i \in DOMAIN Visible(d) |-> <<"argument", i>>] IN
    IF ContextOf(d) # None THEN <<<<"context", Execution(d)>>>> \o converted ELSE converted
\* The policy of handle reuse is set in the body of a synchronous wrapper only.
ReuseSet(d) == ~d.async /\ d.handle_reuse # None
Registration(d) ==
  [execution |-> Execution(d), arguments |-> [i \in DOMAIN Visible(d) |-> Conversions(d)[i].abi],
   return_abi |-> ReturnAbi(d), volatile |-> d.volatile]
\* The arms that are emitted before the conversion, when a policy asks for one.
OnPresence(conversion, presence) ==
  IF conversion.kind # "value" THEN "convert"
  ELSE CASE presence = "blank" -> conversion.blank
         [] presence = "missing" -> conversion.missing
         [] OTHER -> "convert"

(* RegistrationSignature::validate, ValidatedSignature::encode *)
SignatureAccepted(s) ==
  /\ Len(s.arguments) <= MaxVisible(s.execution)
  /\ "Reference12" \in ToSet(s.arguments) => s.execution = "MacroSheet"
  /\ "NumericArray12" \in ToSet(s.arguments) \cup {s.return_abi} => s.execution # "Async"
Code(abi) ==
  CASE abi = "Value12" -> <<"Q">>
    [] abi = "Reference12" -> <<"U">>
    [] abi = "Float64" -> <<"B">>
    [] abi = "Boolean16" -> <<"A">>
    [] abi = "Integer32" -> <<"J">>
    [] abi = "CountedUtf16" -> <<"D", "%">>
    [] abi = "NumericArray12" -> <<"K", "%">>
When(condition, text) == IF condition THEN text ELSE <<>>
TypeText(s) ==
  (IF s.execution = "Async" THEN <<">">> ELSE Code(s.return_abi))
  \o FlattenSeq([i \in DOMAIN s.arguments |-> Code(s.arguments[i])])
  \o When(s.execution = "Async", <<"X">>)
  \o When(s.execution = "MacroSheet", <<"#">>)
  \o When(s.execution \in {"ThreadSafe", "Async"}, <<"$">>)
  \o When(s.volatile, <<"!">>)

\* How the host reads a type text: codes of one letter, or of a letter and a percent sign.
RECURSIVE HostCodes(_)
HostCodes(text) ==
  IF text = <<>> THEN <<>>
  ELSE LET n == IF Len(text) >= 2 /\ text[2] = "%" THEN 2 ELSE 1 IN
         <<SubSeq(text, 1, n)>> \o HostCodes(SubSeq(text, n + 1, Len(text)))
HostType(code) ==
  CASE code \in {<<"Q">>, <<"U">>} -> "XLOPER12*"
    [] code = <<"K", "%">> -> "FP12*"
    [] code = <<"B">> -> "f64"
    [] code = <<"A">> -> "i16"
    [] code = <<"J">> -> "i32"
    [] code = <<"D", "%">> -> "u16*"
    [] code = <<"X">> -> "async handle"
    [] code = <<">">> -> "void"
Flags == {<<"#">>, <<"$">>, <<"!">>}
HostReading(text) ==
  LET codes == HostCodes(text)
      typed == SelectSeq(codes, LAMBDA c : c \notin Flags)
      call == [i \in DOMAIN typed |-> HostType(typed[i])]
  IN [returns |-> Head(call), parameters |-> Tail(call),
      flags |-> ToSet(codes) \cap Flags,
      codes |-> SelectSeq(Tail(typed), LAMBDA c : c # <<"X">>)]

-----------------------------------------------------------------------------
(* The declarations that are looked at: every mode with every list of sample parameters, and *)
(* every combination of options about the result. *)
Generic(t, args) == [t EXCEPT !.args = args]
SampleTypes ==
  {Type("f64"), Type("Custom"), Borrowed(Type("str")),
   Type("NumericMatrixRef"), Generic(Type("HandleLease"), <<"lifetime", "type">>),
   Generic(Type("MainThread"), <<"type">>), Generic(Type("ThreadSafe"), <<"lifetime", "type">>),
   Generic(Type("MacroSheet"), <<"type">>), Generic(Type("Async"), <<"type">>)}
Samples ==
  {Parameter(t, <<>>) : t \in SampleTypes}
  \cup {Parameter(Type("Custom"), <<<<"reference", "yes">>>>),
        Parameter(Generic(Type("Async"), <<"type">>), <<<<"strict", "yes">>>>),
        [Parameter(Type("f64"), <<>>) EXCEPT !.simple = FALSE]}
ParameterLists == Lists(Samples, 2) \cup {<<a, b, c>> : a, b, c \in {Parameter(t, <<>>) :
                    t \in {Type("f64"), Generic(Type("MainThread"), <<"type">>)}}}
Returns ==
  LET base == {Type("NumericArrayOutput"), Type("Matrix"), [Type("NumericArrayOutput") EXCEPT !.from = "user"]}
      wrapped == {Generic(Type("XllResult"), <<t>>) : t \in base}
  IN base \cup wrapped \cup {Generic(Type("Result"), <<t, Type("Error")>>) : t \in base \cup wrapped}
Plain == [form |-> "function", async |-> FALSE, thread_safe |-> FALSE, macro_sheet |-> FALSE,
          volatile |-> FALSE, parameters |-> <<>>, returns |-> Type("Matrix"), return_abi |-> None,
          handle_reuse |-> None, input_semantics |-> None]
ByMode == {[Plain EXCEPT !.async = a, !.thread_safe = t, !.macro_sheet = m, !.parameters = l] :
             a, t, m \in BOOLEAN, l \in ParameterLists}
ByResult == {[Plain EXCEPT !.form = f, !.async = a, !.volatile = v, !.returns = r, !.return_abi = b,
                           !.handle_reuse = h, !.input_semantics = s, !.parameters = <<Parameter(Type("f64"), <<>>)>>] :
               f \in {"function", "unsafe"}, a, v \in BOOLEAN, r \in Returns,
               b \in {None, "xloper12", "fp12", "other"}, h \in {None, "inputs", "never", "other"},
               s \in {None, "strict", "other"}}
ByType == {[Plain EXCEPT !.async = a, !.parameters = <<Parameter(t, <<>>)>>] :
             a \in BOOLEAN, t \in {Type("bool"), Type("i32"), Type("String"), [Type("f64") EXCEPT !.from = "user"]}}
Declarations == ByMode \cup ByResult \cup ByType
RECURSIVE Payload(_)
Payload(t) == IF t.last \in {"XllResult", "Result"} THEN Payload(t.args[1]) ELSE t

\* What the function's own parameters have to get.
Expected(d) ==
  [i \in DOMAIN d.parameters |->
     IF IsContext(d.parameters[i].ty) THEN <<"context", d.parameters[i].ty.last>>
     ELSE <<"argument", Cardinality({j \in 1..i : ~IsContext(d.parameters[j].ty)})>>]

(* A declaration that the macro accepts is never refused at registration, the host that reads *)
(* its type text calls the wrapper with the parameters and the result that it was compiled *)
(* with, and each parameter of the function gets its own argument, or the context of the mode *)
(* that the host was told of.  A mode that is asked for is the one that is registered, and a *)
(* type of the user is never taken for the framework's by its name alone. *)
WrapperIsAsRegistered ==
  \A d \in Declarations : Accepted(d) =>
    LET registration == Registration(d) host == HostReading(TypeText(registration)) IN
      /\ SignatureAccepted(registration)
      /\ [parameters |-> host.parameters, returns |-> host.returns] = Wrapper(d)
      /\ Invocation(d) = Expected(d) /\ Len(host.parameters) <= MaxArguments
      /\ (d.thread_safe => Execution(d) = "ThreadSafe") /\ (d.macro_sheet => Execution(d) = "MacroSheet")
      /\ host.returns = "FP12*" => d.return_abi = "fp12" \/ Payload(d.returns).from # "user"
      /\ host.flags = {f \in Flags : \/ f = <<"#">> /\ Execution(d) = "MacroSheet"
                                     \/ f = <<"$">> /\ Execution(d) \in {"ThreadSafe", "Async"}
                                     \/ f = <<"!">> /\ d.volatile}

Abis == {"Value12", "Reference12", "Float64", "Boolean16", "Integer32", "CountedUtf16", "NumericArray12"}
Signatures == [execution : Contexts, arguments : Lists(Abis, MaxAbis),
               return_abi : {"Value12", "NumericArray12"}, volatile : BOOLEAN]
(* A type text says all of a signature: the host reads back each argument in its place, however *)
(* the codes of one and of two characters follow each other. *)
TypeTextIsUnambiguous ==
  \A s \in Signatures : SignatureAccepted(s) =>
    LET host == HostReading(TypeText(s)) IN
      /\ host.codes = [i \in DOMAIN s.arguments |-> Code(s.arguments[i])]
      /\ (host.returns = "void") = (s.execution = "Async")
      /\ host.returns # "void" => (host.returns = "FP12*") = (s.return_abi = "NumericArray12")

ArgumentTypes == {Type("f64"), Type("Custom"), Type("NumericMatrixRef"),
                  Generic(Type("HandleLease"), <<"lifetime", "type">>)}
\* What a cell that is blank, or an argument that is left out, has to lead to.
Required(entries, presence) ==
  LET given == {e[2] : e \in {x \in ToSet(entries) : x[1] = presence}}
      default == \E x \in ToSet(entries) : x[1] = "default" IN
    IF given # {} THEN CHOOSE p \in given : TRUE
    ELSE IF presence = "missing" /\ default THEN "default" ELSE "convert"
(* Nothing that an argument's attribute says is lost: each policy is what the wrapper does with *)
(* a blank cell and with a missing argument, for which the host has to pass an operand that *)
(* shows it; a default is used somewhere; a strict argument is never coerced by the host; a *)
(* borrowed argument never outlives its call. *)
PoliciesAreKept ==
  \A t \in ArgumentTypes, entries \in Lists(Entries, MaxEntries), execution \in {"MainThread", "Async"},
     strictInputs \in BOOLEAN :
    LET parsed == ParseOptions(entries)
        c == Convert(t, parsed.options, execution, strictInputs)
        asked == {e[1] : e \in ToSet(entries)} IN
      parsed.ok /\ c.ok =>
        /\ Len(entries) = Cardinality(asked) /\ asked \subseteq DOMAIN Unset
        /\ \A presence \in {"blank", "missing"} : OnPresence(c, presence) = Required(entries, presence)
        /\ asked \cap {"strict", "blank", "missing", "default"} # {} \/ (strictInputs /\ c.kind = "value")
             => c.abi = "Value12"
        /\ "default" \in asked => "default" \in {c.blank, c.missing}
        /\ "reference" \in asked => c.abi = "Reference12"
        /\ execution = "Async" => c.kind # "numeric"

-----------------------------------------------------------------------------
(* Function names, as sequences of characters.  The alphabet is scaled down to three letters *)
(* with both cases of one, two digits, a decimal digit outside of ASCII, another character *)
(* outside of ASCII and two that only some places allow. *)
Letters == {"A", "C", "R", "r"}
Digits == {"0", "1"}
WideOne == "W1"
Characters == Letters \cup Digits \cup {WideOne, "E'", ".", " "}
Upper(c) == IF c = "r" THEN "R" ELSE c
UpperAll(text) == [i \in DOMAIN text |-> Upper(text[i])]
DigitValue(c) == IF c = "0" THEN 0 ELSE 1
LetterValue(c) == CASE Upper(c) = "A" -> 1 [] Upper(c) = "C" -> 2 [] Upper(c) = "R" -> 3
UnicodeDigits == Digits \cup {WideOne}

\* is_function_name_start
NameStart(c) == c \in Letters \cup {WideOne, "E'"}
RECURSIVE Taken(_, _)
Taken(text, S) == IF text = <<>> \/ Head(text) \notin S THEN 0 ELSE 1 + Taken(Tail(text), S)
From(text, n) == SubSeq(text, n, Len(text))

\* is_grid_index: the limit is checked digit by digit.
RECURSIVE GridIndex(_, _, _)
GridIndex(text, index, limit) ==
  IF text = <<>> THEN index # 0
  ELSE /\ Head(text) \in UnicodeDigits
       /\ index * 10 + DigitValue(Head(text)) <= limit
       /\ GridIndex(Tail(text), index * 10 + DigitValue(Head(text)), limit)
IsGridIndex(text, limit) == GridIndex(text, 0, limit)

\* is_a1_reference
IsA1(name) ==
  LET end == Taken(name, Letters)
      column == FoldLeft(LAMBDA n, c : n * 3 + LetterValue(c), 0, SubSeq(name, 1, end)) IN
    /\ end \in 1..3 /\ column <= GridColumns
    /\ WideOne \notin ToSet(From(name, end + 1)) /\ IsGridIndex(From(name, end + 1), GridRows)

\* is_r1c1_reference
IsR1C1(name) ==
  /\ name # <<>> /\ Upper(name[1]) \in {"R", "C"}
  /\ LET row == Upper(name[1]) = "R"
         first == IF row THEN GridRows ELSE GridColumns
         second == IF row THEN GridColumns ELSE GridRows
         end == 1 + Taken(Tail(name), UnicodeDigits)
         one == SubSeq(name, 2, end) IN
       IF end = Len(name) THEN IsGridIndex(one, first)
       ELSE /\ Upper(name[end + 1]) = (IF row THEN "C" ELSE "R")
            /\ IsGridIndex(one, first) \/ (row /\ one = <<>>)
            /\ IsGridIndex(From(name, end + 2), second) \/ (row /\ From(name, end + 2) = <<>>)

\* validate_function_name
NameAccepted(name) ==
  /\ name # <<>> /\ Len(name) <= NameLimit
  /\ NameStart(name[1]) /\ \A i \in 2..Len(name) : NameStart(name[i]) \/ name[i] \in Digits \cup {"."}
  /\ UpperAll(name) \notin {<<"C">>, <<"R">>} /\ ~IsA1(name) /\ ~IsR1C1(name)

\* The addresses of the grid, with leading zeros up to the length of a name.
RECURSIVE Decimal(_)
Decimal(n) ==
  LET last == <<"0", "1", "2", "3", "4", "5", "6", "7", "8", "9">>[(n % 10) + 1] IN
    IF n < 10 THEN <<last>> ELSE Append(Decimal(n \div 10), last)
Numerals(limit) == {[i \in 1..k |-> "0"] \o Decimal(n) : k \in 0..MaxName, n \in 1..limit}
ColumnNames == {w \in Lists({"A", "C", "R"}, 3) : w # <<>> /\
                  FoldLeft(LAMBDA n, c : n * 3 + LetterValue(c), 0, w) <= GridColumns}
Addresses ==
  {c \o r : c \in ColumnNames, r \in Numerals(GridRows)}
WideAddresses ==
  LET rows == Numerals(GridRows) columns == Numerals(GridColumns) IN
    {<<"R">> \o r : r \in rows} \cup {<<"C">> \o c : c \in columns}
    \cup {<<"R">> \o r \o <<"C">> \o c : r \in rows \cup {<<>>}, c \in columns \cup {<<>>}}
    \cup {<<"C">> \o c \o <<"R">> \o r : c \in columns, r \in rows}
Narrow(text) == [i \in DOMAIN text |-> IF text[i] = WideOne THEN "1" ELSE text[i]]
Candidates == Lists(Characters, MaxName) \cup Lists({"A"}, NameLimit + 1)

(* A function name is accepted exactly when it has the form of a name and is not something that *)
(* a formula already means: no address of the grid in either notation, whatever its case, its *)
(* leading zeros or the script of its digits, and no name at the edge of the grid is refused. *)
NamesAreNotAddresses ==
  LET plain == Addresses wide == WideAddresses IN
    \A name \in Candidates :
      NameAccepted(name) <=>
        /\ Len(name) \in 1..NameLimit /\ name[1] \notin Digits \cup {".", " "}
        /\ " " \notin ToSet(name) /\ UpperAll(name) \notin {<<"C">>, <<"R">>}
        /\ UpperAll(name) \notin plain /\ UpperAll(Narrow(name)) \notin wide

-----------------------------------------------------------------------------
(* validate_argument_name(s) and what preflight_registration builds of them.  A name is a text *)
(* over a letter and the comma that joins the names. *)
Comma == ","
Texts == Lists({"a", Comma}, 2)
ArgumentNameAccepted(name) == name # <<>> /\ Comma \notin ToSet(name) /\ Len(name) <= TextLimit
JoinedLength(names) == FoldLeft(LAMBDA n, name : n + Len(name), 0, names)
                       + (IF names = <<>> THEN 0 ELSE Len(names) - 1)
ArgumentNamesAccepted(names) ==
  (\A i \in DOMAIN names : ArgumentNameAccepted(names[i])) /\ JoinedLength(names) <= TextLimit
JoinedNames(names) ==
  FlattenSeq([i \in DOMAIN names |-> IF i = 1 THEN names[i] ELSE <<Comma>> \o names[i]])
\* The texts between the commas, which is how the host shows them.
RECURSIVE Between(_)
Between(text) ==
  LET n == Taken(text, {"a"}) IN
    IF n = Len(text) THEN <<text>> ELSE <<SubSeq(text, 1, n)>> \o Between(From(text, n + 2))

\* MAX_REGISTER_ARGUMENT_HELP_ENTRIES and the empty entry that follows the last help text
HelpLimit == 244
HelpEntries(n) == LET shown == IF n <= HelpLimit THEN n ELSE HelpLimit IN IF shown = 0 THEN 0 ELSE shown + 1
\* Module, procedure, type text, function text, arguments, macro type, category, shortcut, topic, help.
FixedEntries == 10
HostEntries == 255

\* validate_descriptors: exports and names are compared without their ASCII case.
PreflightAccepted(descriptors) ==
  /\ \A i \in DOMAIN descriptors :
       /\ NameAccepted(descriptors[i].name) /\ ArgumentNamesAccepted(descriptors[i].arguments)
       /\ Len(descriptors[i].arguments) <= MaxArguments
  /\ \A i, j \in DOMAIN descriptors : i # j =>
       /\ UpperAll(descriptors[i].name) # UpperAll(descriptors[j].name)
       /\ UpperAll(descriptors[i].export) # UpperAll(descriptors[j].export)

(* The list of names that the host is given is of its size and splits into the declared ones, *)
(* a function with the most arguments still fits its help into the host's call, and however a *)
(* formula spells a name it means one function of the add-in. *)
ArgumentListIsExact ==
  /\ \A names \in Lists(Texts, 3) :
       ArgumentNamesAccepted(names) =>
         LET joined == JoinedNames(names) IN
           /\ Len(joined) = JoinedLength(names) /\ Len(joined) <= TextLimit
           /\ names # <<>> => Between(joined) = names
  /\ \A n \in 0..HostEntries : FixedEntries + HelpEntries(n) <= HostEntries
  /\ \A descriptors \in Lists([name : Lists({"A", "E'", "r", "R"}, 2), export : {<<"R">>, <<"r">>, <<"A">>},
                                arguments : {<<>>}], 2), text \in Lists({"A", "E'", "r", "R"}, 2) :
       PreflightAccepted(descriptors) =>
         Cardinality({i \in DOMAIN descriptors : UpperAll(descriptors[i].name) = UpperAll(text)}) <= 1

-----------------------------------------------------------------------------
(* extract_gating_attributes.  An attribute is a cfg, a cfg_attr with the attributes it stands *)
(* for, or another one; an item is there when no cfg that applies is false. *)
Predicates == {"p", "q"}
Simple == {<<"cfg", p>> : p \in Predicates} \cup {<<"doc">>}
Nested == {<<"cfg_attr", p, <<a>>>> : p \in Predicates, a \in Simple}
Attributes == Simple \cup {<<"cfg_attr", p, l>> : p \in Predicates, l \in Lists(Simple \cup Nested, MaxAttributes)}
RECURSIVE IsThere(_, _)
IsThere(attributes, holds) ==
  \A i \in DOMAIN attributes :
    LET a == attributes[i] IN
      CASE a[1] = "cfg" -> a[2] \in holds
        [] a[1] = "cfg_attr" -> a[2] \in holds => IsThere(a[3], holds)
        [] OTHER -> TRUE
Gates(a) == a[1] \in {"cfg", "cfg_attr"}
Gating(attributes) ==
  LET kept == [i \in DOMAIN attributes |->
        IF attributes[i][1] # "cfg_attr" THEN attributes[i]
        ELSE [attributes[i] EXCEPT ![3] = SelectSeq(@, Gates)]]
  IN SelectSeq(kept, LAMBDA a : Gates(a) /\ (a[1] = "cfg_attr" => a[3] # <<>>))
(* The descriptor, the manifest entry and the wrapper are compiled exactly when their function *)
(* is: no registration names an export that is not there. *)
GatingIsShared ==
  \A attributes \in Lists(Attributes, 1), holds \in SUBSET Predicates :
    IsThere(Gating(attributes), holds) = IsThere(attributes, holds)

-----------------------------------------------------------------------------
(* derive(ExcelEnum): texts of the variants in their order, and whether case is ignored. *)
EnumTexts == Lists({"R", "r", "E'"}, 2)
Key(text, ignore) == IF ignore THEN UpperAll(text) ELSE text
EnumAccepted(names, ignore) ==
  names # <<>> /\ \A i \in DOMAIN names :
    names[i] # <<>> /\ \A j \in 1..(i - 1) : Key(names[i], ignore) # Key(names[j], ignore)
\* from_excel: the first variant that compares equal.  utf16_eq_ignore_ascii_case is external here.
Variant(names, ignore, text) ==
  LET equal == {i \in DOMAIN names : Key(names[i], ignore) = Key(text, ignore)} IN
    IF equal = {} THEN 0 ELSE CHOOSE i \in equal : \A j \in equal : i <= j
(* What an enum writes, it reads back as the same variant, and no text is a matter of the order *)
(* in which the variants are declared. *)
EnumsReadBack ==
  \A names \in Lists(EnumTexts, 2), ignore \in BOOLEAN :
    EnumAccepted(names, ignore) =>
      /\ \A i \in DOMAIN names : Variant(names, ignore, names[i]) = i
      /\ \A text \in EnumTexts :
           Variant(Reverse(names), ignore, text) =
             LET i == Variant(names, ignore, text) IN IF i = 0 THEN 0 ELSE Len(names) + 1 - i

(* derive(ExcelInputIdentity): fields in their order, a variant's index before them.  The *)
(* encodings of fields are those of types with different widths. *)
FieldCodes == {<<0>>, <<1, 0>>, <<1, 1>>}
Fields == Lists(FieldCodes, 2)
StructIdentity(fields) == FlattenSeq(fields)
EnumIdentity(variant, fields) == <<variant>> \o StructIdentity(fields)
\* A variant has its number of fields.
Values == {<<v, f>> : v \in 0..1, f \in Fields}
(* Different values of a derived type never have the same identity, and none is the beginning *)
(* of another, so that the identities of a call's arguments can follow each other. *)
DerivedIdentityIsExact ==
  /\ \A a, b \in Fields : Len(a) = Len(b) /\ IsPrefix(StructIdentity(a), StructIdentity(b)) => a = b
  /\ \A shape \in [0..1 -> 0..2], a, b \in Values :
       Len(a[2]) = shape[a[1]] /\ Len(b[2]) = shape[b[1]] =>
         (IsPrefix(EnumIdentity(a[1], a[2]), EnumIdentity(b[1], b[2])) <=> a = b)

-----------------------------------------------------------------------------
(* expand_excel_addin_impl: the associated types of the implementation, some of which the *)
(* framework emits itself. *)
Framework == {"RtdSubscription", "RtdSources", "AsyncExecutor"}
Defaulted == {"LifecycleState", "Error", "Layers"}
Items == [name : Framework \cup Defaulted \cup {"other"}, generic : BOOLEAN, gated : BOOLEAN]
Names(items) == {items[i].name : i \in DOMAIN items}
ImplementationAccepted(items) ==
  /\ \A i \in DOMAIN items : items[i].name \in Framework =>
       ~items[i].generic /\ ~items[i].gated /\ \A j \in 1..(i - 1) : items[j].name # items[i].name
  /\ "RtdSources" \in Names(items) => "RtdSubscription" \in Names(items)
\* The types of the emitted implementation, each with the item it comes from, 0 for a default.
Emitted(items) ==
  LET At(name) == {i \in DOMAIN items : items[i].name = name}
      Origin(name) == IF At(name) = {} THEN 0 ELSE CHOOSE i \in At(name) : \A j \in At(name) : i >= j IN
    SetToSeq({<<items[i].name, i>> : i \in {k \in DOMAIN items : items[k].name \notin Framework}}
             \cup {<<n, 0>> : n \in Defaulted \ Names(items)})
    \o <<<<"RtdSubscription", Origin("RtdSubscription")>>, <<"RtdSources", Origin("RtdSources")>>,
         <<"AsyncExecutor", Origin("AsyncExecutor")>>>>
(* An implementation that is accepted has every associated type of the trait: the ones it *)
(* declares, none of them lost, the others once and by default; a source catalog never goes *)
(* with a subscription of another type. *)
ImplementationIsComplete ==
  \A items \in Lists(Items, MaxAttributes) : ImplementationAccepted(items) =>
    LET emitted == Emitted(items) IN
      /\ \A i \in DOMAIN items : <<items[i].name, i>> \in ToSet(emitted)
      /\ \A name \in Framework \cup Defaulted : <<name, 0>> \in ToSet(emitted) <=> name \notin Names(items)
      /\ <<"RtdSources", 0>> \notin ToSet(emitted) => <<"RtdSubscription", 0>> \notin ToSet(emitted)
=============================================================================
