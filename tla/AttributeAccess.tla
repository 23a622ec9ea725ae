--------------------------- MODULE AttributeAccess ---------------------------
(***************************************************************************)
(* Whether an attribute of the policy can be read from a target, and what  *)
(* its text suggests: AttributeAccessor of src/internal/validate with the  *)
(* lookup of fields, and attributeSafety of safety.go.                     *)
(*                                                                         *)
(* A dotted path is the sequence of its names, <<>> where it is not set.   *)
(* A type is a name; types[t] says its kind, what a pointer points to, its *)
(* fields, and whether it is a Stringer.  A key is the sequence of its      *)
(* words, which separators part; a name is one word.                       *)
(***************************************************************************)
EXTENDS Naturals, Sequences, FiniteSets

CONSTANTS
  MaxInt64,   \* the largest integer telemetry takes
  Numerals    \* the texts strconv.Atoi reads as 0, 1, ...

ASSUME AccessAssumption == MaxInt64 \in Nat /\ Numerals \in Seq(STRING)

NoSource == [argument |-> <<>>, result |-> <<>>, constant |-> {}, symbol |-> "", errorType |-> ""]

Scalars == {"bool", "string", "integer", "float"}

-----------------------------------------------------------------------------
(* Fields.                                                                 *)

\* fieldStruct: the struct behind a type or behind a pointer to it.
Struct(types, t) ==
  LET shape == IF t \in DOMAIN types /\ types[t].kind = "pointer" THEN types[t].element ELSE t
  IN  IF shape \in DOMAIN types /\ types[shape].kind = "struct" THEN types[shape].fields ELSE {}

\* Mutant: unexported fields are followed too.
AnyField(types, entry) ==
  IF entry.type \in entry.visited THEN {} ELSE Struct(types, entry.type)

\* expandFieldCandidate: the fields it looks at.
ExportedFields(types, entry) ==
  IF entry.type \in entry.visited THEN {}
  ELSE {f \in Struct(types, entry.type) : f.exported}

Step(entry, field) ==
  [type |-> field.type, path |-> Append(entry.path, field),
   visited |-> entry.visited \cup {entry.type}]

\* lookupField: the candidates at each depth.  A path never meets a type
\* twice, so that there are at most as many layers as types.
Layer(types, root) ==
  LET layer[depth \in Nat] ==
        IF depth = 0 THEN {[type |-> root, path |-> <<>>, visited |-> {}]}
        ELSE UNION {{Step(entry, f) : f \in {g \in ExportedFields(types, entry) : g.embedded}} :
                      entry \in layer[depth - 1]}
  IN  layer

Found(types, root, name, depth) ==
  UNION {{Step(entry, f).path : f \in {g \in ExportedFields(types, entry) : g.name = name}} :
           entry \in Layer(types, root)[depth]}

\* The paths of the first layer with a match: none, one, or an ambiguity.
LookupField(types, root, name) ==
  LET depths == {d \in 0..Cardinality(DOMAIN types) : Found(types, root, name, d) # {}}
  IN  IF depths = {} THEN {}
      ELSE Found(types, root, name, CHOOSE d \in depths : \A e \in depths : d <= e)

\* One path, neither none nor an ambiguity; the type it leads to.
Unambiguous(paths) == paths # {} /\ \A p, q \in paths : p = q
TypeBehind(paths)  == LET path == CHOOSE p \in paths : TRUE IN path[Len(path)].type

\* resolveAccessorFields: the type a path of names leads to, "" if none.
Unreadable == ""
FieldType(types, root, name) ==
  LET paths == LookupField(types, root, name)
  IN  IF Unambiguous(paths) THEN TypeBehind(paths) ELSE Unreadable

Resolve(types, root, names) ==
  LET at[i \in 0..Len(names)] ==
        IF i = 0 THEN root
        ELSE IF at[i - 1] = Unreadable THEN Unreadable
        ELSE FieldType(types, at[i - 1], names[i])
  IN  at[Len(names)]

-----------------------------------------------------------------------------
(* Sources.                                                                *)

\* sourceIndex: a name before a number; 0 stands for no parameter.
SourceIndex(values, selector) ==
  LET named == {i \in DOMAIN values : values[i].name # "" /\ values[i].name = selector}
      numbered == {i \in DOMAIN values : i \in DOMAIN Numerals /\ Numerals[i] = selector}
  IN  IF named # {} THEN CHOOSE i \in named : \A j \in named : i <= j
      ELSE IF numbered # {} THEN CHOOSE i \in numbered : TRUE ELSE 0

Values(symbol, from) == IF from.argument # <<>> THEN symbol.parameters ELSE symbol.results
Path(from)           == IF from.argument # <<>> THEN from.argument ELSE from.result

\* validateAttributeSourceCount
SourceCount(from) ==
  Cardinality({f \in {"argument", "result"} : from[f] # <<>>})
    + (IF from.constant # {} THEN 1 ELSE 0)
    + Cardinality({f \in {"symbol", "errorType"} : from[f] # ""})

\* constantKind and validateConstantRange.
ConstantReadable(c) ==
  /\ c.type \in {"bool", "string", "int", "uint64", "float"}
  /\ c.type = "float" => c.finite
  /\ c.type = "uint64" => c.value <= MaxInt64

SymbolFields == {"id", "package", "packageName", "name", "receiver", "signature", "kind"}

\* errorTypeAccessor; error indexes count from zero.
ErrorTypeReadable(types, symbol, selector) ==
  LET index == SourceIndex(symbol.results, selector) IN
  /\ selector # "_"
  /\ index # 0 /\ (index - 1) \in symbol.errors
  /\ symbol.results[index].type \in DOMAIN types

\* sourceAccessor, resolveAccessorFields, classifyAccessor and stringer.go.
ValueReadable(types, symbol, attribute) ==
  LET from  == attribute.from
      path  == Path(from)
      index == SourceIndex(Values(symbol, from), path[1])
      type  == Resolve(types, Values(symbol, from)[index].type, Tail(path))
  IN  /\ attribute.stringer => path[1] \notin {"", "_"}
      /\ index # 0
      /\ type \in DOMAIN types
      /\ IF attribute.stringer THEN types[type].stringer ELSE types[type].kind \in Scalars

\* AttributeAccessor without an error.
Accessible(types, symbol, attribute) ==
  LET from == attribute.from IN
  /\ SourceCount(from) = 1
  /\ attribute.stringer => from.argument # <<>> \/ from.result # <<>>
  /\ \A c \in from.constant : ConstantReadable(c)
  /\ from.symbol # "" => from.symbol \in SymbolFields
  /\ from.errorType # "" => ErrorTypeReadable(types, symbol, from.errorType)
  /\ from.argument # <<>> \/ from.result # <<>> => ValueReadable(types, symbol, attribute)

-----------------------------------------------------------------------------
(* attributeSafety: what the text of an attribute suggests.                *)

Texts(attribute) ==
  {attribute.key, attribute.from.argument, attribute.from.result, <<attribute.from.errorType>>}

\* matchesAny drops the separators and looks for the pattern.
MatchesAny(attribute, patterns) ==
  \E text \in Texts(attribute) : \E pattern \in patterns :
    \E i \in 0..(Len(text) - Len(pattern)) : pattern = SubSeq(text, i + 1, i + Len(pattern))

\* The first words of the lists of safety.go.
SecretPatterns      == {<<"password">>, <<"token">>, <<"api", "key">>}
PersonalPatterns    == {<<"email">>, <<"user", "id">>, <<"ip">>}
CardinalityPatterns == {<<"url">>, <<"user", "id">>}

UnacknowledgedSecret(attribute, deny) ==
  /\ MatchesAny(attribute, SecretPatterns \cup deny) \/ attribute.classification = "secret"
  /\ ~attribute.allow \/ attribute.classification # "secret"

\* piiNeedsAcknowledgment
UnacknowledgedPersonal(attribute) ==
  /\ ~(attribute.allow /\ attribute.classification \in {"pii", "secret"})
  /\ MatchesAny(attribute, PersonalPatterns) \/ attribute.classification = "pii"

AttributeErrors(types, symbol, attribute, deny) ==
  (IF Accessible(types, symbol, attribute) THEN {} ELSE {"CaptureNotAllowed"})
    \cup (IF UnacknowledgedSecret(attribute, deny) THEN {"SecretAttribute"} ELSE {})

AttributeWarnings(attribute) ==
  (IF UnacknowledgedPersonal(attribute) THEN {"PIIAttribute"} ELSE {})
    \cup (IF MatchesAny(attribute, CardinalityPatterns) THEN {"CardinalityWarning"} ELSE {})

-----------------------------------------------------------------------------
(* The rule for selectors of Go, restricted as the code restricts it to    *)
(* exported fields promoted through exported embedded structs: x.name      *)
(* denotes the field at the shallowest depth, if there is exactly one      *)
(* there.  Go also weighs methods and what unexported embedded structs     *)
(* promote, which can hide such a field or make it ambiguous.              *)

AllFields(types) == UNION {types[t].fields : t \in DOMAIN types}

\* path leads from root through embedded fields to name.
Denotes(types, root, path, name) ==
  /\ \A i \in DOMAIN path :
       /\ path[i].exported
       /\ path[i] \in Struct(types, IF i = 1 THEN root ELSE path[i - 1].type)
       /\ i < Len(path) => path[i].embedded
  /\ path[Len(path)].name = name

SelectorType(types, root, name) ==
  LET paths(n)   == {p \in [1..n -> AllFields(types)] : Denotes(types, root, p, name)}
      structs    == {t \in DOMAIN types : types[t].kind = "struct"}
      depths     == {n \in 1..Cardinality(structs) : paths(n) # {}}
      shallowest == CHOOSE n \in depths : \A m \in depths : n <= m
  IN  IF depths = {} \/ ~Unambiguous(paths(shallowest)) THEN Unreadable
      ELSE TypeBehind(paths(shallowest))

=============================================================================
