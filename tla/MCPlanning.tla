------------------------------ MODULE MCPlanning ------------------------------
(***************************************************************************)
(* Small projects for Planning, one family for each part of the question:  *)
(* call graphs, rules that overlap, globs, fields of types, options and    *)
(* attributes, and what only one change makes wrong.                       *)
(***************************************************************************)
EXTENDS Planning

MCNumerals == <<"0", "1">>

-----------------------------------------------------------------------------
(* A plain project.                                                        *)

IntType == [kind |-> "integer", element |-> "", stringer |-> FALSE, fields |-> {}, parameters |-> {}]
Plain(kind) == [IntType EXCEPT !.kind = kind]
PlainTypes == [t \in {"int", "error"} |-> IF t = "int" THEN IntType ELSE Plain("interface")]

Function(id, name) ==
  [id |-> id, kind |-> "function", package |-> <<"shop">>, packageName |-> "shop",
   file |-> <<"shop", "a.go">>, name |-> <<name>>, receiver |-> <<>>, exported |-> TRUE,
   ownership |-> "application", contexts |-> <<0>>, errors |-> {},
   parameters |-> << [name |-> "ctx", type |-> "int"], [name |-> "a", type |-> "int"] >>,
   results |-> << [name |-> "", type |-> "int"], [name |-> "err", type |-> "error"] >>,
   generated |-> FALSE, testFile |-> FALSE, manualSpan |-> FALSE, recoverShadowed |-> FALSE,
   variadic |-> "no", hasBody |-> TRUE, typeParameters |-> {}]

Method(id, name) == [Function(id, name) EXCEPT !.kind = "method", !.receiver = <<"Cart">>, !.errors = {1}]
NoContext(symbol) == [symbol EXCEPT !.contexts = <<>>]

Everything == [NoCriteria EXCEPT !.packages = { <<AnyRun>> }]
Named(name) == [NoCriteria EXCEPT !.functions = { <<OneOf({name})>> }]
Methods == [NoCriteria EXCEPT !.methods = { <<OneOf({"Pay"})>> }]

Rule(id, match) ==
  [id |-> id, match |-> match, exclude |-> {}, spanKind |-> "", spanName |-> <<>>,
   errors |-> {}, attributes |-> <<>>]
Exclusion(id, match) == [id |-> id, match |-> match]

PlainPolicy ==
  [apiVersion |-> "v1alpha1", kind |-> "InstrumentationPlan", backend |-> "otelc",
   backendVersion |-> SupportedVersion, captureAll |-> FALSE, mode |-> "require",
   spanName |-> <<>>, record |-> FALSE, deny |-> {}, rules |-> << Rule(1, Everything) >>,
   exclusions |-> <<>>]

PlainOptions ==
  [strict |-> FALSE, allowLarge |-> FALSE, limitsSet |-> FALSE, maximumSet |-> FALSE,
   warning |-> DefaultWarning, strong |-> DefaultStrong, maximum |-> DefaultMaximum]

Project(s) ==
  [policy |-> PlainPolicy, symbols |-> s, calls |-> [i \in DOMAIN s |-> <<>>],
   types |-> PlainTypes, bindings |-> {}, options |-> PlainOptions]

One   == << Function(1, "Run") >>
Three == << Method(3, "Pay"), Function(1, "Run"), NoContext(Function(2, "Tax")) >>
Roomy == [PlainOptions EXCEPT !.limitsSet = TRUE, !.warning = 9, !.strong = 9, !.allowLarge = TRUE]

-----------------------------------------------------------------------------
(* Every call graph of three symbols with up to two calls each.            *)
CalleeLists == UNION {[1..n -> 1..3] : n \in 0..2}

GraphProjects ==
  {[Project(<< Function(3, "Tax"), Function(2, "Run"), Function(1, "Tax") >>) EXCEPT
      !.calls = c, !.policy.rules = << Rule(1, Named("Run")) >>,
      !.options = [Roomy EXCEPT !.strict = TRUE]] :
     c \in [1..3 -> CalleeLists]}

(* Two rules over three symbols, in both orders, with an exclusion or not. *)
Bodies ==
  {[Rule(0, m) EXCEPT !.exclude = x, !.spanName = n, !.errors = e] :
     m \in {Everything, Named("Run"), Methods},
     x \in {{}, {Methods}, {Everything}},
     n \in {<<>>, <<"method">>, <<"shop">>},
     e \in {{}, {TRUE}}}

PolicyProjects ==
  {[Project(Three) EXCEPT
      !.policy.rules = IF first THEN << [a EXCEPT !.id = 1], [b EXCEPT !.id = 2] >>
                       ELSE << [b EXCEPT !.id = 2], [a EXCEPT !.id = 1] >>,
      !.policy.exclusions = x, !.policy.mode = mode, !.options = Roomy] :
     a \in {r \in Bodies : r.exclude = {} \/ r.errors = {}},
     b \in {r \in Bodies : r.match # Methods /\ r.exclude # {Everything}},
     first \in BOOLEAN, mode \in {"require", "root"},
     x \in {<<>>, << Exclusion(4, Methods), Exclusion(3, Named("Tax")) >>}}

(* Globs of up to three parts over the paths of packages.                  *)
PathSymbols ==
  LET paths == << <<"a">>, <<"b">>, <<"a", "a">>, <<"a", "b">>, <<"b", "a">>,
                  <<"a", "b", "a">>, <<"b", "a", "b">> >>
  IN  [i \in 1..7 |-> [Function(i, "Run") EXCEPT !.package = paths[i]]]

Parts == {AnyRun, OneOf({"a"}), OneOf({"b"}), OneOf({"a", "b"})}
Patterns == UNION {[1..n -> Parts] : n \in 1..3} \cup { <<AnyRun, Malformed>> }

GlobProjects ==
  {[Project(PathSymbols) EXCEPT
      !.policy.rules[1].match = [NoCriteria EXCEPT !.packages = {p}], !.options = Roomy] :
     p \in Patterns}

-----------------------------------------------------------------------------
(* Structs that embed each other, through pointers and in circles.         *)
Scalar(name)        == [name |-> name, type |-> "int", exported |-> TRUE, embedded |-> FALSE]
Embeds(name, type)  == [name |-> name, type |-> type, exported |-> TRUE, embedded |-> TRUE]
Hidden(name, type)  == [name |-> name, type |-> type, exported |-> FALSE, embedded |-> TRUE]
Field(name, type)   == [name |-> name, type |-> type, exported |-> TRUE, embedded |-> FALSE]

Shape(fields)  == [Plain("struct") EXCEPT !.fields = fields]
Pointer(to)    == [Plain("pointer") EXCEPT !.element = to]

Universes ==
  {[t \in {"int", "error", "A", "B", "C", "d", "*A", "*B", "*C"} |->
      CASE t = "A" -> Shape(a) [] t = "B" -> Shape(b) [] t = "C" -> Shape(c)
        [] t = "d" -> Shape({Scalar("X")})
        [] t = "*A" -> Pointer("A") [] t = "*B" -> Pointer("B") [] t = "*C" -> Pointer("C")
        [] t = "int" -> IntType [] OTHER -> Plain("interface")] :
     a \in SUBSET {Scalar("X"), Embeds("B", "*B"), Embeds("C", "C"), Hidden("d", "d")},
     b \in SUBSET {Scalar("X"), Embeds("A", "*A"), Embeds("C", "*C")},
     c \in SUBSET {Scalar("X"), Embeds("B", "*B"), Field("Y", "*A")}}

Attribute(from) ==
  [key |-> <<"size">>, from |-> from, stringer |-> FALSE, classification |-> "", allow |-> FALSE]
Argument(path) == [NoSource EXCEPT !.argument = path]

TypeProjects ==
  {[Project(<< [Function(1, "Run") EXCEPT !.parameters[2].type = "*A"] >>) EXCEPT
      !.types = types,
      !.policy.rules[1].attributes = << Attribute(Argument(path)) >>] :
     types \in Universes, path \in {<<"a", "X">>, <<"1", "B", "X">>, <<"a", "Y", "X">>}}

-----------------------------------------------------------------------------
(* Options and limits, with three targets and a default maximum of two.    *)
LimitProjects ==
  {[Project([i \in 1..3 |-> [Function(i, "Run") EXCEPT !.generated = (i = 3)]]) EXCEPT
      !.options = [strict |-> strict, allowLarge |-> allow, limitsSet |-> set[1], maximumSet |-> set[2],
                   warning |-> IF set[1] THEN w ELSE DefaultWarning, strong |-> DefaultStrong,
                   maximum |-> IF set[2] THEN m ELSE DefaultMaximum]] :
     strict \in BOOLEAN, allow \in BOOLEAN,
     set \in {<<FALSE, FALSE>>, <<TRUE, FALSE>>, <<TRUE, TRUE>>},
     w \in {0, 1, 3, 4}, m \in {0, 1, 2, 3, 4}}

Constants ==
  {[type |-> t, value |-> v, finite |-> f] :
     t \in {"uint64", "float", "map"}, v \in {MaxInt64, MaxInt64 + 1}, f \in BOOLEAN}

Sources ==
  {Argument(<<"a">>), Argument(<<"_", "X">>), Argument(<<"token">>), Argument(<<"missing">>),
   [NoSource EXCEPT !.result = <<"1">>], [NoSource EXCEPT !.errorType = "err"],
   [NoSource EXCEPT !.errorType = "0"], [NoSource EXCEPT !.symbol = "name"],
   [Argument(<<"a">>) EXCEPT !.symbol = "name"], [NoSource EXCEPT !.symbol = "other"]}
    \cup {[NoSource EXCEPT !.constant = {c}] : c \in Constants}

Attributes ==
  {[key |-> k, from |-> f, stringer |-> s, classification |-> c, allow |-> allow] :
     k \in {<<"size">>, <<"api", "key">>, <<"user", "id">>, <<"otel.", "x">>},
     f \in Sources, s \in BOOLEAN, c \in {"", "public", "pii", "secret"}, allow \in BOOLEAN}

AttributeProjects ==
  {[Project(<< Method(1, "Pay") >>) EXCEPT
      !.types["error"].stringer = TRUE,
      !.policy.rules[1].attributes = << a >>, !.policy.deny = { <<"size">> }] : a \in Attributes}

-----------------------------------------------------------------------------
(* One thing out of the ordinary at a time.                                *)
WithSymbol(s) == Project(<< s >>)
WithPolicy(p) == [Project(One) EXCEPT !.policy = p]
WithRule(r)   == WithPolicy([PlainPolicy EXCEPT !.rules = << r >>])

OddProjects ==
  {WithSymbol([Function(1, "Run") EXCEPT !.recoverShadowed = TRUE]),
   WithSymbol([Function(1, "Run") EXCEPT !.packageName = "main"]),
   WithSymbol([Function(1, "Run") EXCEPT !.variadic = "other"]),
   WithSymbol([Function(1, "Run") EXCEPT !.hasBody = FALSE]),
   WithSymbol([Function(1, "Run") EXCEPT !.typeParameters = {"T"}]),
   WithSymbol([Function(1, "Run") EXCEPT !.contexts = <<0, 1>>]),
   WithSymbol([Function(1, "Run") EXCEPT !.manualSpan = TRUE]),
   WithPolicy([PlainPolicy EXCEPT !.backendVersion = "other"]),
   WithPolicy([PlainPolicy EXCEPT !.captureAll = TRUE]),
   WithPolicy([PlainPolicy EXCEPT !.rules = <<>>]),
   WithPolicy([PlainPolicy EXCEPT !.rules = @ \o @]),
   WithPolicy([PlainPolicy EXCEPT !.exclusions = << Exclusion(9, Everything) >>]),
   WithPolicy([PlainPolicy EXCEPT !.spanName = <<UnknownVariable>>]),
   WithPolicy([PlainPolicy EXCEPT !.deny = { <<"size">> }]),
   WithRule([Rule(1, Everything) EXCEPT !.exclude = {NoCriteria}]),
   WithRule(Rule(1, [NoCriteria EXCEPT !.symbols = {7}])),
   WithRule(Rule(1, [NoCriteria EXCEPT !.exported = {FALSE}])),
   WithRule(Rule(1, [NoCriteria EXCEPT !.implements = {"Payer"}])),
   [WithRule(Rule(1, [NoCriteria EXCEPT !.implements = {"Payer"}])) EXCEPT !.bindings = {<<"Payer", 1>>}],
   [WithRule([Rule(1, Everything) EXCEPT !.attributes = << Attribute(Argument(<<"a">>)) >>])
      EXCEPT !.policy.mode = "root",
             !.symbols = << [NoContext(Function(1, "Run")) EXCEPT !.typeParameters = {"T"}] >>,
             !.types["int"].parameters = {"T"}]}

MCFamilies ==
  {GraphProjects, PolicyProjects, GlobProjects, TypeProjects,
   LimitProjects, AttributeProjects, OddProjects}
=============================================================================
