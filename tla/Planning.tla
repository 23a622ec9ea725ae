------------------------------- MODULE Planning -------------------------------
(***************************************************************************)
(* From a policy and a project to a plan, or to an exit status:            *)
(* runPolicyCommand of src/internal/cli/policy_execution.go, with the      *)
(* resolution of src/internal/resolve and the checks of                    *)
(* src/internal/validate.  It is what inspect, explain, validate, lock,    *)
(* diff, compile and build all do first.                                   *)
(*                                                                         *)
(* The project is given; the command may be cancelled at any moment.       *)
(***************************************************************************)
EXTENDS Integers, PolicySchema, CallCycles

CONSTANTS
  Families,       \* sets of projects the command may be run on
  DefaultWarning, DefaultStrong, DefaultMaximum   \* of validate.Options

Elements(s)   == {s[i] : i \in DOMAIN s}
IsSequence(s) == s \in Seq(Elements(s))

\* What discovery finds: a symbol calls symbols of the project, and no two
\* have the same identifier; init functions are left out.
Discovered(p) ==
  /\ p.calls \in Seq(Seq(DOMAIN p.calls))
  /\ IsFiniteSet(DOMAIN p.types)
  /\ IsSequence(p.symbols)
  /\ \A i, j \in DOMAIN p.symbols : p.symbols[i].id = p.symbols[j].id => i = j
  /\ \A s \in Elements(p.symbols) :
       /\ s.id \in Nat \ {0}
       /\ IsSequence(s.contexts)
       /\ \A f \in GlobFields : IsSequence(FieldValue(s)[f])

\* What a file decodes to; identifiers need not be distinct.
Decoded(policy) ==
  LET IsMatch(m) == \A f \in GlobFields : \A pattern \in m[f] : IsSequence(pattern) IN
  /\ IsSequence(policy.rules) /\ IsSequence(policy.exclusions)
  /\ \A r \in Elements(policy.rules) : r.id \in Nat /\ \A m \in {r.match} \cup r.exclude : IsMatch(m)
  /\ \A x \in Elements(policy.exclusions) : x.id \in Nat /\ IsMatch(x.match)

\* What the flags are parsed to.
Parsed(options) ==
  /\ options.maximum \in Int
  /\ options.maximumSet => options.limitsSet
  /\ ~options.maximumSet => options.maximum = DefaultMaximum

ASSUME PlanningAssumption ==
  /\ DefaultWarning \in Nat \ {0} /\ DefaultStrong \in Nat \ {0}
  /\ DefaultMaximum \in Nat \ {0}
  /\ \A family \in Families : \A p \in family :
       Discovered(p) /\ Decoded(p.policy) /\ Parsed(p.options)

VARIABLES
  project,      \* policy, symbols, calls, types, bindings, options
  stage,        \* "usage", "load", "analyse", "prepare", "resolve", "summarise",
                \* "validate", "done"
  remaining,    \* symbols still to resolve, in the order of their identifiers
  targets,      \* the plan
  skipped,
  matched,      \* rules some symbol matched
  effective,    \* rules that were a candidate of some symbol
  diagnostics,
  exit          \* the exit status, -1 while the command runs

resolution == <<remaining, targets, skipped, matched, effective>>
vars == <<project, stage, resolution, diagnostics, exit, cycleVars>>

policy  == project.policy
symbols == project.symbols
options == project.options

Init ==
  /\ \E family \in Families : project \in family
  /\ stage = "usage"
  /\ remaining = <<>> /\ targets = <<>> /\ skipped = <<>>
  /\ matched = {} /\ effective = {}
  /\ diagnostics = {}
  /\ exit = -1
  /\ CyclesInit(project.calls)

-----------------------------------------------------------------------------
Problem(code, rule, symbol) ==
  [severity |-> "error", code |-> code, rule |-> rule, symbol |-> symbol]
Warning(code, rule, symbol) ==
  [severity |-> "warning", code |-> code, rule |-> rule, symbol |-> symbol]

When(condition, set) == IF condition THEN set ELSE {}

HasErrors(ds)   == \E d \in ds : d.severity = "error"
HasWarnings(ds) == \E d \in ds : d.severity = "warning"

Exits(status) == stage' = "done" /\ exit' = status

\* validateTargetLimitOptions
UsableLimits ==
  options.limitsSet =>
    /\ options.warning > 0 /\ options.strong > 0 /\ options.maximum > 0
    /\ options.warning <= options.strong
    /\ options.maximumSet /\ options.maximum > DefaultMaximum => options.allowLarge

ParseOptions ==
  /\ stage = "usage"
  /\ IF UsableLimits THEN stage' = "load" /\ UNCHANGED exit ELSE Exits(2)
  /\ UNCHANGED <<project, resolution, diagnostics, cycleVars>>

\* loadCommandPolicy; the file may not be readable as a policy.
LoadPolicy ==
  /\ stage = "load"
  /\ \/ ValidPolicy(policy) /\ stage' = "analyse" /\ UNCHANGED exit
     \/ Exits(3)
  /\ UNCHANGED <<project, resolution, diagnostics, cycleVars>>

\* LoadContext: the packages may not load, the search for cycles may stop,
\* and a later pass of the analysis finds the context cancelled.
Analyse ==
  /\ stage = "analyse"
  /\ MarkCycles
  /\ UNCHANGED <<project, stage, resolution, diagnostics, exit>>

Analysed ==
  /\ stage = "analyse"
  /\ \/ phase = "marked" /\ ~cancelled /\ stage' = "prepare" /\ UNCHANGED exit
     \/ phase = "marked" /\ cancelled /\ Exits(4)
     \/ phase = "stopped" /\ Exits(4)
     \/ phase = "collect" /\ next = 1 /\ Exits(4)
  /\ UNCHANGED <<project, resolution, diagnostics, cycleVars>>

-----------------------------------------------------------------------------
(* resolve.Resolve.                                                        *)

\* Mutant: rules keep the order of the file.
AsDeclared(items) == items

\* The items by their identifiers, which are distinct.
ByID(items) ==
  LET ids == Ascending({items[i].id : i \in DOMAIN items})
  IN  [i \in DOMAIN ids |-> CHOOSE item \in Elements(items) : item.id = ids[i]]

\* The items at some places, in their order.
Kept(items, places) ==
  LET at == Ascending(places) IN [i \in DOMAIN at |-> items[at[i]]]

Rules      == ByID(policy.rules)
Exclusions == ByID(policy.exclusions)

MatchesOf(symbol, match) == Matches(project.bindings, symbol, match)

\* validateSelector
SelectorProblems(id, match) ==
  When(InvalidGlobs(match), {Problem("InvalidSelector", id, 0)})
    \cup {Problem("UnresolvedSymbol", id, s) :
            s \in match.symbols \ {x.id : x \in Elements(symbols)}}

InvalidSelectors ==
  (UNION {UNION {SelectorProblems(r.id, m) : m \in {r.match} \cup r.exclude} :
            r \in Elements(Rules)})
    \cup UNION {SelectorProblems(x.id, x.match) : x \in Elements(Exclusions)}

\* Resolve, up to the symbols.
Prepare ==
  /\ stage = "prepare"
  /\ diagnostics' = InvalidSelectors
  /\ IF HasErrors(diagnostics') THEN stage' = "validate" /\ UNCHANGED remaining
     ELSE stage' = "resolve" /\ remaining' = ByID(symbols)
  /\ UNCHANGED <<project, targets, skipped, matched, effective, exit, cycleVars>>

\* targetContext, targetSpanName: what is wrong with a rule on a symbol.
TemplateOf(rule, symbol) ==
  LET template == IF rule.spanName # <<>> THEN rule.spanName ELSE policy.spanName
  IN  IF template = <<>> THEN DefaultTemplate(symbol) ELSE template

TargetProblems(rule, symbol) ==
  When(symbol.contexts = <<>> /\ policy.mode # "root",
       {Problem("MissingContext", rule.id, symbol.id)})
    \cup When(Len(symbol.contexts) > 1, {Problem("MultipleContexts", rule.id, symbol.id)})
    \cup When(Rendered(TemplateOf(rule, symbol), symbol) = <<>>,
              {Problem("UnknownTemplateVar", rule.id, symbol.id)})

\* targetFor
Target(rule, symbol) ==
  LET record == IF rule.errors = {} THEN policy.record ELSE TRUE \in rule.errors
  IN  [symbol     |-> symbol.id,
       rule       |-> rule.id,
       name       |-> Rendered(TemplateOf(rule, symbol), symbol),
       context    |-> IF symbol.contexts = <<>> THEN <<>> ELSE <<symbol.contexts[1]>>,
       record     |-> record,
       errors     |-> IF record THEN symbol.errors ELSE {},
       attributes |-> Elements(rule.attributes)]

\* chooseTarget: the target of the first candidate without a problem, ...
Sound(symbol, candidates) == {i \in DOMAIN candidates : TargetProblems(candidates[i], symbol) = {}}

Chosen(symbol, candidates) ==
  LET sound == Sound(symbol, candidates)
  IN  Target(candidates[CHOOSE i \in sound : \A j \in sound : i <= j], symbol)

\* ... and what is wrong with it: the problems of each, and each that asks for
\* another instrumentation.
ChoiceProblems(symbol, candidates) ==
  (UNION {TargetProblems(candidates[i], symbol) : i \in DOMAIN candidates})
    \cup {Problem("ConflictingRules", candidates[i].id, symbol.id) :
            i \in {k \in Sound(symbol, candidates) :
                     [Chosen(symbol, candidates) EXCEPT !.rule = candidates[k].id]
                       # Target(candidates[k], symbol)}}

\* candidateRules, applyGlobalExclusions and chooseTarget for one symbol.
ResolveSymbol ==
  /\ stage = "resolve" /\ remaining # <<>>
  /\ LET symbol     == Head(remaining)
         included   == {i \in DOMAIN Rules : MatchesOf(symbol, Rules[i].match)}
         local      == {i \in included : \E m \in Rules[i].exclude : MatchesOf(symbol, m)}
         candidates == Kept(Rules, included \ local)
         global     == {i \in DOMAIN Exclusions :
                          candidates # <<>> /\ MatchesOf(symbol, Exclusions[i].match)}
         problems   == ChoiceProblems(symbol, candidates)
         contextless == problems # {} /\ symbol.contexts = <<>> /\ policy.mode # "root"
         Skip(items, reason) ==
           [i \in DOMAIN items |-> [symbol |-> symbol.id, rule |-> items[i].id, reason |-> reason]]
         excluded   == skipped \o Skip(Kept(Rules, local), "excluded")
     IN  /\ matched' = matched \cup {Rules[i].id : i \in included}
         /\ \/ /\ global # {} \/ candidates = <<>>
               /\ skipped' = excluded \o Skip(Kept(Exclusions, global), "excluded")
               /\ UNCHANGED <<targets, effective, diagnostics>>
            \/ /\ global = {} /\ candidates # <<>>
               /\ effective' = effective \cup {r.id : r \in Elements(candidates)}
               /\ targets' = IF problems = {}
                             THEN Append(targets, Chosen(symbol, candidates)) ELSE targets
               /\ diagnostics' = diagnostics \cup problems
               /\ skipped' = IF contextless
                             THEN excluded \o Skip(<<candidates[1]>>, "missingContext") ELSE excluded
  /\ remaining' = Tail(remaining)
  /\ UNCHANGED <<project, stage, exit, cycleVars>>

\* ruleMatchDiagnostics
Summarise ==
  /\ stage = "resolve" /\ remaining = <<>>
  /\ diagnostics' = diagnostics
       \cup {Problem("UnresolvedSymbol", r.id, 0) : r \in {r \in Elements(Rules) : r.id \notin matched}}
       \cup {Warning("RuleFullyExcluded", r.id, 0) :
               r \in {r \in Elements(Rules) : r.id \in matched \ effective}}
  /\ stage' = "validate"
  /\ UNCHANGED <<project, resolution, exit, cycleVars>>

-----------------------------------------------------------------------------
(* validate.Safety and the check of the backend.                           *)

OrDefault(value, default) == IF value <= 0 THEN default ELSE value

\* Mutant: an acknowledgment lifts an explicit maximum as well.
AcknowledgedSize(count) ==
  When(count > OrDefault(options.warning, DefaultWarning), {Warning("BroadPlan", 0, 0)})
    \cup When(count > OrDefault(options.maximum, DefaultMaximum) /\ ~options.allowLarge,
              {Problem("BroadPlan", 0, 0)})

\* planSizeDiagnostics; the two warnings are one here.
PlanSize(count) ==
  When(\/ count > OrDefault(options.warning, DefaultWarning)
       \/ count > OrDefault(options.strong, DefaultStrong), {Warning("BroadPlan", 0, 0)})
    \cup When(/\ count > OrDefault(options.maximum, DefaultMaximum)
              /\ options.maximumSet \/ ~options.allowLarge, {Problem("BroadPlan", 0, 0)})

IndexOf(id)  == CHOOSE i \in DOMAIN symbols : symbols[i].id = id
SymbolOf(id) == symbols[IndexOf(id)]

\* The warnings of targetSafety, by their code.
TargetWarnings(target) ==
  LET symbol == SymbolOf(target.symbol) IN
  {code \in {"BroadPlan", "RecursiveTarget", "ManualSpan", "MissingContext", "InvalidPolicy"} :
     \/ code = "BroadPlan" /\ (symbol.generated \/ symbol.testFile)
     \/ code = "RecursiveTarget" /\ IndexOf(target.symbol) \in recursive
     \/ code = "ManualSpan" /\ symbol.manualSpan
     \/ code = "MissingContext" /\ target.context = <<>>
     \/ code = "InvalidPolicy" /\ target.record /\ target.errors = {}}

TargetDiagnostics(target) ==
  LET symbol == SymbolOf(target.symbol)
      attrs  == target.attributes
  IN  {Warning(c, target.rule, target.symbol) :
         c \in TargetWarnings(target) \cup UNION {AttributeWarnings(a) : a \in attrs}}
        \cup {Problem(c, target.rule, target.symbol) :
                c \in UNION {AttributeErrors(project.types, symbol, a, policy.deny) : a \in attrs}}

\* genericCaptureIssue: the type an attribute starts from names a type parameter.
GenericCapture(symbol, attribute) ==
  LET from == attribute.from
      path == IF from.errorType # "" THEN <<from.errorType>> ELSE Path(from)
      root == Values(symbol, from)[SourceIndex(Values(symbol, from), path[1])].type
  IN  \/ ~Accessible(project.types, symbol, attribute)
      \/ /\ from.constant = {} /\ from.symbol = ""
         /\ project.types[root].parameters \cap symbol.typeParameters # {}

\* symbolCompatibilityIssues and contextCompatibilityIssues, for one target.
Unsupported(target) ==
  LET symbol == SymbolOf(target.symbol) IN
  \/ symbol.recoverShadowed
  \/ symbol.packageName = "main"
  \/ symbol.variadic = "other"
  \/ ~symbol.hasBody
  \/ /\ symbol.typeParameters # {}
     /\ target.context # <<>> \/ \E a \in target.attributes : GenericCapture(symbol, a)
  \/ \E i \in DOMAIN target.context : target.context[i] >= Len(symbol.parameters)
  \/ \E i \in target.errors : i >= Len(symbol.results)

\* otelc.Check
BackendProblems ==
  IF policy.backendVersion # SupportedVersion THEN {Problem("BackendVersionMismatch", 0, 0)}
  ELSE {Problem("BackendUnsupported", t.rule, t.symbol) :
          t \in {t \in Elements(targets) : Unsupported(t)}}

\* validatePolicyExecution and policyValidationExit.
Validate ==
  /\ stage = "validate"
  /\ diagnostics' = diagnostics \cup PlanSize(Len(targets)) \cup BackendProblems
       \cup UNION {TargetDiagnostics(t) : t \in Elements(targets)}
  /\ Exits(IF BackendProblems # {} THEN 7
           ELSE IF HasErrors(diagnostics') \/ (options.strict /\ HasWarnings(diagnostics'))
           THEN 5 ELSE 0)
  /\ UNCHANGED <<project, resolution, cycleVars>>

-----------------------------------------------------------------------------
\* The user interrupts the command.
Cancel ==
  /\ stage # "done" /\ ~cancelled
  /\ cancelled' = TRUE
  /\ UNCHANGED <<project, stage, resolution, diagnostics, exit>>
  /\ UNCHANGED <<calls, phase, search, recursive>>

Next ==
  \/ ParseOptions \/ LoadPolicy \/ Analyse \/ Analysed
  \/ Prepare \/ ResolveSymbol \/ Summarise \/ Validate
  \/ Cancel

Spec == Init /\ [][Next]_vars

-----------------------------------------------------------------------------
(* What the policy means, whatever the order it is written in.             *)

Denoted(symbol, match) == Selects(project.bindings, symbol, match)

Applicable(symbol) ==
  {r \in Elements(policy.rules) :
     Denoted(symbol, r.match) /\ \A m \in r.exclude : ~Denoted(symbol, m)}

ExcludedGlobally(symbol) ==
  \E x \in Elements(policy.exclusions) : Denoted(symbol, x.match)

\* All the rules that apply ask for the same instrumentation, and it exists.
Agreed(symbol) ==
  /\ \A r \in Applicable(symbol) : TargetProblems(r, symbol) = {}
  /\ \A r, o \in Applicable(symbol) :
       [Target(r, symbol) EXCEPT !.rule = 0] = [Target(o, symbol) EXCEPT !.rule = 0]

Wanted(symbol) == Applicable(symbol) # {} /\ ~ExcludedGlobally(symbol)

\* The target a symbol becomes, for the first of its rules.
Agreement(symbol) ==
  LET rule == CHOOSE r \in Applicable(symbol) : \A o \in Applicable(symbol) : r.id <= o.id
  IN  Target(rule, symbol)

Resolved == stage = "validate" /\ InvalidSelectors = {}

\* The plan is what the policy says as a set of rules and exclusions: it has,
\* in the order of the identifiers, every symbol that some rule wants, that
\* nothing excludes and on which its rules agree; each other wanted symbol has
\* an error of its own, a matched one that is not wanted is listed as skipped,
\* and a rule without an effect has its error or its
\* warning (docs/04_POLICY_SPEC.md, "Ordering and precedence").
ResolvedAsDeclared ==
  Resolved =>
    LET wanted == {s \in Elements(symbols) : Wanted(s)} IN
    /\ Elements(targets) = {Agreement(s) : s \in {s \in wanted : Agreed(s)}}
    /\ \A i, j \in DOMAIN targets : i < j => targets[i].symbol < targets[j].symbol
    /\ \A s \in Elements(symbols) :
         s \in wanted /\ ~Agreed(s) <=>
           \E d \in diagnostics : d.severity = "error" /\ d.symbol = s.id
    /\ \A s \in Elements(symbols) :
         (\E r \in Elements(policy.rules) : Denoted(s, r.match)) =>
           \/ s \in wanted
           \/ \E i \in DOMAIN skipped : skipped[i].symbol = s.id /\ skipped[i].reason = "excluded"
    /\ \A r \in Elements(policy.rules) :
         LET touched == {s \in Elements(symbols) : Denoted(s, r.match)} IN
         /\ touched = {} <=> Problem("UnresolvedSymbol", r.id, 0) \in diagnostics
         /\ touched # {} /\ (\A s \in touched : ExcludedGlobally(s) \/ r \notin Applicable(s))
              <=> Warning("RuleFullyExcluded", r.id, 0) \in diagnostics

\* The symbols that go into a plan are marked recursive exactly when they are
\* on a cycle of calls; a search that was interrupted marks nothing that is
\* ever used (docs/08_VALIDATION_SAFETY.md, "Recursion").
RecursiveExactly ==
  stage \in {"prepare", "resolve", "validate"} \/ exit \in {0, 5, 7} => recursive = OnCycle

\* The type a dotted path leads to by the rule of Go that SelectorType restricts.
SelectedType(root, names) ==
  LET at[i \in 0..Len(names)] ==
        IF i = 0 THEN root
        ELSE IF at[i - 1] = Unreadable THEN Unreadable
        ELSE SelectorType(project.types, at[i - 1], names[i])
  IN  at[Len(names)]

Readable(symbol, attribute) ==
  LET from  == attribute.from
      index == SourceIndex(Values(symbol, from), Path(from)[1])
      type  == SelectedType(Values(symbol, from)[index].type, Tail(Path(from)))
  IN  IF Path(from) = <<>> \/ attribute.stringer \/ index = 0
      THEN Accessible(project.types, symbol, attribute)
      ELSE type \in DOMAIN project.types /\ project.types[type].kind \in Scalars

\* An attribute with a dotted path is refused exactly when the path, read with
\* the rule of Go for selectors over exported fields and exported embedded
\* structs, does not end in one scalar: the layered search of lookupField neither
\* invents nor loses one.  Methods and unexported embedding are left out of the
\* rule as they are out of the code.
LookupIsSelector ==
  exit \in {0, 5, 7} =>
    \A t \in Elements(targets) :
      Problem("CaptureNotAllowed", t.rule, t.symbol) \in diagnostics
        <=> \E a \in t.attributes : ~Readable(SymbolOf(t.symbol), a)

\* A command that goes on has its targets with their context, its rules with
\* their symbols, every sensitive attribute classified and acknowledged; and a
\* strict one has no target on a cycle of calls, in generated or test code, or
\* with a span of its own.  Whatever else it finds, it calls a plan too broad
\* exactly when the plan exceeds the limit that binds it
\* (docs/CLI.md, docs/08_VALIDATION_SAFETY.md).
AcceptedOnlySafe ==
  /\ exit = 0 =>
       /\ \A t \in Elements(targets) :
            LET s == SymbolOf(t.symbol) IN
            /\ Len(s.contexts) = 1 \/ (s.contexts = <<>> /\ policy.mode = "root")
            /\ options.strict => /\ IndexOf(t.symbol) \notin OnCycle
                                 /\ ~s.generated /\ ~s.testFile /\ ~s.manualSpan
                                 /\ s.contexts # <<>>
            /\ \A a \in t.attributes :
                 MatchesAny(a, SecretPatterns \cup policy.deny) =>
                   a.classification = "secret" /\ a.allow
       /\ \A r \in Elements(policy.rules) : \E s \in Elements(symbols) : Denoted(s, r.match)
       /\ \A s \in Elements(symbols) : Wanted(s) => \E t \in Elements(targets) : t.symbol = s.id
       /\ policy.backendVersion = SupportedVersion
  /\ exit \in {0, 5, 7} =>
       LET count == Len(targets)
           within == IF options.maximumSet THEN count <= options.maximum
                     ELSE count <= DefaultMaximum \/ options.allowLarge
       IN  Problem("BroadPlan", 0, 0) \notin diagnostics <=> within

=============================================================================
