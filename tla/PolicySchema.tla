----------------------------- MODULE PolicySchema -----------------------------
(***************************************************************************)
(* What a policy must satisfy before it is resolved: Validate of           *)
(* src/internal/policy/validate.go, and the templates of span names.       *)
(*                                                                         *)
(* An identifier is a number, in the order of the texts; 0 is the empty    *)
(* one.  A template is a sequence of parts: a variable, a literal text,    *)
(* an unknown variable or a variable that is not closed.                   *)
(***************************************************************************)
EXTENDS Selectors, AttributeAccess, TLC

CONSTANTS
  SupportedVersion,  \* the release of otelc that is pinned
  MisspeltIDs        \* identifiers ruleIDPattern refuses

Variables == {"symbol", "package", "import_path", "function", "receiver", "method"}
UnknownVariable == "{{unknown}}"
Unterminated    == "{{"

\* ValidateTemplate
ValidTemplate(template) ==
  \A i \in DOMAIN template : template[i] \notin {UnknownVariable, Unterminated}

\* The values targetSpanName gives the variables; a method has no function.
VariableValue(symbol) ==
  [symbol      |-> <<ToString(symbol.id)>>,
   package     |-> <<symbol.packageName>>,
   import_path |-> symbol.package,
   function    |-> IF symbol.kind = "method" THEN <<>> ELSE symbol.name,
   receiver    |-> symbol.receiver,
   method      |-> IF symbol.kind = "method" THEN symbol.name ELSE <<>>]

\* RenderTemplate: the texts of its parts, one after the other.
Rendered(template, symbol) ==
  LET text[i \in 0..Len(template)] ==
        IF i = 0 THEN <<>>
        ELSE text[i - 1] \o (IF template[i] \in Variables
                             THEN VariableValue(symbol)[template[i]] ELSE <<template[i]>>)
  IN  text[Len(template)]

\* The template targetSpanName falls back on.
DefaultTemplate(symbol) ==
  IF symbol.kind = "method" THEN <<"package", ".", "receiver", ".", "method">>
  ELSE <<"package", ".", "function">>

-----------------------------------------------------------------------------
\* validateMatch; "" and <<>> stand for an empty selector value.
ValidMatch(match) ==
  /\ match.ownership \in {"", "application", "dependency", "any"}
  /\ \A f \in GlobFields : <<>> \notin match[f]
  /\ 0 \notin match.symbols
  /\ "" \notin match.implements

\* hasReservedPrefix is asked of the first word.
ValidAttribute(attribute) ==
  /\ attribute.key # <<>> /\ attribute.key[1] # "otel."
  /\ SourceCount(attribute.from) = 1
  /\ attribute.from.symbol \in SymbolFields \cup {""}
  /\ attribute.stringer => attribute.from.argument # <<>> \/ attribute.from.result # <<>>
  /\ attribute.classification \in {"", "public", "internal", "pii", "secret"}

ValidRule(rule) ==
  /\ ~IsEmpty(rule.match)
  /\ ValidMatch(rule.match)
  /\ \A m \in rule.exclude : ~IsEmpty(m) /\ ValidMatch(m)
  /\ rule.spanKind \in {"", "internal"}
  /\ ValidTemplate(rule.spanName)
  /\ \A i, j \in DOMAIN rule.attributes :
       rule.attributes[i].key = rule.attributes[j].key => i = j
  /\ \A i \in DOMAIN rule.attributes : ValidAttribute(rule.attributes[i])

\* validatePolicySettings, validateDefaults, validateDenyPatterns.
ValidSettings(policy) ==
  /\ policy.apiVersion = "v1alpha1" /\ policy.kind = "InstrumentationPlan"
  /\ policy.backend = "otelc" /\ policy.backendVersion # ""
  /\ ~policy.captureAll
  /\ policy.mode \in {"", "require", "root"}
  /\ ValidTemplate(policy.spanName)
  /\ <<>> \notin policy.deny
  /\ policy.rules # <<>>

\* Identifiers are unique across the rules and the exclusions.
ValidIDs(policy) ==
  LET all == policy.rules \o policy.exclusions IN
  /\ \A i \in DOMAIN all : all[i].id \notin MisspeltIDs \cup {0}
  /\ \A i, j \in DOMAIN all : all[i].id = all[j].id => i = j

ValidPolicy(policy) ==
  /\ ValidSettings(policy)
  /\ ValidIDs(policy)
  /\ \A i \in DOMAIN policy.rules : ValidRule(policy.rules[i])
  /\ \A i \in DOMAIN policy.exclusions :
       ~IsEmpty(policy.exclusions[i].match) /\ ValidMatch(policy.exclusions[i].match)

=============================================================================
