------------------------------ MODULE Selectors ------------------------------
(***************************************************************************)
(* What a selector of the policy matches: src/internal/resolve/match.go.   *)
(*                                                                         *)
(* A name or a path is the sequence of its segments, <<>> where the symbol *)
(* has none.  A pattern is a sequence of parts: "**", or a segment pattern *)
(* given by the segments path.Match accepts for it, or a malformed one.    *)
(***************************************************************************)
EXTENDS Naturals, Sequences, FiniteSets

AnyRun         == [kind |-> "**",      accepts |-> {}]
OneOf(accepts) == [kind |-> "segment", accepts |-> accepts]
Malformed      == [kind |-> "bad",     accepts |-> {}]

\* A selector with no criteria; the fields of a selector of the policy.
NoCriteria ==
  [packages |-> {}, files |-> {}, functions |-> {}, methods |-> {}, receivers |-> {},
   symbols |-> {}, implements |-> {}, exported |-> {}, hasContext |-> {},
   returnsError |-> {}, ownership |-> ""]

GlobFields == {"packages", "files", "functions", "methods", "receivers"}

-----------------------------------------------------------------------------
\* validatedGlobParts: the error path.Match reports for a part.
WellFormed(pattern) == \A i \in DOMAIN pattern : pattern[i].kind # "bad"

\* The search, by the position in the pattern and in the value.
Glob(pattern, value) ==
  LET P == Len(pattern) + 1
      V == Len(value) + 1
      match[at \in (1..P) \X (1..V)] ==
        LET p == at[1]
            v == at[2]
        IN  IF p = P THEN v = V
            ELSE IF pattern[p].kind = "**"
                 THEN match[<<p + 1, v>>] \/ (v < V /\ match[<<p, v + 1>>])
                 ELSE v < V /\ value[v] \in pattern[p].accepts /\ match[<<p + 1, v + 1>>]
  IN  match[<<1, 1>>]

\* What each glob field is compared with.
FieldValue(symbol) ==
  [packages  |-> symbol.package,
   files     |-> symbol.file,
   functions |-> IF symbol.kind = "function" THEN symbol.name ELSE <<>>,
   methods   |-> IF symbol.kind = "method" THEN symbol.name ELSE <<>>,
   receivers |-> symbol.receiver]

\* matchesProperties; {} is a property the selector does not ask for.
MatchesProperties(symbol, match) ==
  /\ match.exported # {} => symbol.exported \in match.exported
  /\ match.hasContext # {} => (symbol.contexts # <<>>) \in match.hasContext
  /\ match.returnsError # {} => (symbol.errors # {}) \in match.returnsError
  /\ match.ownership \in {"", "any", symbol.ownership}

\* matchesGlobFields: no pattern accepts all, and a symbol without a value
\* for the field matches none.
MatchesGlobFields(symbol, match) ==
  \A f \in GlobFields :
    LET value == FieldValue(symbol)[f] IN
    match[f] = {} \/ (value # <<>> /\ \E p \in match[f] : Glob(p, value))

\* The criteria that are no globs; bindings are the pairs <<interface, symbol>>.
MatchesExactly(bindings, symbol, match) ==
  /\ match.symbols # {} => symbol.id \in match.symbols
  /\ match.implements # {} => \E i \in match.implements : <<i, symbol.id>> \in bindings
  /\ MatchesProperties(symbol, match)

Matches(bindings, symbol, match) ==
  MatchesGlobFields(symbol, match) /\ MatchesExactly(bindings, symbol, match)

\* The error of Matches: some glob is malformed, whatever the symbol.
InvalidGlobs(match) == \E f \in GlobFields : \E p \in match[f] : ~WellFormed(p)

\* Match.IsEmpty of src/internal/model/policy.go.
IsEmpty(match) == match = NoCriteria

-----------------------------------------------------------------------------
(* What "**" means, without the search: the pattern cuts the value into    *)
(* consecutive runs, one per part.                                         *)
Covers(pattern, value) ==
  \E cut \in [0..Len(pattern) -> 0..Len(value)] :
    /\ cut[0] = 0 /\ cut[Len(pattern)] = Len(value)
    /\ \A i \in DOMAIN pattern :
         IF pattern[i].kind = "**" THEN cut[i] >= cut[i - 1]
         ELSE cut[i] = cut[i - 1] + 1 /\ value[cut[i]] \in pattern[i].accepts

\* Matches, read that way.
Selects(bindings, symbol, match) ==
  /\ \A f \in GlobFields :
       LET value == FieldValue(symbol)[f] IN
       match[f] # {} => value # <<>> /\ \E p \in match[f] : Covers(p, value)
  /\ MatchesExactly(bindings, symbol, match)

=============================================================================
