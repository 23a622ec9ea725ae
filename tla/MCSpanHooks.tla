------------------------------ MODULE MCSpanHooks ------------------------------
(* Two goroutines and one or two functions, over the plan entries that can    *)
(* meet: nested and recursive calls, several error results, methods that      *)
(* panic and plan entries RenderHooks has to refuse.                          *)
EXTENDS SpanHooks

CONSTANTS load, save

MCResults  == {1, 2}
MCFailures == {{1}, {1, 2}}

Entry(context, errors, arguments, results) ==
  [selected |-> TRUE, context |-> context, generic |-> FALSE, shadowed |-> FALSE,
   errors |-> errors, arguments |-> arguments, results |-> results]

Plain == [Entry("root", <<>>, 0, 0) EXCEPT !.selected = FALSE]

MCTargets(fn) ==
  IF fn = load
  THEN {Entry("argument", <<1, 2>>, 0, 0),
        Entry("argument", <<2, 2>>, 0, 0),
        [Entry("root", <<1>>, 0, 1) EXCEPT !.generic = TRUE],
        [Entry("argument", <<>>, 0, 0) EXCEPT !.generic = TRUE]}
  ELSE {Plain,
        Entry("argument", <<2>>, 1, 0),
        [Entry("root", <<>>, 0, 0) EXCEPT !.shadowed = TRUE]}
================================================================================
