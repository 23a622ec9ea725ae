---------------------------- MODULE MCBuildPipeline ----------------------------
(***************************************************************************)
(* A project of three local modules.  The application and the library      *)
(* refer to one another; version 1 of the library refers to a third module *)
(* as well, version 1 of the application requires more of the API than the *)
(* generated runtime pins, version 1 of the third module requires another  *)
(* logger and less of the API.  The third module supplies no package, and  *)
(* the API only to version 1 of the application.                           *)
(***************************************************************************)
EXTENDS BuildPipeline

MCReplaces(m, v) ==
  CASE m = "app"            -> {"lib"}
    [] m = "lib" /\ v # 1   -> {"app"}
    [] m = "lib" /\ v = 1   -> {"app", "third"}
    [] m = "third"          -> {}

MCRequires(m, v) ==
  CASE m = "app" /\ v = 1   -> {[path |-> "api", version |-> 2]}
    [] m = "third" /\ v = 1 -> {[path |-> "log", version |-> 2], [path |-> "api", version |-> 0]}
    [] OTHER                -> {[path |-> "log", version |-> 1]}

MCLoads(s) == {"app", "lib", "log"} \cup {path \in {"api"} : s["app"] = 1}

MCRuntimeRequires == {[path |-> "api", version |-> 1]}

\* The lock records the state of the library and nothing else.
MCResolution(s) == IF s["lib"] = 1 THEN "with third" ELSE "without"

MCOutputLists == {<<"server", "tool">>, <<"main.go">>, <<>>}
=============================================================================
