SPECIFICATION LiveSpec
CONSTANTS
  Modules = {"app", "lib", "third"}
  Main = {"app"}
  Versions = {0, 1}
  Replaces <- MCReplaces
  Requires <- MCRequires
  Loads <- MCLoads
  RuntimeRequires <- MCRuntimeRequires
  Resolution <- MCResolution
  Executables = {"pinned", "other"}
  Pinned = {"pinned"}
  OutputLists <- MCOutputLists
  Protected = {"main.go"}
  MaxEdits = 2
  MaxMeddling = 2
INVARIANTS
  TypeOK
  SelectionKept
  BackendVerified
  PublishedVerified
  AnswerMatches
PROPERTIES
  ReplacesRegularOnly
  Finishes
CHECK_DEADLOCK FALSE
