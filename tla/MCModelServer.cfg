\* Two callers, two models and one load of them.
SPECIFICATION FairSpec
CONSTANTS
  Names = {a, b}
  Callers = {c1, c2}
  NoName = NoName
  MaxVersions = 2
INVARIANTS
  ShutdownIsOrderly
PROPERTIES
  AnswersAreCurrent
  IndexIsRight
  EverythingEnds
