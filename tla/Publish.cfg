\* Three rivals and two files: a rival can come and go between any two steps of
\* another, and a build has a state in which part of it is written.
SPECIFICATION Spec
CONSTANTS
  Publishers = {p1, p2, p3}
  Files = {results, table}
  None = None
INVARIANTS
  TypeOK
  ResultIsWhole
  NothingLeft
  OneSucceeds
PROPERTIES
  PublishedOnce
\* Every call ends.
CHECK_DEADLOCK FALSE
