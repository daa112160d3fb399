SPECIFICATION Spec
CONSTANTS
  u1 = u1
  u2 = u2
  u3 = u3
  A = A
  B = B
  Opened = Opened
  Moved = Moved
  accountA = accountA
  accountB = accountB
  EventType = {Opened, Moved}
  Tag = {A, B}
  Task = {u1}
  StateKey = {accountA, accountB}
  QueryOf <- MCQueryOf
  Folds <- MCFolds
  RawQuery <- MCRawQuery
  Hooks <- MCHooks
  Appendable <- MCAppendable
  MaxReads <- MCMaxReads
  MaxAppends = 1
  MaxStoring = 2
INVARIANT LoadSeesOwnWrites
CHECK_DEADLOCK FALSE
