\* Every kind of configuration; the process may die at any step.
SPECIFICATION Spec
CONSTANTS
  first = first
  second = second
  unknown = unknown
  path = path
  borrowing = borrowing
  reversed = reversed
  a1 = a1
  a2 = a2
  b1 = b1
  v = v
  s1 = s1
  s2 = s2
  s3 = s3
  Config = {first, second, unknown, path, borrowing, reversed}
  EventType = {a1, a2, b1}
  Statement = {v, s1, s2, s3}
  Name <- SomeNames
  NameOf <- NameTable
  Ins <- InTable
  Outs <- OutTable
  Statements <- StatementTable
  Uses <- UseTable
  Needs <- NeedTable
  BadPath = {path}
  None = None
  Partial = Partial
INVARIANTS TypeOK CreatedIsInForce RejectedRestoresEngine RestartReloads
PROPERTIES PersistedOnceApplied
