SPECIFICATION Spec
CONSTANTS
  Words <- MCWords
  Width = 4
  W = 4
  Masked <- MCMasked
  MaxUnmanaged = 2
INVARIANT TestAllExact
