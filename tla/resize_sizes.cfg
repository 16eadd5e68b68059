CONSTANTS
  Page = 8
  Word = 64
  SizeType = "i64"
  Dynamic = Dynamic
  Modulus <- MCModulus
  Functions <- MCFunctions
SPECIFICATION Spec
INVARIANT
  TypeOK
  SizesArePages
  EnoughIsAllocated
  ExpectedPrototypesNeverAbort
