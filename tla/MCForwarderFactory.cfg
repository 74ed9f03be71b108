CONSTANTS
  c1 = c1
  c2 = c2
  c3 = c3
  s1 = s1
  s2 = s2
  s3 = s3
  Caller <- Callers
  Type <- Types
  ChainId <- Chains
  Protection <- Kinds
  Signer <- Signers
  AddressOf <- Address
  None = None
SPECIFICATION Spec
INVARIANT SameInstance
INVARIANT SignedOnce
INVARIANT BuiltAsAsked
CHECK_DEADLOCK FALSE
