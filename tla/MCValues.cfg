SPECIFICATION CallSpec
CONSTANTS
  a = a
  b = b
  root = root
  Root = root
  Obj <- MCObj
  NameSeq <- MCNames
  Words <- MCWords
  Policies <- MCPolicies
  Levels <- MCLevels
  Fields <- MCFields
  Heaps <- MCHeaps
  Bindings <- MCBindings
  MaxStack = 4
  Budgets = {5, 13, 26, 39, 52}
  StringLength = 3
  ByteBits = 4
  WordBytes = 3
  Contexts <- MCContexts
  Integral <- MCIntegral
  Words64 <- MCWords64
  Typed <- MCTyped
  Decimals <- MCDecimals
  MaxAmount = 900000000
  Balances <- MCBalances
  MaxDigits = 9
INVARIANTS
  LineIsRedactedCopy
  PayloadVerdict
  ReadsBack
  AmountRoundTrip
