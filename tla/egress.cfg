SPECIFICATION Spec
CONSTANTS
  com = com
  site = site
  api = api
  Names <- MCNames
  Addresses <- MCAddresses
  Allowlists <- MCAllowlists
  Answers <- MCAnswers
  MaxHops = 1
CHECK_DEADLOCK FALSE
INVARIANT TypeOK
INVARIANT OnlyGlobalReached
INVARIANT RefusedForCause
INVARIANT ReachedAsChecked
