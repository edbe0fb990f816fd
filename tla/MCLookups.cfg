CONSTANTS
  Record <- MCRecord
  Order <- MCOrder
  Key <- MCKey
  Table <- MCTable
  Word <- MCWord
  MAX_INDEXES = 2
  MaxRecords = 5
  Nodes = 2
  Bound = 3
SPECIFICATION LookupSpec
INVARIANTS
  TokenTypeOK
  EntriesFound
  TokensFound
  ListInvariant
  TypeOK
  SquelchesMeant
PROPERTIES
  SearchEnds
  ImplementsTable
  AnswersEnd
CHECK_DEADLOCK FALSE
