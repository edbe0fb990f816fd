CONSTANTS
  Nodes = {0, 1}
  Users = {1, 2}
  Sysops = {1}
  Amounts = {1}
  account_overdraft_limit = 3
  MaxMoves = 2
SPECIFICATION Spec
VIEW WhatMatters
CONSTRAINT Bounded
INVARIANTS
  AccountsInOrder
CHECK_DEADLOCK FALSE
