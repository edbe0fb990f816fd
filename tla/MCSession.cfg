SPECIFICATION SessionSpec
CONSTANTS
  Node = {n1, n2}
  me = n1
  Channel = {main, games}
  MAIN = main
  NoChannel = none
  Classes <- MCClasses
  DefaultMaxLineout = 1
  MinMaxLineout = 1
  MaxMaxLineout = 1
  Limits = {}
  LineoutBound = 1
  UpBound = 3
  DownBound = 2
CONSTRAINT Bounded
VIEW WhatMatters
INVARIANTS
  SeatsKnown
  NeverLostSilently
CHECK_DEADLOCK FALSE
