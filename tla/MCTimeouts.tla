----------------------------- MODULE MCTimeouts -----------------------------
\* Small instances of Timeouts.
EXTENDS Timeouts

ZeroCommandsOne == {<<0, 1>>}
ZeroCommandsZero == {<<0, 0>>}
OneUser         == [n \in {0} |-> {0, 3}]
GodAndUser      == [n \in {0, 1} |-> IF n = 0 THEN {0} ELSE {0, 1}]
OnlyKill        == {"KILL"}
AllActions      == {"KILL", "RELOG", "LINEOUT"}
OneMinute       == {1}
TwoMinutes      == {1, 2}
=============================================================================
