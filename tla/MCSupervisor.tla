---------------------------- MODULE MCSupervisor ----------------------------
\* Small instances of Supervisor.
EXTENDS Supervisor

CONSTANTS p1, p2, p3

MCPids == {p1, p2, p3}

Port(type, works, fork_fails) ==
  [type |-> type, works |-> works, fork_fails |-> fork_fails]

Ports(first, second) == [d \in {0, 1} |-> IF d = 0 THEN first ELSE second]

\* A console that cannot be opened, and a device for calls, whose assistants
\* may fail to start; a modem and a console; two consoles that cannot be
\* opened, with too few processes.
MCConfigurations ==
  {Ports(Port("DIRECT", FALSE, FALSE), Port("SERIAL", TRUE, TRUE)),
   Ports(Port("MODEM", TRUE, FALSE), Port("DIRECT", TRUE, FALSE)),
   Ports(Port("DIRECT", FALSE, TRUE), Port("DIRECT", FALSE, FALSE))}
=============================================================================
