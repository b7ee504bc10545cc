--------------------------- MODULE MCUserDatabase ---------------------------
(***************************************************************************)
(* UserDatabase on small instances: two names, one the beginning of the    *)
(* other and with two passwords; one or two server processes.              *)
(***************************************************************************)
EXTENDS UserDatabase

CONSTANTS Srv1, Srv2, Thread1, Thread2

Account(name, pass) == [username |-> name, password |-> pass]

\* Storable, of different lengths, one name the beginning of another.
PlainCreds == {Account(<<97>>, <<120>>), Account(<<97>>, <<121, 58, 121>>),
               Account(<<97, 98>>, <<120>>)}

OneSrv     == {Srv1}
TwoSrv     == {Srv1, Srv2}
OneThread  == {Thread1}
TwoThreads == {Thread1, Thread2}

SamePort   == [p \in Procs |-> "tcp"]

NoFaults   == {{}}
\* Binds that are denied, alone, with streams that do not open, and with all.
SomeFaults == {{"bindDenied"}, {"bindDenied", "openFails"}, AllFaults}
=============================================================================
