--------------------------- MODULE MCSessionServer ---------------------------
(* SessionServer with two connections and one name with two passwords. *)
EXTENDS SessionServer

CONSTANTS Thread1, Thread2

Account(name, pass) == [username |-> name, password |-> pass]

TwoCreds   == {Account(<<97>>, <<120>>), Account(<<97>>, <<121>>)}
OneCred    == {Account(<<97>>, <<120>>)}

OneSrv     == {Srv}
TwoThreads == {Thread1, Thread2}
OnePort    == [p \in Procs |-> "tcp"]
NoFaults   == {{}}
\* The process may not bind its port, and saves.
Denied     == {{"bindDenied"}}
=============================================================================
