----------------------------- MODULE MCServerHost -----------------------------
(* A TCP and a UDP server, and two names, one of them with two passwords. *)
EXTENDS ServerHost

CONSTANTS Tcp, Udp, Thread1

Account(name, pass) == [username |-> name, password |-> pass]

Logins  == {Account(<<97>>, <<120>>), Account(<<97>>, <<121, 58, 121>>),
              Account(<<98>>, <<120>>)}

TwoSrv    == {Tcp, Udp}
OneThread == {Thread1}
OwnPort   == [p \in Procs |-> p]
\* Nothing fails, or streams do not open.
OpenFaults == {{}, {"openFails"}}
=============================================================================
