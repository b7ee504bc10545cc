---------------------------- MODULE MCUdpExchange ----------------------------
(* UdpExchange with one client and one name with two passwords. *)
EXTENDS UdpExchange

CONSTANT Client1

Account(name, pass) == [username |-> name, password |-> pass]

TwoCreds   == {Account(<<97>>, <<120>>), Account(<<97>>, <<121>>)}

OneSrv     == {Srv}
OneLoop    == {Loop}
OneClient  == {Client1}
OnePort    == [p \in Procs |-> "udp"]
Denied     == {{"bindDenied"}}
NoNetFaults == {}
=============================================================================
