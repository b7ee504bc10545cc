------------------------------ MODULE ServerHost ------------------------------
(***************************************************************************)
(* Server processes of several protocols on one host (core/main.cpp and    *)
(* start_transmission): their ports differ, but they share users_db.txt    *)
(* and the noise port 9999.  Each starts its sink before it serves its     *)
(* first client.                                                           *)
(***************************************************************************)
EXTENDS UserDatabase

CONSTANT RcvBuf     \* bound: the datagrams the kernel keeps for port 9999

ASSUME RcvBufAssumption == RcvBuf \in Nat \ {0}

VARIABLES sink, noise

Sink == INSTANCE TrafficSink

hostVars == <<dbVars, sink, noise>>

HostInit == Init /\ Sink!Init

StartSink(p) == /\ phase[p] = "serving"
                /\ Sink!Start(p)
                /\ UNCHANGED dbVars

\* bg_sink.start has returned, whatever it returned.
Serve(p, t) == /\ sink[p] # "new"
               /\ Calls(p, t)
               /\ UNCHANGED <<sink, noise>>

\* bg_sink is a member of a Server that has not started it.
Launch(p) == /\ \/ Construct(p) \/ BindSucceeds(p) \/ BindFails(p)
                \/ SaveTruncates(p) \/ SaveLine(p) \/ SaveCloses(p) \/ SaveCannotOpen(p)
             /\ UNCHANGED <<sink, noise>>

ProcessEnds(p) == Kill(p) /\ Sink!Vanish(p)

Discard(p) == Sink!Receive(p) /\ UNCHANGED dbVars

NoiseArrives == Sink!Arrive /\ UNCHANGED dbVars

HostNext ==
    \/ NoiseArrives
    \/ \E p \in Procs : \/ Launch(p) \/ StartSink(p) \/ ProcessEnds(p) \/ Discard(p)
                        \/ \E t \in Threads : Serve(p, t)

\* The sink's thread is one of the operating system's, which runs a thread
\* that can run.
HostSpec == HostInit /\ [][HostNext]_hostVars /\ \A p \in Procs : WF_hostVars(Discard(p))

-----------------------------------------------------------------------------
(* Properties. *)

\* As long as every server may bind its port, an account any of them has
\* reported as created stays on the shared file, whatever the others do there:
\* registerUser appends, and a process that has bound its port never saves the
\* map it loaded at its launch.  The next launch knows its name, under a
\* password one of them was asked to register for it.
GrantsStayOnFile ==
    faults = {} => \A u \in granted :
        /\ \E line \in Kept(file) : line.user = u
        /\ \E v \in granted : v.username = u.username /\ Matches(Load(file), v)

\* As long as every server may bind its port, no account is made up and no
\* password moved to another name by several servers that load and append to
\* one file, each under a db_mutex of its own, whatever streams do not open.
\* (A server that may not bind saves its map over what others have appended
\* since, at offsets that may lie within their lines.)
SharingMakesNothingUp == "bindDenied" \notin faults => OnlyRegistered

\* The noise of the clients' generators does not fill the buffer for good:
\* whoever holds the port discards what arrives, until it is killed.
NoiseIsDrained == Len(noise) = RcvBuf ~> Len(noise) < RcvBuf
=============================================================================
