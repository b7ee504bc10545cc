------------------------------ MODULE ClientApp ------------------------------
(***************************************************************************)
(* The client program (tuna_cli/core/main.cpp, client_code/client.cpp):    *)
(* its connection, the prompts, the packet loss it emulates on the host's  *)
(* interface with tc, the background traffic thread of TrafficGenerator,   *)
(* and the cleanup.  Several programs may run on one host; they share the  *)
(* interface, which keeps its queueing discipline when a program dies.     *)
(*                                                                         *)
(* What the server makes of the messages is left to SessionServer and      *)
(* UdpExchange: here a request is answered, or is not.                     *)
(***************************************************************************)
EXTENDS Integers

CONSTANTS
    Progs,      \* client programs on one host
    Answers,    \* the numbers typed at the packet drop prompt
    NoLoss,     \* the interface without a netem discipline
    Kills       \* whether a program may be killed, or die of SIGPIPE

ASSUME AnswersAssumption == Answers \subseteq Int
ASSUME NoLossAssumption  == NoLoss \notin Int
ASSUME KillsAssumption   == Kills \in BOOLEAN

VARIABLES
    at,         \* where start_transmission is
    p_drop_val, \* its local of that name
    running,    \* TrafficGenerator::running
    worker,     \* TrafficGenerator::worker_thread
    eof,        \* standard input has ended
    qdisc,      \* the loss emulated on the interface, or NoLoss
    tcFails,    \* the commands of tc that may fail: sudo refuses, no netem
    asked,      \* history: the answer at the drop prompt
    disturbed   \* history: the program was not alone with a clean interface

vars == <<at, p_drop_val, running, worker, eof, qdisc, tcFails, asked, disturbed>>

Chatting == {"chat", "chatWaits", "stopping", "joining"}
Ats      == Chatting \cup {"down", "connecting", "auth", "authWaits", "dropPrompt", "deleting",
                           "adding", "bgPrompt", "cleaning", "leaving"}

\* Type invariant: each program is at one prompt or on its way out, its loss a
\* percentage, whatever number was typed (client.cpp:133-150).
AppTypeOK ==
    /\ at \in [Progs -> Ats]
    /\ p_drop_val \in [Progs -> 0..100]
    /\ running \in [Progs -> BOOLEAN]
    /\ worker \in [Progs -> {"none", "checking", "sending", "finished"}]
    /\ eof \in [Progs -> BOOLEAN]
    /\ qdisc \in 0..100 \cup {NoLoss}
    /\ tcFails \subseteq {"add", "del"}
    /\ asked \in [Progs -> Answers \cup {0}]
    /\ disturbed \in [Progs -> BOOLEAN]

Init ==
    /\ at = [p \in Progs |-> "down"]
    /\ p_drop_val = [p \in Progs |-> 0]
    /\ running = [p \in Progs |-> FALSE]
    /\ worker = [p \in Progs |-> "none"]
    /\ eof = [p \in Progs |-> FALSE]
    /\ qdisc = NoLoss
    /\ tcFails \in SUBSET {"add", "del"}
    /\ asked = [p \in Progs |-> 0]
    /\ disturbed = [p \in Progs |-> FALSE]

Goes(p, from, to) == at[p] = from /\ at' = [at EXCEPT ![p] = to]

generator == <<running, worker>>
loss      == <<p_drop_val, qdisc, asked>>

\* The locals of a program that is gone.
Forgets(p) == /\ p_drop_val' = [p_drop_val EXCEPT ![p] = 0]
              /\ asked' = [asked EXCEPT ![p] = 0]
              /\ eof' = [eof EXCEPT ![p] = FALSE]

-----------------------------------------------------------------------------
(* Launch and login. *)

Launch(p) ==
    /\ Goes(p, "down", "connecting")
    /\ disturbed' = [q \in Progs |->
           IF q = p THEN qdisc # NoLoss \/ \E r \in Progs \ {p} : at[r] # "down"
           ELSE disturbed[q] \/ at[q] # "down"]
    /\ UNCHANGED <<generator, loss, eof, tcFails>>

\* connectTo returns: no socket, an address that is none, nobody at the port.
ConnectFails(p) ==
    /\ Goes(p, "connecting", "leaving")
    /\ UNCHANGED <<generator, loss, eof, disturbed, tcFails>>

Connected(p) ==
    /\ Goes(p, "connecting", "auth")
    /\ UNCHANGED <<generator, loss, eof, disturbed, tcFails>>

\* A choice that cannot be read is asked for again, for ever at end of input.
AskAuth(p) ==
    /\ ~eof[p]
    /\ Goes(p, "auth", "authWaits")
    /\ UNCHANGED <<generator, loss, eof, disturbed, tcFails>>

ChooseExit(p) ==
    /\ ~eof[p]
    /\ Goes(p, "auth", "leaving")
    /\ UNCHANGED <<generator, loss, eof, disturbed, tcFails>>

AuthAnswered(p) ==
    /\ Goes(p, "authWaits", "auth") \/ Goes(p, "authWaits", "dropPrompt")
    /\ UNCHANGED <<generator, loss, eof, disturbed, tcFails>>

-----------------------------------------------------------------------------
(* The emulated packet loss. *)

\* Mutant: the upper limit is not applied.
Limited_Below(v) == IF v <= 0 THEN 0 ELSE v

Limited(v) == IF v >= 100 THEN 100 ELSE IF v <= 0 THEN 0 ELSE v

\* was_here_already is set by an answer at or past a limit.
AnswerDrop(p, v) ==
    /\ ~eof[p]
    /\ Goes(p, "dropPrompt", IF v \in 1..99 THEN "adding" ELSE "deleting")
    /\ p_drop_val' = [p_drop_val EXCEPT ![p] = Limited(v)]
    /\ asked' = [asked EXCEPT ![p] = v]
    /\ UNCHANGED <<generator, qdisc, eof, disturbed, tcFails>>

\* stoi of a word that is no number, or of no word at all, throws, and nothing
\* catches it.
AnswerNonsense(p) ==
    /\ Goes(p, "dropPrompt", "down")
    /\ Forgets(p)
    /\ UNCHANGED <<generator, qdisc, disturbed, tcFails>>

\* tc qdisc del dev ... root, or the interface as it was.  Neither here nor
\* below is the result of system() looked at.
Deletes == qdisc' = NoLoss \/ ("del" \in tcFails /\ UNCHANGED qdisc)

DeleteOld(p) ==
    /\ Goes(p, "deleting", "adding")
    /\ Deletes
    /\ UNCHANGED <<generator, p_drop_val, asked, eof, disturbed, tcFails>>

\* tc qdisc add dev ... root netem loss: fails where there is one already.
AddLoss(p) ==
    /\ Goes(p, "adding", "bgPrompt")
    /\ \/ qdisc' = IF qdisc = NoLoss THEN p_drop_val[p] ELSE qdisc
       \/ "add" \in tcFails /\ UNCHANGED qdisc
    /\ UNCHANGED <<generator, p_drop_val, asked, eof, disturbed, tcFails>>

-----------------------------------------------------------------------------
(* The background traffic. *)

\* setup and start.  At end of input run_bg is read without a value.
StartBackground(p) ==
    /\ Goes(p, "bgPrompt", "chat")
    /\ running' = [running EXCEPT ![p] = TRUE]
    /\ worker' = [worker EXCEPT ![p] = "checking"]
    /\ UNCHANGED <<loss, eof, disturbed, tcFails>>

\* The answer is no, or setup has failed.
NoBackground(p) ==
    /\ Goes(p, "bgPrompt", "chat")
    /\ UNCHANGED <<generator, loss, eof, disturbed, tcFails>>

\* while (running) ...
WorkerChecks(p) ==
    /\ worker[p] = "checking"
    /\ worker' = [worker EXCEPT ![p] = IF running[p] THEN "sending" ELSE "finished"]
    /\ UNCHANGED <<at, loss, running, eof, disturbed, tcFails>>

\* sendto, whatever its result.
WorkerSends(p) ==
    /\ worker[p] = "sending"
    /\ worker' = [worker EXCEPT ![p] = "checking"]
    /\ UNCHANGED <<at, loss, running, eof, disturbed, tcFails>>

-----------------------------------------------------------------------------
(* The chat and the way out. *)

Say(p) ==
    /\ ~eof[p]
    /\ Goes(p, "chat", "chatWaits")
    /\ UNCHANGED <<generator, loss, eof, disturbed, tcFails>>

\* An answer or none: the loop goes on.
ChatAnswered(p) ==
    /\ Goes(p, "chatWaits", "chat")
    /\ UNCHANGED <<generator, loss, eof, disturbed, tcFails>>

\* q, an empty line (which is also what getline leaves at end of input), or a
\* failed transmission.
LeaveChat(p) ==
    /\ Goes(p, "chat", "stopping")
    /\ UNCHANGED <<generator, loss, eof, disturbed, tcFails>>

\* Mutant: the flag is not reset.
ResetRunning_Kept(p) == running

ResetRunning(p) == [running EXCEPT ![p] = FALSE]

Stop(p) ==
    /\ Goes(p, "stopping", "joining")
    /\ running' = ResetRunning(p)
    /\ UNCHANGED <<worker, loss, eof, disturbed, tcFails>>

\* Mutant: stop() does not wait for the thread.
Joinable_Always(p) == TRUE

Joinable(p) == worker[p] \in {"none", "finished"}

Join(p) ==
    /\ Joinable(p)
    /\ Goes(p, "joining", "cleaning")
    /\ worker' = [worker EXCEPT ![p] = IF @ = "finished" THEN "none" ELSE @]
    /\ UNCHANGED <<running, loss, eof, disturbed, tcFails>>

\* Mutant: the discipline stays.
CleanUp_Forgotten(p) ==
    /\ Goes(p, "cleaning", "leaving")
    /\ UNCHANGED <<generator, loss, eof, disturbed, tcFails>>

CleanUp(p) ==
    /\ Goes(p, "cleaning", "leaving")
    /\ Deletes
    /\ UNCHANGED <<generator, p_drop_val, asked, eof, disturbed, tcFails>>

\* main returns; ~TrafficGenerator calls stop() again.
End(p) ==
    /\ Goes(p, "leaving", "down")
    /\ running' = [running EXCEPT ![p] = FALSE]
    /\ Forgets(p)
    /\ UNCHANGED <<worker, qdisc, disturbed, tcFails>>

Kill(p) ==
    /\ Kills
    /\ at[p] # "down"
    /\ at' = [at EXCEPT ![p] = "down"]
    /\ running' = [running EXCEPT ![p] = FALSE]
    /\ worker' = [worker EXCEPT ![p] = "none"]
    /\ disturbed' = [disturbed EXCEPT ![p] = TRUE]
    /\ Forgets(p)
    /\ UNCHANGED <<qdisc, tcFails>>

InputEnds(p) ==
    /\ at[p] # "down"
    /\ eof' = [eof EXCEPT ![p] = TRUE]
    /\ UNCHANGED <<at, generator, loss, disturbed, tcFails>>

-----------------------------------------------------------------------------

\* Steps for which the user has something to type.
UserStep(p) ==
    \/ Launch(p) \/ AskAuth(p) \/ ChooseExit(p) \/ Say(p) \/ InputEnds(p)
    \/ \E v \in Answers : AnswerDrop(p, v)

\* Steps the program takes by itself, or after its input has ended.
ProgramStep(p) ==
    \/ ConnectFails(p) \/ Connected(p) \/ AuthAnswered(p) \/ DeleteOld(p) \/ AddLoss(p)
    \/ ChatAnswered(p) \/ Stop(p) \/ Join(p) \/ CleanUp(p) \/ End(p)

PromptStep(p) ==
    AnswerNonsense(p) \/ StartBackground(p) \/ NoBackground(p) \/ LeaveChat(p)

WorkerStep(p) == WorkerChecks(p) \/ WorkerSends(p)

Next == \E p \in Progs : \/ UserStep(p) \/ ProgramStep(p) \/ PromptStep(p)
                         \/ WorkerStep(p) \/ Kill(p)

\* The two threads are scheduled; recieve returns (EveryRequestEnds of
\* SessionServer; at once over UDP); at end of input a prompt does not wait.
Fairness ==
    \A p \in Progs : /\ WF_vars(ProgramStep(p))
                     /\ WF_vars(eof[p] /\ PromptStep(p))
                     /\ WF_vars(WorkerStep(p))

Spec == Init /\ [][Next]_vars /\ Fairness

-----------------------------------------------------------------------------
(* Properties. *)

\* The traffic thread lives only between the background prompt and the join:
\* no path, the destructor's second stop() included, destroys a std::thread
\* that still runs, nor floods the server after the chat.
NoThreadOutlives ==
    \A p \in Progs : worker[p] # "none" => at[p] \in Chatting

Nearest(v) == CHOOSE w \in 0..100 :
                 \A x \in 0..100 : (w - v) * (w - v) <= (x - v) * (x - v)

\* While a program that is alone on a host chats, the interface loses the
\* percentage its user asked for, or the nearest that exists
\* (README.md:55-56), where tc can add a discipline, and also where it cannot
\* delete one.
LosesAsAsked ==
    "add" \notin tcFails => \A p \in Progs :
        ~disturbed[p] /\ at[p] \in Chatting \cup {"bgPrompt"} =>
                        qdisc = Nearest(asked[p])

\* A program that was alone leaves the interface as it found it, whichever
\* way it ends short of a kill (exit, nonsense at a prompt, end of input),
\* where tc can delete a discipline.
LeavesNoTrace ==
    "del" \notin tcFails => \A p \in Progs :
        ~disturbed[p] /\ at[p] = "down" =>
                        \/ qdisc = NoLoss
                        \/ \E q \in Progs \ {p} : at[q] # "down" \/ disturbed[q]

\* Who leaves the chat gets out, although stop() waits for the other thread;
\* so does a program past its login whose input has ended.
LeavesInTheEnd ==
    \A p \in Progs :
        (\/ at[p] \in {"stopping", "joining"}
         \/ eof[p] /\ at[p] \in Chatting \cup {"dropPrompt", "bgPrompt"}) ~> at[p] = "down"
=============================================================================
