--------------------------- MODULE AccountRegistry ---------------------------
(***************************************************************************)
(* What the user database promises its callers: a durable table of         *)
(* accounts that is only ever added to.  A registration takes effect at    *)
(* one instant, and answers TRUE exactly when the name was free; a login   *)
(* is answered from the table at one instant.  A restart loses the answers *)
(* that were not yet collected and nothing else.                           *)
(***************************************************************************)
CONSTANTS Threads, Creds

VARIABLES
    accounts,   \* function from names to passwords
    reply       \* the answer each thread has not collected yet

vars == <<accounts, reply>>

None == [at |-> "none"]

Answer(what, u, ok) == [at |-> what, user |-> u, ok |-> ok]

Init == /\ accounts = [name \in {} |-> <<>>]
        /\ reply = [t \in Threads |-> None]

Create(t, u) ==
    /\ reply[t] = None
    /\ u.username \notin DOMAIN accounts
    /\ accounts' = [name \in DOMAIN accounts \cup {u.username} |->
                       IF name = u.username THEN u.password ELSE accounts[name]]
    /\ reply' = [reply EXCEPT ![t] = Answer("registered", u, TRUE)]

Refuse(t, u) ==
    /\ reply[t] = None
    /\ u.username \in DOMAIN accounts
    /\ reply' = [reply EXCEPT ![t] = Answer("registered", u, FALSE)]
    /\ UNCHANGED accounts

LogIn(t, u) ==
    /\ reply[t] = None
    /\ reply' = [reply EXCEPT ![t] =
           Answer("authenticated", u, /\ u.username \in DOMAIN accounts
                                      /\ accounts[u.username] = u.password)]
    /\ UNCHANGED accounts

Collect(t) ==
    /\ reply[t] # None
    /\ reply' = [reply EXCEPT ![t] = None]
    /\ UNCHANGED accounts

Restart == /\ reply' = [t \in Threads |-> None]
           /\ UNCHANGED accounts

Next == \/ Restart
        \/ \E t \in Threads : \/ Collect(t)
                              \/ \E u \in Creds : Create(t, u) \/ Refuse(t, u) \/ LogIn(t, u)

Spec == Init /\ [][Next]_vars
=============================================================================
