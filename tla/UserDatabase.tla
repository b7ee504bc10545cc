---------------------------- MODULE UserDatabase ----------------------------
(***************************************************************************)
(* DatabaseManager (tuna_srv/core) in the server processes that share one  *)
(* users_db.txt: its construction, registerUser and authenticate called    *)
(* by the session threads under db_mutex, and the destructor that saves.   *)
(*                                                                         *)
(* A serving process never leaves start_transmission, so the destructor    *)
(* runs only in a process whose bind failed; every other process ends by a *)
(* kill.                                                                   *)
(***************************************************************************)
EXTENDS UserStore

CONSTANTS
    Procs,      \* server processes, launched any number of times
    Threads,    \* session threads of a process
    NoThread,   \* nobody holds the mutex
    Port,       \* [Procs -> ports]: tcp, sctp and udp bind separate ports
    Creds,      \* the credentials the sessions pass in
    Faults,     \* sets of faults, one of which a behaviour may meet
    MaxBytes    \* bound: no registration starts on a file of so many bytes

\* A process may not bind its port (no root, no SCTP in the kernel), a stream
\* on users_db.txt may not open, and a signal may arrive within save().
AllFaults == {"bindDenied", "openFails", "killInSave"}

ASSUME NoThreadAssumption == NoThread \notin Threads
ASSUME CredsAssumption    == Creds \subseteq User
ASSUME FaultsAssumption   == Faults \subseteq SUBSET AllFaults
ASSUME MaxBytesAssumption == MaxBytes \in Nat

VARIABLES
    phase,      \* where main() of a process is
    users,      \* the map in memory
    db_mutex,   \* the thread in a critical section of more than one step
    call,       \* the DatabaseManager call each thread is in
    file,       \* the bytes of users_db.txt
    out,        \* the stream save() writes through in each process
    granted,    \* history: the users for whom registerUser returned true
    faults      \* the faults this behaviour may meet, chosen once

dbVars == <<phase, users, db_mutex, call, file, out, granted, faults>>

Phases == {"down", "loaded", "serving", "failed", "saving"}

Idle       == [at |-> "idle"]
Busy       == [at : {"inserting", "appending"}, user : Creds]
Returned   == [at : {"registered", "authenticated"}, user : Creds, ok : BOOLEAN]

\* The names whose lines were inserted, what of them has not reached the file,
\* and the offset of the next write.
Stream == [written : SUBSET Text, buffer : Seq(Byte), pos : Nat]
ClosedStream == [written |-> {}, buffer |-> <<>>, pos |-> 0]

\* Type invariant: every map in memory is a finite function from names to
\* passwords, and a thread is in at most one call of the DatabaseManager.
TypeOK ==
    /\ phase \in [Procs -> Phases]
    /\ users = [p \in Procs |-> users[p]]
    /\ \A p \in Procs : IsUserMap(users[p])
    /\ db_mutex \in [Procs -> Threads \cup {NoThread}]
    /\ call \in [Procs -> [Threads -> {Idle} \cup Busy \cup Returned]]
    /\ file \in Seq(Byte)
    /\ out \in [Procs -> Stream]
    /\ granted \subseteq Creds
    /\ faults \in Faults

Init ==
    /\ phase = [p \in Procs |-> "down"]
    /\ users = [p \in Procs |-> EmptyMap]
    /\ db_mutex = [p \in Procs |-> NoThread]
    /\ call = [p \in Procs |-> [t \in Threads |-> Idle]]
    /\ file = <<>>
    /\ out = [p \in Procs |-> ClosedStream]
    /\ granted = {}
    /\ faults \in Faults

-----------------------------------------------------------------------------
(* Life of a process: construction, bind, and the two ways to end. *)

\* Mutant: the constructor does not load.
Construct_NoLoad(p) ==
    /\ phase[p] = "down"
    /\ phase' = [phase EXCEPT ![p] = "loaded"]
    /\ UNCHANGED <<users, db_mutex, call, file, out, granted, faults>>

\* Server::Server constructs db_manager, whose constructor loads the file,
\* or goes on without it when it does not open.
Construct(p) ==
    /\ phase[p] = "down"
    /\ phase' = [phase EXCEPT ![p] = "loaded"]
    /\ \/ users' = [users EXCEPT ![p] = Load(file)]
       \/ "openFails" \in faults /\ UNCHANGED users
    /\ UNCHANGED <<db_mutex, call, file, out, granted, faults>>

PortTaken(p) == \E q \in Procs : phase[q] = "serving" /\ Port[q] = Port[p]

BindSucceeds(p) ==
    /\ phase[p] = "loaded"
    /\ ~PortTaken(p)
    /\ phase' = [phase EXCEPT ![p] = "serving"]
    /\ UNCHANGED <<users, db_mutex, call, file, out, granted, faults>>

BindFails(p) ==
    /\ phase[p] = "loaded"
    /\ PortTaken(p) \/ "bindDenied" \in faults
    /\ phase' = [phase EXCEPT ![p] = "failed"]
    /\ UNCHANGED <<users, db_mutex, call, file, out, granted, faults>>

\* save() opens the file with std::ios::trunc ...
SaveTruncates(p) ==
    /\ phase[p] = "failed"
    /\ phase' = [phase EXCEPT ![p] = "saving"]
    /\ file' = <<>>
    /\ UNCHANGED <<users, db_mutex, call, out, granted, faults>>

\* Mutant: a write that was cut short is repeated from the beginning.
Unwritten_All(pending, n) == pending

\* What is left in the buffer when n bytes have been written.
Unwritten(pending, n) == SubSeq(pending, n + 1, Len(pending))

\* ... and inserts a line for each user into the buffer of the stream, the
\* beginning of which reaches the file whenever it is full ...
SaveLine(p) ==
    /\ phase[p] = "saving"
    /\ \E name \in DOMAIN users[p] :
           /\ IsFirst(name, DOMAIN users[p] \ out[p].written)
           /\ LET pending == out[p].buffer \o LineOf(EntryOf(users[p], name))
              IN  \E n \in 0..Len(pending) :
                     /\ file' = WrittenAt(file, out[p].pos, SubSeq(pending, 1, n))
                     /\ out' = [out EXCEPT ![p] =
                            [written |-> out[p].written \cup {name},
                             buffer  |-> Unwritten(pending, n),
                             pos     |-> out[p].pos + n]]
    /\ UNCHANGED <<phase, users, db_mutex, call, granted, faults>>

\* ... and the rest of it when the stream is closed.
SaveCloses(p) ==
    /\ phase[p] = "saving"
    /\ out[p].written = DOMAIN users[p]
    /\ file' = WrittenAt(file, out[p].pos, out[p].buffer)
    /\ out' = [out EXCEPT ![p] = ClosedStream]
    /\ phase' = [phase EXCEPT ![p] = "down"]
    /\ users' = [users EXCEPT ![p] = EmptyMap]
    /\ UNCHANGED <<db_mutex, call, granted, faults>>

SaveCannotOpen(p) ==
    /\ "openFails" \in faults
    /\ phase[p] = "failed"
    /\ phase' = [phase EXCEPT ![p] = "down"]
    /\ users' = [users EXCEPT ![p] = EmptyMap]
    /\ UNCHANGED <<db_mutex, call, file, out, granted, faults>>

\* What a stream still buffers is lost with its process.
Kill(p) ==
    /\ phase[p] # "down"
    /\ phase[p] = "saving" => "killInSave" \in faults
    /\ phase' = [phase EXCEPT ![p] = "down"]
    /\ users' = [users EXCEPT ![p] = EmptyMap]
    /\ db_mutex' = [db_mutex EXCEPT ![p] = NoThread]
    /\ call' = [call EXCEPT ![p] = [t \in Threads |-> Idle]]
    /\ out' = [out EXCEPT ![p] = ClosedStream]
    /\ UNCHANGED <<file, granted, faults>>

-----------------------------------------------------------------------------
(* The calls.  A lock_guard holds db_mutex from the first step to the last;*)
(* a call that ends in its first step locks and unlocks within it.         *)

\* Mutant: no lock_guard.
MayCall_Unguarded(p, t) == phase[p] = "serving" /\ call[p][t] = Idle

MayCall(p, t) ==
    /\ phase[p] = "serving"
    /\ call[p][t] = Idle
    /\ db_mutex[p] = NoThread

\* Mutant: the exists-check never finds the name.
IsFree_Always(p, u) == TRUE

\* users.find(username) == users.end()
IsFree(p, u) == u.username \notin DOMAIN users[p]

RegisterExisting(p, t, u) ==
    /\ MayCall(p, t)
    /\ ~IsFree(p, u)
    /\ call' = [call EXCEPT ![p][t] = [at |-> "registered", user |-> u, ok |-> FALSE]]
    /\ UNCHANGED <<phase, users, db_mutex, file, out, granted, faults>>

RegisterNew(p, t, u) ==
    /\ MayCall(p, t)
    /\ IsFree(p, u)
    /\ Len(file) < MaxBytes
    /\ db_mutex' = [db_mutex EXCEPT ![p] = t]
    /\ call' = [call EXCEPT ![p][t] = [at |-> "inserting", user |-> u]]
    /\ UNCHANGED <<phase, users, file, out, granted, faults>>

Insert(p, t) ==
    /\ call[p][t].at = "inserting"
    /\ users' = [users EXCEPT ![p] = Put(@, call[p][t].user)]
    /\ call' = [call EXCEPT ![p][t].at = "appending"]
    /\ UNCHANGED <<phase, db_mutex, file, out, granted, faults>>

\* Mutant: the line stays in a buffer.
FileWith_Unflushed(u) == file

\* A last line without its newline is continued.
FileWith(u) == file \o LineOf(u)

\* Mutant: the lock is kept.
Unlocked_Kept(p) == db_mutex

Unlocked(p) == [db_mutex EXCEPT ![p] = NoThread]

\* Mutant: the map is saved over the file instead.
AppendLine_Saves(p, t) ==
    /\ call[p][t].at = "appending"
    /\ file' = FoldFunction(LAMBDA line, lines : lines \o line, <<>>,
                            [name \in DOMAIN users[p] |-> LineOf(EntryOf(users[p], name))])
    /\ db_mutex' = Unlocked(p)
    /\ call' = [call EXCEPT ![p][t] =
                   [at |-> "registered", user |-> call[p][t].user, ok |-> TRUE]]
    /\ granted' = granted \cup {call[p][t].user}
    /\ UNCHANGED <<phase, users, out, faults>>

\* The stream is opened in append mode and flushed by its destructor before
\* the lock is released.  A stream that did not open is skipped in silence.
AppendLine(p, t) ==
    /\ call[p][t].at = "appending"
    /\ \/ file' = FileWith(call[p][t].user)
       \/ "openFails" \in faults /\ UNCHANGED file
    /\ db_mutex' = Unlocked(p)
    /\ call' = [call EXCEPT ![p][t] =
                   [at |-> "registered", user |-> call[p][t].user, ok |-> TRUE]]
    /\ granted' = granted \cup {call[p][t].user}
    /\ UNCHANGED <<phase, users, out, faults>>

\* Mutant: a name nobody has registered is let in.
Accepts_Unknown(p, u) == IsFree(p, u) \/ Matches(users[p], u)

Accepts(p, u) == Matches(users[p], u)

Authenticate(p, t, u) ==
    /\ MayCall(p, t)
    /\ call' = [call EXCEPT ![p][t] =
                   [at |-> "authenticated", user |-> u, ok |-> Accepts(p, u)]]
    /\ UNCHANGED <<phase, users, db_mutex, file, out, granted, faults>>

\* The caller goes on with the result.
TakeResult(p, t) ==
    /\ call[p][t].at \in {"registered", "authenticated"}
    /\ call' = [call EXCEPT ![p][t] = Idle]
    /\ UNCHANGED <<phase, users, db_mutex, file, out, granted, faults>>

-----------------------------------------------------------------------------

Lifecycle(p) ==
    \/ Construct(p) \/ BindSucceeds(p) \/ BindFails(p) \/ Kill(p)
    \/ SaveTruncates(p) \/ SaveLine(p) \/ SaveCloses(p) \/ SaveCannotOpen(p)

Calls(p, t) ==
    \/ \E u \in Creds : \/ RegisterExisting(p, t, u)
                        \/ RegisterNew(p, t, u)
                        \/ Authenticate(p, t, u)
    \/ Insert(p, t) \/ AppendLine(p, t) \/ TakeResult(p, t)

Next == \E p \in Procs : Lifecycle(p) \/ \E t \in Threads : Calls(p, t)

Spec == Init /\ [][Next]_dbVars

-----------------------------------------------------------------------------
(* Properties. *)

\* What the next launch will know: the file, or the map about to be written
\* over the truncated file.
OnRecord == IF \E p \in Procs : phase[p] = "saving"
            THEN users[CHOOSE p \in Procs : phase[p] = "saving"]
            ELSE Load(file)

\* No stream fails to open and no save is cut short.
FilesWork == faults \subseteq {"bindDenied"}

\* An account registerUser has reported as created (return true) is known,
\* with that password, to every later launch of the server.
Durable == FilesWork => \A u \in granted : Matches(OnRecord, u)

\* At most one session thread of a process is between the exists-check and
\* the append, and it is the one that holds db_mutex.
OneInside == \A p \in Procs, t \in Threads :
                call[p][t].at \in {"inserting", "appending"} => db_mutex[p] = t

\* The map in memory is what the file says, but for the user who has been
\* inserted and not yet appended.
InStep == FilesWork => \A p \in Procs : phase[p] \in {"loaded", "serving", "failed"} =>
    /\ (\A t \in Threads : call[p][t].at # "appending") => users[p] = Load(file)
    /\ \A t \in Threads : call[p][t].at = "appending" =>
                             users[p] = Put(Load(file), call[p][t].user)

\* A user waiting in registerUser between the map and the file.
InFlight(p) == {call[p][t].user : t \in {t \in Threads : call[p][t].at = "appending"}}

\* authenticate accepts only credentials some registerUser call was given: no
\* kill outside save(), failed open or rewritten file makes up an account or
\* moves a password to another name.  A kill within save() may: it can leave
\* the beginning of a line, which load() takes for a line and the next append
\* continues.
OnlyRegistered ==
    "killInSave" \notin faults =>
        /\ \A p \in Procs : Accounts(users[p]) \subseteq granted \cup InFlight(p)
        /\ (\A p \in Procs : phase[p] # "saving") => Accounts(Load(file)) \subseteq granted

\* A save that is cut short loses accounts, but moves or changes none of those
\* whose lines are whole: as far as any newline, the file says what the map
\* does.  It may tear the last line, where the stream's buffer ended.
SaveTearsOnlyTheEnd ==
    \A p \in Procs : phase[p] = "saving" =>
        \A i \in 1..Len(file) : file[i] = Newline =>
            Accounts(Load(SubSeq(file, 1, i))) \subseteq Accounts(users[p])

\* As long as a process serves, its sessions never see an account vanish or
\* its password change (users is only ever inserted into).
AccountsAreStable ==
    [][\A p \in Procs : phase[p] = "serving" /\ phase'[p] = "serving" =>
          \A name \in DOMAIN users[p] : /\ name \in DOMAIN users'[p]
                                        /\ users'[p][name] = users[p][name]]_dbVars
-----------------------------------------------------------------------------
(* One server process, between two launches of which nothing is lost,      *)
(* implements the registry: its table is what is on record, and an answer  *)
(* is the result a call has returned with.                                 *)

OnlyProc == CHOOSE p \in Procs : TRUE

Registry == INSTANCE AccountRegistry WITH
    accounts <- IF FilesWork THEN OnRecord ELSE EmptyMap,
    reply    <- [t \in Threads |->
                    IF FilesWork /\ call[OnlyProc][t].at \in {"registered", "authenticated"}
                    THEN call[OnlyProc][t] ELSE [at |-> "none"]]

\* Every behaviour of the only server process in which the files work, its
\* kills, failed binds and restarts included, is one of the registry's.
ImplementsRegistry == Registry!Spec
=============================================================================
