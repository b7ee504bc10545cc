------------------------------ MODULE LoadLoop ------------------------------
(***************************************************************************)
(* DatabaseManager::load as the loop it is, one line of the file a step,   *)
(* and the loop of save after it, one user a step.  They are what the Load *)
(* operator of UserStore, and the lines UserDatabase writes, are checked   *)
(* against, on every file of a bounded length.                             *)
(***************************************************************************)
EXTENDS UserStore

CONSTANTS
    Letters,    \* the characters of the files
    MaxFile     \* bound on the number of bytes

ASSUME LettersAssumption == Letters \subseteq Char
ASSUME MaxFileAssumption == MaxFile \in Nat

VARIABLES
    file,       \* users_db.txt, which anybody may have edited
    pos,        \* the bytes of it that getline has read
    users,
    saved,      \* what save() has written
    written     \* the names of the users in it

vars == <<file, pos, users, saved, written>>

Init == /\ file \in UNION {[1..n -> Letters \cup {Newline}] : n \in 0..MaxFile}
        /\ pos = 0
        /\ users = EmptyMap
        /\ saved = <<>>
        /\ written = {}

\* getline reads up to the next newline, or to the end of the file.
NextEnd(i) == /\ i \in LineEnds(file)
              /\ i > pos
              /\ \A j \in LineEnds(file) : j > pos => i <= j

\* while (std::getline(file, line)) { ... }
ReadLine ==
    /\ pos < Len(file)
    /\ \E i \in LineEnds(file) :
           /\ NextEnd(i)
           /\ LET line == SubSeq(file, pos + 1, i - 1)
                  u    == Deserialize(line)
              IN  users' = IF line # <<>> /\ u.username # <<>> THEN Put(users, u) ELSE users
           /\ pos' = IF i <= Len(file) THEN i ELSE Len(file)
    /\ UNCHANGED <<file, saved, written>>

\* for (const auto& pair : users) { file << pair.second.serialize() << "\n"; }
WriteLine ==
    /\ pos = Len(file)
    /\ \E name \in DOMAIN users :
           /\ IsFirst(name, DOMAIN users \ written)
           /\ saved' = saved \o LineOf(EntryOf(users, name))
           /\ written' = written \cup {name}
    /\ UNCHANGED <<file, pos, users>>

Next == ReadLine \/ WriteLine

Spec == Init /\ [][Next]_vars

-----------------------------------------------------------------------------

\* After each line the map is what Load makes of the bytes read so far: blank
\* and malformed lines leave no trace, the last line of a name stands.
LoopComputesLoad == users = Load(SubSeq(file, 1, pos))

\* Whatever load() has built from a file, well formed or not, save() finds a
\* user to write next until it has written them all, and the next load() reads
\* back the users that were written.
SavedIsReadBack ==
    pos = Len(file) =>
        /\ Accounts(Load(saved)) = {EntryOf(users, name) : name \in written}
        /\ written # DOMAIN users =>
               \E name \in DOMAIN users : IsFirst(name, DOMAIN users \ written)
=============================================================================
