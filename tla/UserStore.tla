------------------------------ MODULE UserStore ------------------------------
(***************************************************************************)
(* The data of the user database and its text format: the User record and  *)
(* its "username:password" line (core/User.h), and what load and save of   *)
(* core/DatabaseManager.cpp make of a whole file.                          *)
(*                                                                         *)
(* A string is a sequence of character codes, because the colon inside a   *)
(* name matters here, and a file the sequence of its bytes, because a save *)
(* that is cut short ends within a line.  std::map<name, User> always      *)
(* holds the User under its own name, so it is a function from names to    *)
(* passwords.                                                              *)
(***************************************************************************)
EXTENDS Integers, Sequences, FiniteSets, Functions

\* Names and passwords come from ss >> u >> p, which splits at blanks.
Blank == 9..13 \cup {32}
Char  == 0..255 \ Blank
Colon == 58
Text  == Seq(Char)

Newline == 10
Byte    == Char \cup {Newline}

User   == [username : Text, password : Text]
NoUser == [username |-> <<>>, password |-> <<>>]

IsUserMap(users) == /\ IsFiniteSet(DOMAIN users)
                    /\ DOMAIN users \subseteq Text
                    /\ users \in [DOMAIN users -> Text]

EmptyMap == [name \in {} |-> <<>>]

\* users[username] = User(username, password)
Put(users, u) == [name \in DOMAIN users \cup {u.username} |->
                     IF name = u.username THEN u.password ELSE users[name]]

\* it != users.end() && it->second.checkPassword(password)
Matches(users, u) == /\ u.username \in DOMAIN users
                     /\ users[u.username] = u.password

-----------------------------------------------------------------------------
(* One line. *)

\* Mutant: the fields in the wrong order.
Serialize_Swapped(u) == u.password \o <<Colon>> \o u.username

Serialize(u) == u.username \o <<Colon>> \o u.password

\* Mutant: cut at the last colon.
FirstColon_Last(line, i) == /\ line[i] = Colon
                            /\ \A j \in (i + 1)..Len(line) : line[j] # Colon

\* Where the first getline(ss, u, ':') stops.
FirstColon(line, i) == /\ line[i] = Colon
                       /\ \A j \in 1..(i - 1) : line[j] # Colon

\* The second getline fails when nothing follows the delimiter, and the
\* delimiter is missing from a line that has none: both read as NoUser.
Deserialize(line) ==
    IF \E i \in 1..(Len(line) - 1) : FirstColon(line, i)
    THEN LET i == CHOOSE i \in 1..(Len(line) - 1) : FirstColon(line, i)
         IN  [username |-> SubSeq(line, 1, i - 1),
              password |-> SubSeq(line, i + 1, Len(line))]
    ELSE NoUser

\* The users whose line is read back as the user that was written.
Storable(u) == /\ u.username # <<>>
               /\ u.password # <<>>
               /\ \A i \in DOMAIN u.username : u.username[i] # Colon

-----------------------------------------------------------------------------
(* The whole file. *)

\* Where the lines of a file end: before each newline, and where the file
\* does, for getline returns what follows the last newline.
LineEnds(file) == {i \in 1..(Len(file) + 1) : i = Len(file) + 1 \/ file[i] = Newline}

\* The line that ends there begins after the newline before it.
LineTo(file, i) ==
    LET start == CHOOSE j \in 1..i : /\ j = 1 \/ file[j - 1] = Newline
                                     /\ \A k \in j..(i - 1) : file[k] # Newline
    IN  SubSeq(file, start, i - 1)

\* The lines load() keeps, by their places: getUsername() is not empty, which
\* it is for the empty line.
Kept(file) ==
    {line \in {[end |-> i, user |-> Deserialize(LineTo(file, i))] : i \in LineEnds(file)} :
        line.user.username # <<>>}

\* Mutant: the first line of a name stands.
LastOf_First(kept, name) ==
    CHOOSE line \in kept : /\ line.user.username = name
                           /\ \A other \in kept :
                                other.user.username = name => line.end <= other.end

LastOf(kept, name) ==
    CHOOSE line \in kept : /\ line.user.username = name
                           /\ \A other \in kept :
                                other.user.username = name => other.end <= line.end

\* load(): each kept line overwrites its name's entry, so the last one stands.
Load(file) == LET kept == Kept(file)
              IN  [name \in {line.user.username : line \in kept} |->
                      LastOf(kept, name).user.password]

\* Mutant: a carriage return before the newline, which getline keeps.
LineOf_CarriageReturn(u) == Serialize(u) \o <<13, Newline>>

\* Mutant: the newline is forgotten.
LineOf_Unterminated(u) == Serialize(u)

\* file << user.serialize() << "\n"
LineOf(u) == Serialize(u) \o <<Newline>>

EntryOf(users, name) == [username |-> name, password |-> users[name]]

Accounts(users) == {EntryOf(users, name) : name \in DOMAIN users}

\* operator< of std::string.
Before(s, t) == \E k \in 1..Len(t) :
                   /\ \A j \in 1..(k - 1) : j <= Len(s) /\ s[j] = t[j]
                   /\ k <= Len(s) => s[k] < t[k]

\* The one "for (const auto& pair : users)" visits first of these names.
IsFirst(name, names) == /\ name \in names
                        /\ \A other \in names \ {name} : Before(name, other)

\* The file after a write of some bytes at an offset: what lay there is
\* overwritten, and a hole before the offset reads as zeros.
WrittenAt(file, offset, bytes) ==
    IF bytes = <<>> THEN file
    ELSE [i \in 1..(IF Len(file) > offset + Len(bytes) THEN Len(file)
                                                       ELSE offset + Len(bytes)) |->
             IF i \in (offset + 1)..(offset + Len(bytes)) THEN bytes[i - offset]
             ELSE IF i <= Len(file) THEN file[i] ELSE 0]
=============================================================================
