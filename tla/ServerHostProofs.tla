-------------------------- MODULE ServerHostProofs --------------------------
(***************************************************************************)
(* Theorems about ServerHost, for any number of servers and threads: what  *)
(* is proved of UserDatabase holds on a host with several protocols, and   *)
(* no server loses an account of another's.                                *)
(***************************************************************************)
EXTENDS ServerHost, UserDatabaseProofs

\* A step of the host is one of the database's processes or leaves it alone.
LEMMA HostStep == [HostNext]_hostVars => [Next]_dbVars
<1> SUFFICES ASSUME HostNext, ~UNCHANGED dbVars PROVE Next
  BY DEF hostVars, dbVars
<1>1. ASSUME NEW p \in Procs, Launch(p) PROVE Lifecycle(p)
  BY <1>1 DEF Launch, Lifecycle
<1>2. ASSUME NEW p \in Procs, ProcessEnds(p) PROVE Lifecycle(p)
  BY <1>2 DEF ProcessEnds, Lifecycle
<1>3. ASSUME NEW p \in Procs, NEW t \in Threads, Serve(p, t) PROVE Calls(p, t)
  BY <1>3 DEF Serve
<1>4. \A p \in Procs : ~StartSink(p) /\ ~Discard(p)
  BY DEF StartSink, Discard
<1>5. ~NoiseArrives
  BY DEF NoiseArrives
<1> QED  BY <1>1, <1>2, <1>3, <1>4, <1>5 DEF HostNext, Next

\* The sinks and the ports of a host add nothing to what its server processes
\* may do with the accounts: the host is an implementation of UserDatabase.
THEOREM HostImplementsDatabase == HostSpec => Spec
<1>1. HostInit => Init
  BY DEF HostInit
<1> QED  BY <1>1, HostStep, PTL DEF HostSpec, Spec

-----------------------------------------------------------------------------
(* What the servers have granted, and nothing else, is on the shared file. *)

\* With a port of its own, no process gets to save.
NobodySaves == \A p \in Procs : phase[p] \notin {"failed", "saving"}

\* The maps of all servers, and the one the next launch would load, hold what
\* some server has granted or is about to.
AllGranted == /\ \A p \in Procs : Accounts(users[p]) \subseteq granted \cup InFlight(p)
              /\ Accounts(Load(file)) \subseteq granted

LinesStay == \A u \in granted : \E line \in Kept(file) : line.user = u

HostInv ==
    /\ Inv
    /\ "bindDenied" \notin faults => NobodySaves /\ AllGranted /\ Complete(file)
    /\ faults = {} => LinesStay

\* A line that is kept of a file is kept of the longer file, and so is the new
\* one.
LEMMA AppendKeepsLines ==
    ASSUME NEW f \in Seq(Byte), Complete(f), NEW u \in User, Storable(u)
    PROVE  /\ Kept(f) \subseteq Kept(f \o LineOf(u))
           /\ \E line \in Kept(f \o LineOf(u)) : line.user = u
<1>1. Serialize(u) \in Text
  BY SerializeLine
<1>2. Deserialize(Serialize(u)) = u /\ u.username # <<>>
  BY RoundTrip DEF Storable
<1> DEFINE new  == f \o (Serialize(u) \o <<Newline>>)
           last == [end |-> Len(f) + Len(Serialize(u)) + 1, user |-> Deserialize(Serialize(u))]
<1>3. Kept(new) = Kept(f) \cup
          (IF Deserialize(Serialize(u)).username # <<>> THEN {last} ELSE {})
  BY <1>1, KeptAfter
<1>4. new = f \o LineOf(u) /\ last.user = u
  BY <1>2 DEF LineOf
<1> HIDE DEF new, last
<1> QED  BY <1>2, <1>3, <1>4

\* A launch loads the file, a kill forgets the map, and no one writes.
LEMMA LifecycleHost ==
    ASSUME HostInv, "bindDenied" \notin faults,
           \A p, q \in Procs : Port[p] = Port[q] => p = q,
           NEW p \in Procs, Lifecycle(p)
    PROVE  /\ file' = file /\ granted' = granted
           /\ NobodySaves' /\ AllGranted'
<1>1. /\ phase \in [Procs -> Phases] /\ phase[p] \notin {"failed", "saving"}
      /\ users = [q \in Procs |-> users[q]]
      /\ call \in [Procs -> [Threads -> {Idle} \cup Busy \cup Returned]]
      /\ NobodySaves /\ AllGranted
  BY DEF HostInv, Inv, TypeOK, NobodySaves
<1>2. ~BindFails(p)
  BY DEF BindFails, PortTaken
<1>3. Construct(p) \/ BindSucceeds(p) \/ Kill(p)
  BY <1>1, <1>2 DEF Lifecycle, SaveTruncates, SaveLine, SaveCloses,
                         SaveCannotOpen
<1>4. /\ file' = file /\ granted' = granted /\ NobodySaves'
      /\ users'[p] \in {users[p], Load(file), EmptyMap}
      /\ users'[p] = EmptyMap \/ call' = call
      /\ \A q \in Procs : q # p => users'[q] = users[q] /\ call'[q] = call[q]
  <2>1. CASE Construct(p)
    BY <1>1, <2>1 DEF Construct, NobodySaves
  <2>2. CASE BindSucceeds(p)
    BY <1>1, <2>2 DEF BindSucceeds, NobodySaves
  <2>3. CASE Kill(p)
    <3>1. users'[p] = EmptyMap /\ file' = file /\ granted' = granted /\ NobodySaves'
      BY <1>1, <2>3 DEF Kill, NobodySaves
    <3>2. \A q \in Procs : q # p => users'[q] = users[q] /\ call'[q] = call[q]
      BY <1>1, <2>3 DEF Kill
    <3> QED  BY <3>1, <3>2
  <2> QED  BY <1>3, <2>1, <2>2, <2>3
<1>5. ASSUME NEW q \in Procs PROVE Accounts(users'[q]) \subseteq granted' \cup InFlight(q)'
  <2>1. ASSUME users'[q] = users[q], call'[q] = call[q]
        PROVE  Accounts(users'[q]) \subseteq granted' \cup InFlight(q)'
    <3>1. InFlight(q)' = InFlight(q)
      BY <2>1 DEF InFlight
    <3> QED  BY <1>1, <1>4, <2>1, <3>1 DEF AllGranted
  <2>2. CASE users'[q] = Load(file)
    BY <1>1, <1>4, <2>2 DEF AllGranted
  <2>3. CASE users'[q] = EmptyMap
    BY <2>3, NoAccounts
  <2>4. \/ users'[q] = users[q] /\ call'[q] = call[q]
        \/ users'[q] \in {Load(file), EmptyMap}
    BY <1>4
  <2> QED  BY <2>1, <2>2, <2>3, <2>4
<1> QED  BY <1>1, <1>4, <1>5 DEF AllGranted

LEMMA CallsHost ==
    ASSUME HostInv, Inv', "bindDenied" \notin faults, \A u \in Creds : Storable(u),
           NEW p \in Procs, NEW t \in Threads, Calls(p, t)
    PROVE  NobodySaves' /\ AllGranted' /\ Complete(file')
<1>1. /\ file \in Seq(Byte) /\ NobodySaves /\ AllGranted /\ Complete(file)
      /\ users = [q \in Procs |-> users[q]]
  BY DEF HostInv, Inv, TypeOK
<1>2. /\ phase' = phase /\ granted \subseteq granted'
      /\ \A q \in Procs : q # p => users'[q] = users[q] /\ call'[q] = call[q]
      /\ \A s \in Threads : s # t => call'[p][s] = call[p][s]
  BY DEF Calls, RegisterExisting, RegisterNew, Authenticate, Insert, AppendLine, TakeResult,
         HostInv, Inv, TypeOK
<1>3. ASSUME NEW q \in Procs, q # p
      PROVE  Accounts(users'[q]) \subseteq granted' \cup InFlight(q)'
  <2>1. InFlight(q)' = InFlight(q)
    BY <1>2, <1>3 DEF InFlight
  <2> QED  BY <1>1, <1>2, <1>3, <2>1 DEF AllGranted
<1>4. ASSUME Accounts(users'[p]) \subseteq granted' \cup InFlight(p)',
             Accounts(Load(file')) \subseteq granted', Complete(file')
      PROVE  NobodySaves' /\ AllGranted' /\ Complete(file')
  BY <1>1, <1>2, <1>3, <1>4 DEF NobodySaves, AllGranted
<1>5. CASE Insert(p, t)
  <2> DEFINE u == call[p][t].user
  <2>1. /\ file' = file /\ granted' = granted
        /\ users'[p] = Put(users[p], u)
        /\ call'[p][t].at = "appending" /\ call'[p][t].user = u
        /\ call[p][t].at = "inserting"
        /\ u \in User
    BY <1>1, <1>5, CallShape, CredsAssumption DEF Insert, HostInv, Inv, TypeOK, Busy
  <2> HIDE DEF u
  <2>2. InFlight(p) \subseteq InFlight(p)' /\ u \in InFlight(p)'
    BY <1>2, <2>1 DEF InFlight
  <2>3. Accounts(users'[p]) \subseteq granted' \cup InFlight(p)'
    <3> DEFINE from == granted \cup InFlight(p)
               more == granted' \cup InFlight(p)'
    <3>1. Accounts(users[p]) \subseteq from
      BY <1>1 DEF AllGranted
    <3>2. from \subseteq more /\ u \in more /\ u \in User
      BY <2>1, <2>2
    <3> HIDE DEF from, more
    <3>3. Accounts(Put(users[p], u)) \subseteq more
      BY <3>1, <3>2, PutAccounts
    <3> QED  BY <2>1, <3>3 DEF more
  <2>4. Accounts(Load(file')) \subseteq granted'
    BY <1>1, <2>1 DEF AllGranted
  <2> QED  BY <1>1, <1>4, <2>1, <2>3, <2>4
<1>6. CASE AppendLine(p, t)
  <2> DEFINE u == call[p][t].user
  <2>1. /\ file' = file \o LineOf(u) \/ file' = file
        /\ granted' = granted \cup {u} /\ users' = users
        /\ u \in User /\ Storable(u)
    BY <1>6, CallShape, CredsAssumption DEF AppendLine, FileWith, HostInv, Inv, TypeOK, Busy
  <2>2. InFlight(p) \subseteq {u}
    BY <1>6 DEF AppendLine, HostInv, Inv, OneInside, InFlight
  <2> HIDE DEF u
  <2>3. Accounts(users'[p]) \subseteq granted' \cup InFlight(p)'
    BY <1>1, <2>1, <2>2 DEF AllGranted
  <2>4. Accounts(Load(file)) \subseteq granted'
    BY <1>1, <2>1 DEF AllGranted
  <2>5. Accounts(Put(Load(file), u)) \subseteq granted'
    BY <2>1, <2>4, PutAccounts
  <2>6. Accounts(Load(file')) \subseteq granted'
    BY <1>1, <2>1, <2>4, <2>5, LoadAppend
  <2>7. Complete(file')
    BY <1>1, <2>1, LineOfIs
  <2> QED  BY <1>4, <2>3, <2>6, <2>7
<1>7. CASE ~Insert(p, t) /\ ~AppendLine(p, t)
  <2>1. /\ users' = users /\ file' = file /\ granted' = granted
        /\ call'[p][t].at # "appending" /\ call[p][t].at # "appending"
    BY <1>7 DEF Calls, RegisterExisting, RegisterNew, Authenticate, TakeResult, MayCall,
              Idle, HostInv, Inv, TypeOK
  <2>2. InFlight(p)' = InFlight(p)
    BY <1>2, <2>1 DEF InFlight
  <2> QED  BY <1>1, <1>4, <2>1, <2>2 DEF AllGranted
<1> QED  BY <1>5, <1>6, <1>7

LEMMA LinesStayStep ==
    ASSUME HostInv, faults = {}, \A u \in Creds : Storable(u),
           NEW p \in Procs, NEW t \in Threads, Calls(p, t)
    PROVE  LinesStay'
<1>1. CASE AppendLine(p, t)
  <2> DEFINE u == call[p][t].user
  <2>1. u \in Creds /\ u \in User /\ Storable(u) /\ file \in Seq(Byte) /\ Complete(file)
    BY <1>1, CallShape, CredsAssumption DEF AppendLine, HostInv, Inv, TypeOK, Busy
  <2>2. file' = file \o LineOf(u) /\ granted' = granted \cup {u}
    BY <1>1 DEF AppendLine, FileWith
  <2>3. \A v \in granted : \E line \in Kept(file) : line.user = v
    BY DEF HostInv, LinesStay
  <2> HIDE DEF u
  <2>4. Kept(file) \subseteq Kept(file') /\ \E line \in Kept(file') : line.user = u
    BY <2>1, <2>2, AppendKeepsLines
  <2>5. \A v \in granted : \E line \in Kept(file') : line.user = v
    BY <2>3, <2>4
  <2> QED  BY <2>2, <2>4, <2>5 DEF LinesStay
<1>2. CASE ~AppendLine(p, t)
  <2>1. file' = file /\ granted' = granted
    BY <1>2 DEF Calls, RegisterExisting, RegisterNew, Authenticate, Insert, TakeResult
  <2> QED  BY <2>1 DEF HostInv, LinesStay
<1> QED  BY <1>1, <1>2

LEMMA HostInvHolds ==
    ASSUME \A p, q \in Procs : Port[p] = Port[q] => p = q,
           \A u \in Creds : Storable(u)
    PROVE  HostSpec => []HostInv
<1>1. Init => HostInv
  <2> SUFFICES ASSUME Init PROVE HostInv
    OBVIOUS
  <2>1. /\ \A p \in Procs : users[p] = EmptyMap /\ phase[p] = "down"
        /\ Load(file) = EmptyMap /\ granted = {} /\ Complete(file)
    BY LoadNothing DEF Init, Complete
  <2> QED  BY <2>1, InitInv, NoAccounts DEF HostInv, NobodySaves, AllGranted, LinesStay
<1>2. HostInv /\ [Next]_dbVars => HostInv'
  <2> SUFFICES ASSUME HostInv, [Next]_dbVars PROVE HostInv'
    OBVIOUS
  <2>1. Inv' /\ faults' = faults
    BY StepInv, FaultsStay DEF HostInv
  <2>2. CASE "bindDenied" \in faults
    BY <2>1, <2>2 DEF HostInv
  <2>3. CASE UNCHANGED dbVars
    BY <2>1, <2>3 DEF HostInv, NobodySaves, AllGranted, LinesStay, InFlight, dbVars
  <2>4. ASSUME "bindDenied" \notin faults, NEW p \in Procs, Lifecycle(p) PROVE HostInv'
    BY <2>1, <2>4, LifecycleHost DEF HostInv, LinesStay
  <2>5. ASSUME "bindDenied" \notin faults, NEW p \in Procs, NEW t \in Threads, Calls(p, t)
        PROVE  HostInv'
    BY <2>1, <2>5, CallsHost, LinesStayStep DEF HostInv
  <2> QED  BY <2>2, <2>3, <2>4, <2>5 DEF Next
<1> QED  BY <1>1, <1>2, HostImplementsDatabase, PTL DEF Spec

\* With a port for each server, and binds that no one denies, an account that
\* any server of the host has granted stays on the file they share: through
\* the registrations, kills and restarts of all of them, in any number.  When
\* several servers have granted one name, the next launch knows it under a
\* password one of them was given.
THEOREM GrantsAreKept ==
    ASSUME \A p, q \in Procs : Port[p] = Port[q] => p = q,
           \A u \in Creds : Storable(u)
    PROVE  HostSpec => []GrantsStayOnFile
<1>1. HostInv => GrantsStayOnFile
  <2> SUFFICES ASSUME HostInv, faults = {}, NEW u \in granted
               PROVE  /\ \E line \in Kept(file) : line.user = u
                      /\ \E v \in granted : /\ v.username = u.username
                                            /\ Matches(Load(file), v)
    BY DEF GrantsStayOnFile
  <2>1. PICK line \in Kept(file) : line.user = u
    BY DEF HostInv, LinesStay
  <2>2. Accounts(Load(file)) \subseteq granted
    BY DEF HostInv, AllGranted
  <2>3. u.username \in DOMAIN Load(file)
    BY <2>1, LoadDomain
  <2>4. EntryOf(Load(file), u.username) \in granted
    BY <2>2, <2>3 DEF Accounts
  <2> QED  BY <2>1, <2>3, <2>4 DEF Matches, EntryOf
<1> QED  BY <1>1, HostInvHolds, PTL

\* On such a host, if every credential is storable, nothing is made up either:
\* whatever streams do not open, an account that a server accepts is one that
\* some server was asked to register, though all of them append to one file.
THEOREM HostMakesNothingUp ==
    ASSUME \A p, q \in Procs : Port[p] = Port[q] => p = q,
           \A u \in Creds : Storable(u)
    PROVE  HostSpec => []SharingMakesNothingUp
<1>1. HostInv => SharingMakesNothingUp
  BY DEF HostInv, AllGranted, OnlyRegistered, SharingMakesNothingUp
<1> QED  BY <1>1, HostInvHolds, PTL
=============================================================================
