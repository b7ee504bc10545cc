------------------------- MODULE UserDatabaseProofs -------------------------
(***************************************************************************)
(* Theorems about UserDatabase, for any number of processes, threads and   *)
(* credentials, unless one says otherwise.                                 *)
(***************************************************************************)
EXTENDS UserDatabase, UserStoreProofs

-----------------------------------------------------------------------------
(* Types. *)

\* What the record of a call holds, by the place it is at.
LEMMA CallShape ==
    ASSUME TypeOK, NEW p \in Procs, NEW t \in Threads
    PROVE  /\ call[p][t] \in {Idle} \cup Busy \cup Returned
           /\ call[p][t].at \in {"inserting", "appending"} => call[p][t] \in Busy
           /\ call[p][t].at \in {"registered", "authenticated"} => call[p][t] \in Returned
<1>1. call[p][t] \in {Idle} \cup Busy \cup Returned
  BY DEF TypeOK
<1> QED  BY <1>1 DEF Idle, Busy, Returned

\* A call that only moves to another typed record keeps the type of call.
LEMMA CallUpdate ==
    ASSUME TypeOK, NEW p \in Procs, NEW t \in Threads,
           NEW c \in {Idle} \cup Busy \cup Returned
    PROVE  [call EXCEPT ![p][t] = c]
               \in [Procs -> [Threads -> {Idle} \cup Busy \cup Returned]]
BY DEF TypeOK

\* So does replacing the map of one process.
LEMMA UsersUpdate ==
    ASSUME TypeOK, NEW p \in Procs, NEW m, IsUserMap(m)
    PROVE  LET new == [users EXCEPT ![p] = m]
           IN  /\ new = [q \in Procs |-> new[q]]
               /\ \A q \in Procs : IsUserMap(new[q])
BY DEF TypeOK

LEMMA EmptyMapType == IsUserMap(EmptyMap)
BY FS_EmptySet DEF IsUserMap, EmptyMap

LEMMA InitType == Init => TypeOK
<1> SUFFICES ASSUME Init PROVE TypeOK
  OBVIOUS
<1>1. file \in Seq(Byte) /\ ClosedStream \in Stream
  BY EmptySeq DEF Init, ClosedStream, Stream
<1> QED  BY <1>1, EmptyMapType DEF Init, TypeOK, Phases, Idle

\* What the step of save() that inserts a line does, said of the bytes that are
\* pending and of those of them that reach the file.
LEMMA SaveLineIs ==
    ASSUME TypeOK, NEW p \in Procs, SaveLine(p)
    PROVE  \E name \in DOMAIN users[p], pending \in Seq(Byte), n \in Nat :
              /\ IsFirst(name, DOMAIN users[p] \ out[p].written)
              /\ pending = out[p].buffer \o LineOf(EntryOf(users[p], name))
              /\ n \in 0..Len(pending)
              /\ file' = WrittenAt(file, out[p].pos, SubSeq(pending, 1, n))
              /\ out' = [out EXCEPT ![p] = [written |-> out[p].written \cup {name},
                                           buffer  |-> SubSeq(pending, n + 1, Len(pending)),
                                           pos     |-> out[p].pos + n]]
              /\ EntryOf(users[p], name) \in User
              /\ LineOf(EntryOf(users[p], name)) \in Seq(Byte)
<1>1. PICK name \in DOMAIN users[p] :
         /\ IsFirst(name, DOMAIN users[p] \ out[p].written)
         /\ \E n \in 0..Len(out[p].buffer \o LineOf(EntryOf(users[p], name))) :
               /\ file' = WrittenAt(file, out[p].pos,
                              SubSeq(out[p].buffer \o LineOf(EntryOf(users[p], name)), 1, n))
               /\ out' = [out EXCEPT ![p] =
                     [written |-> out[p].written \cup {name},
                      buffer  |-> SubSeq(out[p].buffer \o LineOf(EntryOf(users[p], name)), n + 1,
                                         Len(out[p].buffer \o LineOf(EntryOf(users[p], name)))),
                      pos     |-> out[p].pos + n]]
  BY DEF SaveLine, Unwritten
<1> DEFINE pending == out[p].buffer \o LineOf(EntryOf(users[p], name))
<1>2. EntryOf(users[p], name) \in User
  BY DEF TypeOK, IsUserMap, EntryOf, User
<1>3. LineOf(EntryOf(users[p], name)) \in Seq(Byte) /\ out[p].buffer \in Seq(Byte)
  <2>1. <<>> \in Seq(Byte)
    BY EmptySeq
  <2> QED  BY <1>2, <2>1, LineOfIs DEF TypeOK, Stream
<1>4. pending \in Seq(Byte)
  BY <1>3, ConcatProperties
<1>5. PICK n \in 0..Len(pending) :
         /\ file' = WrittenAt(file, out[p].pos, SubSeq(pending, 1, n))
         /\ out' = [out EXCEPT ![p] = [written |-> out[p].written \cup {name},
                                      buffer  |-> SubSeq(pending, n + 1, Len(pending)),
                                      pos     |-> out[p].pos + n]]
  BY <1>1
<1>6. n \in Nat
  BY <1>4, LenProperties
<1> QED  BY <1>1, <1>2, <1>3, <1>4, <1>5, <1>6

LEMMA LifecycleType ==
    ASSUME TypeOK, NEW p \in Procs, Lifecycle(p)
    PROVE  TypeOK'
<1>1. CASE Construct(p)
  <2>1. IsUserMap(Load(file))
    BY LoadType DEF TypeOK
  <2>2. /\ users' = [q \in Procs |-> users'[q]]
        /\ \A q \in Procs : IsUserMap(users'[q])
    BY <1>1, <2>1, UsersUpdate DEF Construct, TypeOK
  <2> QED  BY <1>1, <2>2 DEF Construct, TypeOK, Phases
<1>2. CASE BindSucceeds(p)
  BY <1>2 DEF BindSucceeds, TypeOK, Phases
<1>3. CASE BindFails(p)
  BY <1>3 DEF BindFails, TypeOK, Phases
<1>4. CASE SaveTruncates(p)
  BY <1>4, EmptySeq DEF SaveTruncates, TypeOK, Phases
<1>5. CASE SaveLine(p)
  <2>1. PICK name \in DOMAIN users[p], pending \in Seq(Byte), n \in Nat :
           /\ n \in 0..Len(pending)
           /\ file' = WrittenAt(file, out[p].pos, SubSeq(pending, 1, n))
           /\ out' = [out EXCEPT ![p] = [written |-> out[p].written \cup {name},
                                        buffer  |-> SubSeq(pending, n + 1, Len(pending)),
                                        pos     |-> out[p].pos + n]]
    BY <1>5, SaveLineIs
  <2>2. /\ SubSeq(pending, 1, n) \in Seq(Byte)
        /\ SubSeq(pending, n + 1, Len(pending)) \in Seq(Byte)
    BY <2>1, Parts
  <2>3. file' \in Seq(Byte)
    BY <2>1, <2>2, WrittenAtType DEF TypeOK, Stream
  <2>4. [written |-> out[p].written \cup {name},
         buffer  |-> SubSeq(pending, n + 1, Len(pending)),
         pos     |-> out[p].pos + n] \in Stream
    BY <2>2 DEF TypeOK, Stream, IsUserMap
  <2> QED  BY <1>5, <2>1, <2>3, <2>4 DEF SaveLine, TypeOK
<1>10. ClosedStream \in Stream
  BY EmptySeq DEF ClosedStream, Stream
<1>11. CASE SaveCloses(p)
  <2>1. file' \in Seq(Byte)
    BY <1>11, WrittenAtType DEF SaveCloses, TypeOK, Stream
  <2>2. /\ users' = [q \in Procs |-> users'[q]]
        /\ \A q \in Procs : IsUserMap(users'[q])
    BY <1>11, EmptyMapType, UsersUpdate DEF SaveCloses
  <2> QED  BY <1>10, <1>11, <2>1, <2>2 DEF SaveCloses, TypeOK, Phases
<1>6. CASE SaveCannotOpen(p)
  <2>1. /\ users' = [q \in Procs |-> users'[q]]
        /\ \A q \in Procs : IsUserMap(users'[q])
    BY <1>6, EmptyMapType, UsersUpdate DEF SaveCannotOpen
  <2> QED  BY <1>6, <2>1 DEF SaveCannotOpen, TypeOK, Phases
<1>7. CASE Kill(p)
  <2>1. /\ users' = [q \in Procs |-> users'[q]]
        /\ \A q \in Procs : IsUserMap(users'[q])
    BY <1>7, EmptyMapType, UsersUpdate DEF Kill
  <2> QED  BY <1>7, <1>10, <2>1 DEF Kill, TypeOK, Phases
<1> QED  BY <1>1, <1>2, <1>3, <1>4, <1>5, <1>6, <1>7, <1>11 DEF Lifecycle

LEMMA CallsType ==
    ASSUME TypeOK, NEW p \in Procs, NEW t \in Threads, Calls(p, t)
    PROVE  TypeOK'
<1>1. ASSUME NEW u \in Creds, RegisterExisting(p, t, u)
      PROVE  TypeOK'
  <2>1. [at |-> "registered", user |-> u, ok |-> FALSE] \in Returned
    BY DEF Returned
  <2> QED  BY <1>1, <2>1, CallUpdate DEF RegisterExisting, TypeOK
<1>2. ASSUME NEW u \in Creds, RegisterNew(p, t, u)
      PROVE  TypeOK'
  <2>1. [at |-> "inserting", user |-> u] \in Busy
    BY DEF Busy
  <2> QED  BY <1>2, <2>1, CallUpdate DEF RegisterNew, TypeOK
<1>3. ASSUME NEW u \in Creds, Authenticate(p, t, u)
      PROVE  TypeOK'
  <2>1. [at |-> "authenticated", user |-> u, ok |-> Accepts(p, u)] \in Returned
    BY DEF Returned, Accepts, Matches
  <2> QED  BY <1>3, <2>1, CallUpdate DEF Authenticate, TypeOK
<1>4. CASE Insert(p, t)
  <2>1. call[p][t] \in Busy /\ call[p][t].user \in User
    BY <1>4, CallShape, CredsAssumption DEF Insert, Busy
  <2>2. IsUserMap(Put(users[p], call[p][t].user))
    BY <2>1, PutType DEF TypeOK
  <2>3. /\ users' = [q \in Procs |-> users'[q]]
        /\ \A q \in Procs : IsUserMap(users'[q])
    BY <1>4, <2>2, UsersUpdate DEF Insert
  <2>4. call' = [call EXCEPT ![p][t] = [call[p][t] EXCEPT !.at = "appending"]]
    BY <1>4 DEF Insert, TypeOK
  <2>5. [call[p][t] EXCEPT !.at = "appending"] \in Busy
    BY <2>1 DEF Busy
  <2> QED  BY <1>4, <2>3, <2>4, <2>5, CallUpdate DEF Insert, TypeOK
<1>5. CASE AppendLine(p, t)
  <2>1. call[p][t] \in Busy /\ call[p][t].user \in Creds
    BY <1>5, CallShape DEF AppendLine, Busy
  <2>2. file \o LineOf(call[p][t].user) \in Seq(Byte)
    BY <2>1, LineOfIs, CredsAssumption DEF TypeOK
  <2>3. file' \in Seq(Byte)
    <3>1. file' = file \o LineOf(call[p][t].user) \/ file' = file
      BY <1>5 DEF AppendLine, FileWith
    <3> QED  BY <2>2, <3>1 DEF TypeOK
  <2>4. [at |-> "registered", user |-> call[p][t].user, ok |-> TRUE] \in Returned
    BY <2>1 DEF Returned
  <2>5. granted' \subseteq Creds
    BY <1>5, <2>1 DEF AppendLine, TypeOK
  <2> QED  BY <1>5, <2>3, <2>4, <2>5, CallUpdate DEF AppendLine, Unlocked, TypeOK
<1>6. CASE TakeResult(p, t)
  BY <1>6, CallUpdate DEF TakeResult, TypeOK
<1> QED  BY <1>1, <1>2, <1>3, <1>4, <1>5, <1>6 DEF Calls

\* Every variable keeps its type: in particular every users_db.txt, however
\* it came about, is a sequence of bytes and every map in memory is finite.
THEOREM TypeCorrect == Spec => []TypeOK
<1>1. TypeOK /\ [Next]_dbVars => TypeOK'
  <2> SUFFICES ASSUME TypeOK, [Next]_dbVars PROVE TypeOK'
    OBVIOUS
  <2>1. CASE Next
    BY <2>1, LifecycleType, CallsType DEF Next
  <2>2. CASE UNCHANGED dbVars
    BY <2>2 DEF dbVars, TypeOK
  <2> QED  BY <2>1, <2>2
<1> QED  BY <1>1, InitType, PTL DEF Spec
-----------------------------------------------------------------------------
(* Mutual exclusion, and what it is for. *)

\* A thread inside registerUser is a thread of a serving process, and the name
\* it has found free stays free until it inserts it.
BusyOK == \A p \in Procs, t \in Threads :
    /\ call[p][t].at \in {"inserting", "appending"} => phase[p] = "serving"
    /\ call[p][t].at = "inserting" => call[p][t].user.username \notin DOMAIN users[p]

Inv == TypeOK /\ OneInside /\ BusyOK

LEMMA InitInv == Init => Inv
<1> SUFFICES ASSUME Init PROVE Inv
  OBVIOUS
<1>1. \A p \in Procs, t \in Threads : call[p][t].at = "idle"
  BY DEF Init, Idle
<1> QED  BY <1>1, InitType DEF Inv, OneInside, BusyOK

\* A process that starts or ends has nobody inside; the others are untouched.
LEMMA LifecycleInv ==
    ASSUME Inv, NEW p \in Procs, Lifecycle(p)
    PROVE  Inv'
<1>1. TypeOK'
  BY LifecycleType DEF Inv
<1>2. \A q \in Procs, t \in Threads :
         call'[q][t].at \in {"inserting", "appending"} =>
             /\ call'[q][t] = call[q][t] /\ db_mutex'[q] = db_mutex[q]
             /\ users'[q] = users[q] /\ phase'[q] = "serving"
  <2> SUFFICES ASSUME NEW q \in Procs, NEW t \in Threads,
                      call'[q][t].at \in {"inserting", "appending"}
               PROVE  /\ call'[q][t] = call[q][t] /\ db_mutex'[q] = db_mutex[q]
                      /\ users'[q] = users[q] /\ phase'[q] = "serving"
    OBVIOUS
  <2>1. CASE Kill(p)
    BY <2>1 DEF Kill, Inv, TypeOK, BusyOK, Idle
  <2>2. CASE ~Kill(p)
    <3>1. call' = call /\ db_mutex' = db_mutex /\ phase[p] # "serving"
      BY <2>2 DEF Lifecycle, Construct, BindSucceeds, BindFails, SaveTruncates,
                  SaveLine, SaveCloses, SaveCannotOpen
    <3>2. phase[q] = "serving" /\ q # p
      BY <3>1 DEF Inv, BusyOK
    <3>3. phase'[q] = phase[q] /\ users'[q] = users[q]
      BY <2>2, <3>2 DEF Lifecycle, Construct, BindSucceeds, BindFails, SaveTruncates,
                        SaveLine, SaveCloses, SaveCannotOpen, Inv, TypeOK
    <3> QED  BY <3>1, <3>2, <3>3
  <2> QED  BY <2>1, <2>2
<1>3. OneInside'
  BY <1>2 DEF Inv, OneInside
<1>4. BusyOK'
  BY <1>2 DEF Inv, BusyOK
<1> QED  BY <1>1, <1>3, <1>4 DEF Inv

\* A call of one thread leaves those of the others as they are, and a thread
\* that changes the map is the only one inside.
LEMMA CallsInv ==
    ASSUME Inv, NEW p \in Procs, NEW t \in Threads, Calls(p, t)
    PROVE  Inv'
<1>1. TypeOK'
  BY CallsType DEF Inv
<1>2. /\ phase' = phase
      /\ \A q \in Procs, s \in Threads : <<q, s>> # <<p, t>> => call'[q][s] = call[q][s]
      /\ \A q \in Procs : q # p => users'[q] = users[q] /\ db_mutex'[q] = db_mutex[q]
  BY DEF Calls, RegisterExisting, RegisterNew, Authenticate, Insert, AppendLine,
         Unlocked, TakeResult, Inv, TypeOK
<1>3. CASE Insert(p, t)
  <2>1. db_mutex' = db_mutex /\ db_mutex[p] = t /\ call'[p][t].at = "appending"
        /\ phase[p] = "serving"
    BY <1>3 DEF Insert, Inv, TypeOK, OneInside, BusyOK
  <2>2. \A s \in Threads : s # t => call[p][s].at \notin {"inserting", "appending"}
    BY <2>1 DEF Inv, OneInside
  <2> QED  BY <1>1, <1>2, <2>1, <2>2 DEF Inv, OneInside, BusyOK
<1>4. CASE ~Insert(p, t)
  <2>1. users' = users
    BY <1>4 DEF Calls, RegisterExisting, RegisterNew, Authenticate, AppendLine, TakeResult
  <2>2. CASE \E u \in Creds : RegisterNew(p, t, u)
    <3>1. PICK u \in Creds : RegisterNew(p, t, u)
      BY <2>2
    <3>2. /\ db_mutex[p] = NoThread /\ db_mutex'[p] = t /\ phase[p] = "serving"
          /\ call'[p][t] = [at |-> "inserting", user |-> u]
          /\ u.username \notin DOMAIN users[p]
      BY <3>1 DEF RegisterNew, MayCall, IsFree, Inv, TypeOK
    <3>3. \A s \in Threads : call[p][s].at \notin {"inserting", "appending"}
      BY <3>2, NoThreadAssumption DEF Inv, OneInside
    <3> QED  BY <1>1, <1>2, <2>1, <3>2, <3>3 DEF Inv, OneInside, BusyOK
  <2>3. CASE AppendLine(p, t)
    <3>1. db_mutex[p] = t /\ call'[p][t].at = "registered"
      BY <2>3 DEF AppendLine, Inv, TypeOK, OneInside
    <3>2. \A s \in Threads : s # t => call[p][s].at \notin {"inserting", "appending"}
      BY <3>1 DEF Inv, OneInside
    <3> QED  BY <1>1, <1>2, <2>1, <3>1, <3>2 DEF Inv, OneInside, BusyOK
  <2>4. CASE \/ TakeResult(p, t)
             \/ \E u \in Creds : RegisterExisting(p, t, u) \/ Authenticate(p, t, u)
    <3>1. db_mutex' = db_mutex /\ call'[p][t].at \in {"idle", "registered", "authenticated"}
      BY <2>4 DEF RegisterExisting, Authenticate, TakeResult, Inv, TypeOK, Idle
    <3> QED  BY <1>1, <1>2, <2>1, <3>1 DEF Inv, OneInside, BusyOK
  <2> QED  BY <1>4, <2>2, <2>3, <2>4 DEF Calls
<1> QED  BY <1>3, <1>4

LEMMA StepInv == Inv /\ [Next]_dbVars => Inv'
<1> SUFFICES ASSUME Inv, [Next]_dbVars PROVE Inv'
  OBVIOUS
<1>1. CASE Next
  BY <1>1, LifecycleInv, CallsInv DEF Next
<1>2. CASE UNCHANGED dbVars
  BY <1>2 DEF dbVars, Inv, TypeOK, OneInside, BusyOK
<1> QED  BY <1>1, <1>2

\* In each process at most one thread is between the test of the name and the
\* append, for any number of session threads.
THEOREM MutualExclusion == Spec => []OneInside
<1>1. Inv => OneInside
  BY DEF Inv
<1> QED  BY <1>1, InitInv, StepInv, PTL DEF Spec

\* While a process serves, no account it knows vanishes or changes its
\* password, whatever other processes do to the file.
THEOREM StableAccounts == Spec => AccountsAreStable
<1> DEFINE Kept1 == \A p \in Procs : phase[p] = "serving" /\ phase'[p] = "serving" =>
                       \A name \in DOMAIN users[p] : /\ name \in DOMAIN users'[p]
                                                     /\ users'[p][name] = users[p][name]
<1>1. Inv /\ [Next]_dbVars => [Kept1]_dbVars
  <2> SUFFICES ASSUME Inv, Next, NEW p \in Procs,
                      phase[p] = "serving", phase'[p] = "serving",
                      NEW name \in DOMAIN users[p]
               PROVE  name \in DOMAIN users'[p] /\ users'[p][name] = users[p][name]
    OBVIOUS
  <2>1. CASE \E q \in Procs : Lifecycle(q)
    <3>1. users'[p] = users[p]
      BY <2>1 DEF Lifecycle, Construct, BindSucceeds, BindFails, SaveTruncates,
                  SaveLine, SaveCloses, SaveCannotOpen, Kill, Inv, TypeOK
    <3> QED  BY <3>1
  <2>2. CASE \E q \in Procs, t \in Threads : Calls(q, t)
    <3>1. PICK q \in Procs, t \in Threads : Calls(q, t)
      BY <2>2
    <3>2. CASE Insert(q, t) /\ q = p
      <4>1. /\ users'[p] = Put(users[p], call[p][t].user)
            /\ call[p][t].user.username \notin DOMAIN users[p]
        BY <3>2 DEF Insert, Inv, TypeOK, BusyOK
      <4> QED  BY <4>1 DEF Put
    <3>3. CASE ~(Insert(q, t) /\ q = p)
      <4>1. users'[p] = users[p]
        BY <3>1, <3>3 DEF Calls, RegisterExisting, RegisterNew, Authenticate, Insert,
                          AppendLine, TakeResult, Inv, TypeOK
      <4> QED  BY <4>1
    <3> QED  BY <3>2, <3>3
  <2> QED  BY <2>1, <2>2 DEF Next
<1>2. [Kept1]_dbVars <=> [\A p \in Procs : phase[p] = "serving" /\ phase'[p] = "serving" =>
          \A name \in DOMAIN users[p] : /\ name \in DOMAIN users'[p]
                                        /\ users'[p][name] = users[p][name]]_dbVars
  OBVIOUS
<1> HIDE DEF Kept1
<1> QED  BY <1>1, <1>2, InitInv, StepInv, PTL DEF Spec, AccountsAreStable
-----------------------------------------------------------------------------
(* Durability, where nothing goes wrong around the only process: no stream *)
(* fails to open, no save is cut short, and every credential is storable.  *)

\* What is in the file and the rest of it that is still buffered are the lines
\* of the users written so far; when nobody saves, the last line is whole.
SaveInv(p) ==
    /\ phase[p] = "saving" => /\ out[p].pos = Len(file)
                              /\ Written(file \o out[p].buffer, users[p], out[p].written)
    /\ phase[p] # "saving" => Complete(file) /\ out[p] = ClosedStream

LEMMA SaveBegins ==
    ASSUME TypeOK, NEW p \in Procs, SaveInv(p), SaveTruncates(p)
    PROVE  SaveInv(p)'
<1>1. /\ phase'[p] = "saving" /\ file' = <<>> /\ users' = users /\ out'[p] = ClosedStream
  BY DEF SaveTruncates, SaveInv, TypeOK
<1>2. <<>> \o <<>> = <<>> /\ Len(<<>>) = 0
  OBVIOUS
<1>3. Written(<<>>, users[p], {})
  BY NothingWritten
<1> QED  BY <1>1, <1>2, <1>3 DEF SaveInv, ClosedStream

\* However much of a line reaches the file, the file and the buffer together
\* have one line more.
LEMMA SaveGoesOn ==
    ASSUME TypeOK, NEW p \in Procs, StorableMap(users[p]), SaveInv(p), SaveLine(p)
    PROVE  /\ SaveInv(p)'
           /\ \E name \in DOMAIN users[p] :
                 file' \o out'[p].buffer =
                     (file \o out[p].buffer) \o LineOf(EntryOf(users[p], name))
<1>1. PICK name \in DOMAIN users[p], pending \in Seq(Byte), n \in Nat :
         /\ IsFirst(name, DOMAIN users[p] \ out[p].written)
         /\ pending = out[p].buffer \o LineOf(EntryOf(users[p], name))
         /\ n \in 0..Len(pending)
         /\ file' = WrittenAt(file, out[p].pos, SubSeq(pending, 1, n))
         /\ out' = [out EXCEPT ![p] = [written |-> out[p].written \cup {name},
                                      buffer  |-> SubSeq(pending, n + 1, Len(pending)),
                                      pos     |-> out[p].pos + n]]
         /\ LineOf(EntryOf(users[p], name)) \in Seq(Byte)
  BY SaveLineIs
<1> DEFINE line == LineOf(EntryOf(users[p], name))
           head == SubSeq(pending, 1, n)
           rest == SubSeq(pending, n + 1, Len(pending))
<1>2. /\ phase[p] = "saving" /\ phase' = phase /\ users' = users
      /\ out[p].pos = Len(file) /\ out[p].pos \in Nat /\ file \in Seq(Byte)
      /\ out[p].buffer \in Seq(Byte)
      /\ Written(file \o out[p].buffer, users[p], out[p].written)
  BY DEF SaveLine, SaveInv, TypeOK, Stream
<1>3. head \in Seq(Byte) /\ Len(head) = n /\ rest \in Seq(Byte) /\ head \o rest = pending
  BY <1>1, Parts
<1>4. out'[p] = [written |-> out[p].written \cup {name}, buffer |-> rest,
                 pos |-> out[p].pos + n]
  BY <1>1 DEF TypeOK
<1>5. line \in Seq(Byte) /\ pending = out[p].buffer \o line
  BY <1>1
<1>6. name \in DOMAIN users[p] \ out[p].written
  BY <1>1 DEF IsFirst
<1>7. Written((file \o out[p].buffer) \o line, users[p], out[p].written \cup {name})
  BY <1>2, <1>6, LoadSaved
<1> HIDE DEF line, head, rest
<1>8. file' = file \o head
  BY <1>1, <1>2, <1>3, WrittenAtType DEF head
<1>9. Len(file') = Len(file) + n
  BY <1>2, <1>3, <1>8, ConcatProperties
<1>10. file' \o rest = (file \o out[p].buffer) \o line
  <2>1. ASSUME NEW a \in Seq(Byte), NEW b \in Seq(Byte), NEW c \in Seq(Byte)
        PROVE  (a \o b) \o c = a \o (b \o c)
    BY ConcatAssociative
  <2>2. (file \o head) \o rest = file \o (head \o rest)
    <3>1. file \in Seq(Byte) /\ head \in Seq(Byte) /\ rest \in Seq(Byte)
      BY <1>2, <1>3
    <3> QED  BY <2>1, <3>1
  <2>3. (file \o out[p].buffer) \o line = file \o (out[p].buffer \o line)
    BY <1>2, <1>5, <2>1
  <2> QED  BY <1>3, <1>5, <1>8, <2>2, <2>3
<1>11. /\ out'[p].written = out[p].written \cup {name} /\ out'[p].buffer = rest
       /\ out'[p].pos = Len(file')
  BY <1>2, <1>4, <1>9
<1>12. Written(file' \o out'[p].buffer, users'[p], out'[p].written)
  BY <1>2, <1>7, <1>10, <1>11
<1>13. file' \o out'[p].buffer =
          (file \o out[p].buffer) \o LineOf(EntryOf(users[p], name))
  BY <1>10, <1>11 DEF line
<1> QED  BY <1>2, <1>6, <1>11, <1>12, <1>13 DEF SaveInv

LEMMA SaveEnds ==
    ASSUME TypeOK, NEW p \in Procs, SaveInv(p), SaveCloses(p)
    PROVE  Load(file') = users[p] /\ SaveInv(p)'
<1>1. /\ phase[p] = "saving" /\ phase'[p] = "down" /\ out'[p] = ClosedStream
      /\ out[p].pos = Len(file) /\ out[p].pos \in Nat /\ file \in Seq(Byte)
      /\ out[p].buffer \in Seq(Byte) /\ IsUserMap(users[p])
      /\ Written(file \o out[p].buffer, users[p], DOMAIN users[p])
      /\ file' = WrittenAt(file, out[p].pos, out[p].buffer)
  BY DEF SaveCloses, SaveInv, TypeOK, Stream
<1>2. file' = file \o out[p].buffer
  BY <1>1, WrittenAtType
<1>3. Load(file') = users[p] /\ Complete(file')
  BY <1>1, <1>2, AllWritten DEF Written
<1> QED  BY <1>1, <1>3 DEF SaveInv

\* The other steps of a process leave the stream closed and the file whole.
LEMMA SaveStays ==
    ASSUME TypeOK, NEW p \in Procs, SaveInv(p), file' = file, phase[p] # "saving",
           phase'[p] # "saving", out' = out \/ out'[p] = ClosedStream
    PROVE  SaveInv(p)'
BY DEF SaveInv

LEMMA SaveAppends ==
    ASSUME TypeOK, NEW p \in Procs, SaveInv(p), NEW u \in User,
           file' = file \o LineOf(u), phase[p] # "saving", phase' = phase, out' = out
    PROVE  SaveInv(p)'
<1>1. Complete(file')
  BY LineOfIs DEF TypeOK
<1> QED  BY <1>1 DEF SaveInv

\* Durable is not inductive: a failed bind writes the memory over the file,
\* so the memory must be in step with the file and fit to be written.
DurableInv(p) ==
    /\ Inv
    /\ InStep
    /\ Durable
    /\ StorableMap(users[p])
    /\ SaveInv(p)
    /\ \A t \in Threads : call[p][t].at = "appending" =>
                             call[p][t].user.username \notin DOMAIN Load(file)

LEMMA OnRecordOfOne ==
    ASSUME NEW p, Procs = {p}
    PROVE  OnRecord = IF phase[p] = "saving" THEN users[p] ELSE Load(file)
BY DEF OnRecord

LEMMA OnRecordOfOneNext ==
    ASSUME NEW p, Procs = {p}
    PROVE  OnRecord' = IF phase'[p] = "saving" THEN users'[p] ELSE Load(file')
BY DEF OnRecord

LEMMA InitDurableInv ==
    ASSUME NEW p, Procs = {p}, Init
    PROVE  DurableInv(p)
<1>1. /\ phase[p] = "down" /\ users[p] = EmptyMap /\ granted = {} /\ file = <<>>
      /\ \A t \in Threads : call[p][t].at = "idle"
      /\ out[p] = ClosedStream
  BY DEF Init, Idle
<1> QED  BY <1>1, InitInv, EmptyMapStorable
         DEF DurableInv, InStep, Durable, SaveInv, Complete

LEMMA LifecycleDurable ==
    ASSUME NEW p, Procs = {p}, FilesWork, DurableInv(p), Lifecycle(p)
    PROVE  DurableInv(p)'
<1>1. Inv'
  BY LifecycleInv DEF DurableInv
<1>2. /\ file \in Seq(Byte) /\ granted' = granted /\ TypeOK /\ SaveInv(p)
      /\ phase \in [Procs -> Phases] /\ p \in Procs
      /\ users = [q \in Procs |-> users[q]]
  BY DEF DurableInv, Inv, TypeOK, Lifecycle, Construct, BindSucceeds, BindFails,
         SaveTruncates, SaveLine, SaveCloses, SaveCannotOpen, Kill
<1>3. phase'[p] # "serving" => \A t \in Threads : call'[p][t].at \notin {"inserting", "appending"}
  BY <1>1, <1>2 DEF Inv, BusyOK
<1>4. CASE Construct(p)
  <2>1. phase[p] = "down" /\ phase'[p] = "loaded" /\ file' = file /\ users'[p] = Load(file)
    BY <1>2, <1>4 DEF Construct, FilesWork
  <2>2. Durable'
    BY <1>2, <2>1, OnRecordOfOne, OnRecordOfOneNext DEF DurableInv, Durable
  <2>3. SaveInv(p)'
    BY <1>2, <1>4, <2>1, SaveStays DEF Construct
  <2> QED  BY <1>1, <1>2, <1>3, <2>1, <2>2, <2>3, LoadStorable DEF DurableInv, InStep
<1>5. CASE BindSucceeds(p) \/ BindFails(p)
  <2>1. /\ phase[p] = "loaded" /\ phase'[p] \in {"serving", "failed"}
        /\ file' = file /\ users' = users /\ call' = call
    BY <1>2, <1>5 DEF BindSucceeds, BindFails
  <2>2. Durable'
    BY <1>2, <2>1, OnRecordOfOne, OnRecordOfOneNext DEF DurableInv, Durable
  <2>3. SaveInv(p)'
    BY <1>2, <1>5, <2>1, SaveStays DEF BindSucceeds, BindFails
  <2> QED  BY <1>1, <1>2, <2>1, <2>2, <2>3 DEF DurableInv, InStep
<1>6. CASE SaveTruncates(p)
  <2>1. /\ phase[p] = "failed" /\ phase'[p] = "saving" /\ file' = <<>> /\ users' = users
        /\ call' = call
    BY <1>2, <1>6 DEF SaveTruncates
  <2>2. users[p] = Load(file)
    BY <2>1 DEF DurableInv, InStep, Inv, BusyOK
  <2>3. Durable'
    BY <1>2, <2>1, <2>2, OnRecordOfOne, OnRecordOfOneNext DEF DurableInv, Durable
  <2>4. SaveInv(p)'
    BY <1>2, <1>6, SaveBegins
  <2> QED  BY <1>1, <1>2, <1>3, <2>1, <2>3, <2>4 DEF DurableInv, InStep
<1>7. CASE SaveLine(p)
  <2>1. /\ phase[p] = "saving" /\ phase' = phase /\ users' = users /\ call' = call
    BY <1>7 DEF SaveLine
  <2>2. Durable'
    BY <1>2, <2>1, OnRecordOfOne, OnRecordOfOneNext DEF DurableInv, Durable
  <2>3. SaveInv(p)'
    BY <1>2, <1>7, SaveGoesOn DEF DurableInv
  <2> QED  BY <1>1, <1>2, <1>3, <2>1, <2>2, <2>3 DEF DurableInv, InStep
<1>10. CASE SaveCloses(p)
  <2>1. phase[p] = "saving" /\ phase'[p] = "down" /\ users'[p] = EmptyMap
    BY <1>2, <1>10 DEF SaveCloses
  <2>2. Load(file') = users[p] /\ SaveInv(p)'
    BY <1>2, <1>10, SaveEnds
  <2>3. Durable'
    BY <1>2, <2>1, <2>2, OnRecordOfOne, OnRecordOfOneNext DEF DurableInv, Durable
  <2> QED  BY <1>1, <1>2, <1>3, <2>1, <2>2, <2>3, EmptyMapStorable DEF DurableInv, InStep
<1>8. CASE Kill(p)
  <2>1. phase[p] # "saving" /\ phase'[p] = "down" /\ users'[p] = EmptyMap /\ file' = file
    BY <1>2, <1>8 DEF Kill, FilesWork
  <2>2. Durable'
    BY <1>2, <2>1, OnRecordOfOne, OnRecordOfOneNext DEF DurableInv, Durable
  <2>3. SaveInv(p)'
    <3>1. out'[p] = ClosedStream
      BY <1>2, <1>8 DEF Kill, TypeOK
    <3> QED  BY <1>2, <2>1, <3>1, SaveStays
  <2> QED  BY <1>1, <1>2, <1>3, <2>1, <2>2, <2>3, EmptyMapStorable DEF DurableInv, InStep
<1>9. ~SaveCannotOpen(p)
  BY DEF SaveCannotOpen, FilesWork
<1> QED  BY <1>4, <1>5, <1>6, <1>7, <1>8, <1>9, <1>10 DEF Lifecycle

LEMMA CallsDurable ==
    ASSUME NEW p, Procs = {p}, FilesWork, \A u \in Creds : Storable(u),
           DurableInv(p), NEW t \in Threads, Calls(p, t)
    PROVE  DurableInv(p)'
<1>1. Inv' /\ p \in Procs
  BY CallsInv DEF DurableInv
<1>2. /\ file \in Seq(Byte) /\ phase' = phase /\ out' = out /\ TypeOK /\ SaveInv(p)
      /\ \A s \in Threads : s # t => call'[p][s] = call[p][s]
  BY <1>1 DEF DurableInv, Inv, TypeOK, Calls, RegisterExisting, RegisterNew, Authenticate,
         Insert, AppendLine, TakeResult
<1>3. CASE Insert(p, t)
  <2> DEFINE u == call[p][t].user
  <2>1. /\ phase[p] = "serving" /\ file' = file /\ granted' = granted
        /\ users'[p] = Put(users[p], u)
        /\ call'[p][t].at = "appending" /\ call'[p][t].user = u
        /\ u \in Creds /\ u \in User
        /\ u.username \notin DOMAIN users[p]
    BY <1>1, <1>3, CallShape, CredsAssumption
       DEF Insert, DurableInv, Inv, TypeOK, BusyOK, Busy
  <2>2. \A s \in Threads : s # t => call[p][s].at \notin {"inserting", "appending"}
    BY <1>1, <1>3 DEF Insert, DurableInv, Inv, OneInside
  <2>3. users[p] = Load(file)
    BY <1>1, <1>3, <2>1, <2>2 DEF Insert, DurableInv, InStep
  <2>4. StorableMap(users'[p])
    BY <2>1, PutStorable DEF DurableInv
  <2>5. Durable'
    BY <1>2, <2>1, OnRecordOfOne, OnRecordOfOneNext DEF DurableInv, Durable
  <2> HIDE DEF u
  <2>6. InStep'
    BY <1>2, <2>1, <2>2, <2>3 DEF InStep
  <2>7. \A s \in Threads : call'[p][s].at = "appending" =>
                              call'[p][s].user.username \notin DOMAIN Load(file')
    BY <1>2, <2>1, <2>2, <2>3
  <2>8. SaveInv(p)'
    BY <1>1, <1>2, <2>1, SaveStays
  <2> QED  BY <1>1, <1>2, <2>1, <2>4, <2>5, <2>6, <2>7, <2>8 DEF DurableInv
<1>4. CASE AppendLine(p, t)
  <2> DEFINE u == call[p][t].user
  <2>1. /\ phase[p] = "serving" /\ file' = file \o LineOf(u)
        /\ granted' = granted \cup {u} /\ users' = users
        /\ call'[p][t].at = "registered"
        /\ u \in Creds /\ u \in User
        /\ u.username \notin DOMAIN Load(file)
        /\ users[p] = Put(Load(file), u)
    BY <1>1, <1>4, CallShape, CredsAssumption
       DEF AppendLine, FileWith, FilesWork, DurableInv, InStep, Inv, TypeOK, BusyOK, Busy
  <2>2. \A s \in Threads : s # t => call[p][s].at \notin {"inserting", "appending"}
    BY <1>1, <1>4 DEF AppendLine, DurableInv, Inv, OneInside
  <2> HIDE DEF u
  <2>3. Load(file') = Put(Load(file), u)
    <3>1. Complete(file)
      BY <1>2, <2>1 DEF SaveInv
    <3> QED  BY <1>2, <2>1, <3>1, LoadAppend
  <2>4. Durable'
    <3>1. \A v \in granted : Matches(Load(file), v)
      BY <2>1, OnRecordOfOne DEF DurableInv, Durable
    <3>2. \A v \in granted : Matches(Load(file'), v)
      BY <2>1, <2>3, <3>1, PutMatches
    <3>3. Matches(Load(file'), u)
      BY <2>3 DEF Matches, Put
    <3> QED  BY <1>2, <2>1, <3>2, <3>3, OnRecordOfOneNext DEF Durable
  <2>5. InStep'
    BY <1>2, <2>1, <2>2, <2>3 DEF InStep
  <2>6. \A s \in Threads : call'[p][s].at # "appending"
    BY <1>2, <2>1, <2>2
  <2>7. SaveInv(p)'
    BY <1>1, <1>2, <2>1, SaveAppends
  <2> QED  BY <1>1, <1>2, <2>1, <2>4, <2>5, <2>6, <2>7 DEF DurableInv
<1>5. CASE ~Insert(p, t) /\ ~AppendLine(p, t)
  <2>1. /\ users' = users /\ file' = file /\ granted' = granted
        /\ call'[p][t].at # "appending" /\ call[p][t].at # "appending"
    BY <1>1, <1>5 DEF Calls, RegisterExisting, RegisterNew, Authenticate, TakeResult, MayCall,
              Idle, DurableInv, Inv, TypeOK
  <2>2. Durable'
    BY <1>2, <2>1, OnRecordOfOne, OnRecordOfOneNext DEF DurableInv, Durable
  <2>3. InStep'
    BY <1>2, <2>1 DEF DurableInv, InStep
  <2>4. SaveInv(p)'
    BY <1>2, <2>1 DEF SaveInv
  <2> QED  BY <1>1, <1>2, <2>1, <2>2, <2>3, <2>4 DEF DurableInv
<1> QED  BY <1>3, <1>4, <1>5

\* The faults of a behaviour are chosen once.
LEMMA FaultsStay == [Next]_dbVars => faults' = faults
<1>1. ASSUME NEW p \in Procs, Lifecycle(p) PROVE faults' = faults
  BY <1>1 DEF Lifecycle, Construct, BindSucceeds, BindFails, SaveTruncates, SaveLine,
              SaveCloses, SaveCannotOpen, Kill
<1>2. ASSUME NEW p \in Procs, NEW t \in Threads, Calls(p, t) PROVE faults' = faults
  BY <1>2 DEF Calls, RegisterExisting, RegisterNew, Insert, AppendLine, Authenticate,
              TakeResult
<1> QED  BY <1>1, <1>2 DEF Next, dbVars

\* The invariant the next two theorems share.
WorkingInv(p) == Inv /\ (FilesWork => DurableInv(p))

LEMMA WorkingInvInit ==
    ASSUME NEW p, Procs = {p}, Init
    PROVE  WorkingInv(p)
BY InitInv, InitDurableInv DEF WorkingInv

LEMMA WorkingInvStep ==
    ASSUME NEW p, Procs = {p}, \A u \in Creds : Storable(u),
           WorkingInv(p), [Next]_dbVars
    PROVE  WorkingInv(p)'
<1>1. Inv'
  BY StepInv DEF WorkingInv
<1>2. FilesWork' = FilesWork
  BY FaultsStay DEF FilesWork
<1>3. CASE FilesWork /\ Next
  BY <1>1, <1>2, <1>3, LifecycleDurable, CallsDurable DEF Next, WorkingInv
<1>4. CASE FilesWork /\ UNCHANGED dbVars
  <2>1. OnRecord' = OnRecord
    BY <1>4, OnRecordOfOne, OnRecordOfOneNext DEF dbVars
  <2> QED  BY <1>1, <1>4, <2>1 DEF dbVars, WorkingInv, DurableInv, InStep, Durable, SaveInv
<1>5. CASE ~FilesWork
  BY <1>1, <1>2, <1>5 DEF WorkingInv
<1> QED  BY <1>3, <1>4, <1>5

LEMMA WorkingInvHolds ==
    ASSUME NEW p, Procs = {p}, \A u \in Creds : Storable(u)
    PROVE  Spec => []WorkingInv(p)
<1>1. Init => WorkingInv(p)
  BY WorkingInvInit
<1>2. WorkingInv(p) /\ [Next]_dbVars => WorkingInv(p)'
  BY WorkingInvStep
<1> QED  BY <1>1, <1>2, PTL DEF Spec

\* With one process whose files work, what its sessions see is what the file
\* says, but for the one user between the map and the file.
THEOREM MemoryInStep ==
    ASSUME NEW p, Procs = {p}, \A u \in Creds : Storable(u)
    PROVE  Spec => []InStep
<1>1. WorkingInv(p) => InStep
  BY DEF WorkingInv, DurableInv, InStep
<1> QED  BY <1>1, WorkingInvHolds, PTL

\* With one process whose files work, an account whose registration was
\* reported is known, with its password, to every later launch: through kills
\* between any two steps, restarts, and binds that fail and save.
THEOREM AccountsAreDurable ==
    ASSUME NEW p, Procs = {p}, \A u \in Creds : Storable(u)
    PROVE  Spec => []Durable
<1>1. WorkingInv(p) => Durable
  BY DEF WorkingInv, DurableInv, Durable
<1> QED  BY <1>1, WorkingInvHolds, PTL

-----------------------------------------------------------------------------
(* With one server process whose save is not cut short: no bind that       *)
(* fails, no stream that does not open, no kill elsewhere, makes up an     *)
(* account or moves a password to another name.                            *)

\* save writes the map of a failed process, so the map must be fit to be read
\* back, and what is written of it so far must be.
OriginInv(p) ==
    /\ Inv
    /\ StorableMap(users[p])
    /\ SaveInv(p)
    /\ Accounts(users[p]) \subseteq granted \cup InFlight(p)
    /\ phase[p] # "saving" => Accounts(Load(file)) \subseteq granted

SavesWhole == "killInSave" \notin faults

LEMMA NoAccounts == Accounts(EmptyMap) = {}
BY DEF Accounts, EmptyMap

LEMMA PutAccounts ==
    ASSUME NEW map, NEW from, NEW more, Accounts(map) \subseteq from, from \subseteq more,
           NEW u \in User, u \in more
    PROVE  Accounts(Put(map, u)) \subseteq more
<1> SUFFICES ASSUME NEW name \in DOMAIN Put(map, u)
             PROVE  EntryOf(Put(map, u), name) \in more
  BY DEF Accounts
<1>1. CASE name = u.username
  <2>1. EntryOf(Put(map, u), name) = u
    BY <1>1 DEF Put, EntryOf, User
  <2> QED  BY <2>1
<1>2. CASE name # u.username
  <2>1. name \in DOMAIN map /\ EntryOf(Put(map, u), name) = EntryOf(map, name)
    BY <1>2 DEF Put, EntryOf
  <2> QED  BY <2>1 DEF Accounts
<1> QED  BY <1>1, <1>2

LEMMA InitOrigin ==
    ASSUME NEW p, Procs = {p}, Init
    PROVE  OriginInv(p)
<1>1. users[p] = EmptyMap /\ file = <<>> /\ phase[p] = "down" /\ out[p] = ClosedStream
  BY DEF Init
<1> QED  BY <1>1, InitInv, EmptyMapStorable, LoadNothing, NoAccounts
         DEF OriginInv, SaveInv, Complete

LEMMA LifecycleOrigin ==
    ASSUME NEW p, Procs = {p}, SavesWhole, OriginInv(p), Lifecycle(p)
    PROVE  OriginInv(p)'
<1>1. Inv'
  BY LifecycleInv DEF OriginInv
<1>2. /\ file \in Seq(Byte) /\ granted' = granted /\ TypeOK /\ SaveInv(p)
      /\ phase \in [Procs -> Phases] /\ p \in Procs
      /\ users = [q \in Procs |-> users[q]]
  BY DEF OriginInv, Inv, TypeOK, Lifecycle, Construct, BindSucceeds, BindFails,
         SaveTruncates, SaveLine, SaveCloses, SaveCannotOpen, Kill
\* What an empty map and a file that comes from granted are good for.
<1>3. ASSUME users'[p] = EmptyMap, Accounts(Load(file')) \subseteq granted, SaveInv(p)'
      PROVE  OriginInv(p)'
  BY <1>1, <1>2, <1>3, EmptyMapStorable, NoAccounts DEF OriginInv
<1>4. CASE Construct(p)
  <2>1. /\ phase[p] = "down" /\ phase'[p] = "loaded" /\ file' = file /\ call' = call
        /\ out' = out
    BY <1>2, <1>4 DEF Construct
  <2>2. SaveInv(p)' /\ InFlight(p)' = InFlight(p)
    BY <1>2, <2>1, SaveStays DEF InFlight
  <2>3. CASE users' = users
    BY <1>1, <1>2, <2>1, <2>2, <2>3 DEF OriginInv
  <2>4. CASE users'[p] = Load(file)
    BY <1>1, <1>2, <2>1, <2>2, <2>4, LoadStorable DEF OriginInv
  <2> QED  BY <1>2, <1>4, <2>3, <2>4 DEF Construct
<1>5. CASE BindSucceeds(p) \/ BindFails(p)
  <2>1. /\ users' = users /\ call' = call /\ file' = file /\ out' = out
        /\ phase[p] = "loaded" /\ phase'[p] \in {"serving", "failed"}
    BY <1>2, <1>5 DEF BindSucceeds, BindFails
  <2>2. SaveInv(p)' /\ InFlight(p)' = InFlight(p)
    BY <1>2, <2>1, SaveStays DEF InFlight
  <2> QED  BY <1>1, <1>2, <2>1, <2>2 DEF OriginInv
<1>6. CASE SaveTruncates(p) \/ SaveLine(p)
  <2>1. users' = users /\ call' = call /\ phase'[p] = "saving"
    BY <1>2, <1>6 DEF SaveTruncates, SaveLine
  <2>2. SaveInv(p)' /\ InFlight(p)' = InFlight(p)
    BY <1>2, <1>6, <2>1, SaveBegins, SaveGoesOn DEF InFlight, OriginInv
  <2> QED  BY <1>1, <1>2, <2>1, <2>2 DEF OriginInv
<1>7. CASE SaveCloses(p)
  <2>1. phase[p] = "saving" /\ users'[p] = EmptyMap
    BY <1>2, <1>7 DEF SaveCloses
  <2>2. Load(file') = users[p] /\ SaveInv(p)'
    BY <1>2, <1>7, SaveEnds
  <2>3. InFlight(p) = {}
    BY <1>2, <2>1 DEF OriginInv, Inv, BusyOK, InFlight
  <2>4. Accounts(Load(file')) \subseteq granted
    BY <2>2, <2>3 DEF OriginInv
  <2> QED  BY <1>3, <2>1, <2>2, <2>4
<1>8. CASE SaveCannotOpen(p) \/ Kill(p)
  <2>1. /\ phase[p] # "saving" /\ phase'[p] = "down" /\ users'[p] = EmptyMap /\ file' = file
        /\ out' = out \/ out'[p] = ClosedStream
    BY <1>2, <1>8 DEF SaveCannotOpen, Kill, SavesWhole, TypeOK
  <2>2. SaveInv(p)'
    BY <1>2, <2>1, SaveStays
  <2> QED  BY <1>3, <2>1, <2>2 DEF OriginInv
<1> QED  BY <1>4, <1>5, <1>6, <1>7, <1>8 DEF Lifecycle

LEMMA CallsOrigin ==
    ASSUME NEW p, Procs = {p}, \A u \in Creds : Storable(u),
           OriginInv(p), NEW t \in Threads, Calls(p, t)
    PROVE  OriginInv(p)'
<1>1. Inv' /\ p \in Procs
  BY CallsInv DEF OriginInv
<1>2. /\ file \in Seq(Byte) /\ phase' = phase /\ out' = out /\ TypeOK /\ SaveInv(p)
      /\ \A s \in Threads : s # t => call'[p][s] = call[p][s]
  BY <1>1 DEF OriginInv, Inv, TypeOK, Calls, RegisterExisting, RegisterNew, Authenticate,
         Insert, AppendLine, TakeResult
<1>3. CASE Insert(p, t)
  <2> DEFINE u == call[p][t].user
  <2>1. /\ phase[p] = "serving" /\ file' = file /\ granted' = granted
        /\ users'[p] = Put(users[p], u)
        /\ call'[p][t].at = "appending" /\ call'[p][t].user = u
        /\ call[p][t].at = "inserting"
        /\ u \in User /\ Storable(u)
    BY <1>1, <1>3, CallShape, CredsAssumption
       DEF Insert, OriginInv, Inv, TypeOK, BusyOK, Busy
  <2> HIDE DEF u
  <2>2. InFlight(p) \subseteq InFlight(p)' /\ u \in InFlight(p)'
    BY <1>2, <2>1 DEF InFlight
  <2>3. Accounts(users'[p]) \subseteq granted' \cup InFlight(p)'
    <3>1. /\ Accounts(users[p]) \subseteq granted \cup InFlight(p)
          /\ granted \cup InFlight(p) \subseteq granted' \cup InFlight(p)'
          /\ u \in granted' \cup InFlight(p)'
      BY <2>1, <2>2 DEF OriginInv
    <3> QED  BY <2>1, <3>1, PutAccounts
  <2>4. StorableMap(users'[p])
    BY <2>1, PutStorable DEF OriginInv
  <2>5. SaveInv(p)'
    BY <1>1, <1>2, <2>1, SaveStays
  <2> QED  BY <1>1, <1>2, <2>1, <2>3, <2>4, <2>5 DEF OriginInv
<1>4. CASE AppendLine(p, t)
  <2> DEFINE u == call[p][t].user
  <2>1. /\ phase[p] = "serving"
        /\ file' = file \o LineOf(u) \/ file' = file
        /\ granted' = granted \cup {u} /\ users' = users
        /\ u \in User /\ Storable(u)
    BY <1>1, <1>4, CallShape, CredsAssumption
       DEF AppendLine, FileWith, OriginInv, Inv, TypeOK, BusyOK, Busy
  <2>2. InFlight(p) \subseteq {u}
    BY <1>1, <1>4 DEF AppendLine, OriginInv, Inv, OneInside, InFlight
  <2> HIDE DEF u
  <2>3. Accounts(users'[p]) \subseteq granted' \cup InFlight(p)'
    BY <2>1, <2>2 DEF OriginInv
  <2>4. Accounts(Load(file)) \subseteq granted'
    BY <2>1 DEF OriginInv
  <2>5. Accounts(Put(Load(file), u)) \subseteq granted'
    BY <2>1, <2>4, PutAccounts
  <2>6. Accounts(Load(file')) \subseteq granted'
    <3>1. Complete(file)
      BY <1>2, <2>1 DEF SaveInv
    <3> QED  BY <1>2, <2>1, <2>4, <2>5, <3>1, LoadAppend
  <2>7. SaveInv(p)'
    BY <1>1, <1>2, <2>1, SaveAppends, SaveStays
  <2> QED  BY <1>1, <1>2, <2>1, <2>3, <2>6, <2>7 DEF OriginInv
<1>5. CASE ~Insert(p, t) /\ ~AppendLine(p, t)
  <2>1. /\ users' = users /\ file' = file /\ granted' = granted
        /\ call'[p][t].at # "appending" /\ call[p][t].at # "appending"
    BY <1>1, <1>5 DEF Calls, RegisterExisting, RegisterNew, Authenticate, TakeResult, MayCall,
              Idle, OriginInv, Inv, TypeOK
  <2>2. InFlight(p)' = InFlight(p)
    BY <1>2, <2>1 DEF InFlight
  <2>3. SaveInv(p)'
    BY <1>2, <2>1 DEF SaveInv
  <2> QED  BY <1>1, <1>2, <2>1, <2>2, <2>3 DEF OriginInv
<1> QED  BY <1>3, <1>4, <1>5

\* authenticate accepts, now and after every later launch, only what some
\* registerUser was given, whatever fails to open or to bind and wherever the
\* process is killed but within save(), if every credential is storable.
THEOREM NothingMadeUp ==
    ASSUME NEW p, Procs = {p}, \A u \in Creds : Storable(u)
    PROVE  Spec => []OnlyRegistered
<1> DEFINE I == Inv /\ (SavesWhole => OriginInv(p))
<1>1. Init => I
  BY InitOrigin, InitInv
<1>2. I /\ [Next]_dbVars => I'
  <2> SUFFICES ASSUME I, [Next]_dbVars PROVE I'
    OBVIOUS
  <2>1. Inv'
    BY StepInv
  <2>2. SavesWhole' = SavesWhole
    BY FaultsStay DEF SavesWhole
  <2>3. CASE SavesWhole /\ Next
    <3>1. OriginInv(p)'
      BY <2>3, LifecycleOrigin, CallsOrigin DEF Next
    <3> QED  BY <2>1, <3>1
  <2>4. CASE SavesWhole /\ UNCHANGED dbVars
    <3>1. OriginInv(p)'
      BY <2>1, <2>4 DEF OriginInv, SaveInv, InFlight, dbVars
    <3> QED  BY <2>1, <3>1
  <2>5. CASE ~SavesWhole
    BY <2>1, <2>2, <2>5
  <2> QED  BY <2>3, <2>4, <2>5
<1>3. I => OnlyRegistered
  <2> SUFFICES ASSUME I, SavesWhole
               PROVE  /\ Accounts(users[p]) \subseteq granted \cup InFlight(p)
                      /\ phase[p] # "saving" => Accounts(Load(file)) \subseteq granted
    BY DEF OnlyRegistered, SavesWhole
  <2> QED  BY DEF OriginInv
<1> QED  BY <1>1, <1>2, <1>3, PTL DEF Spec

-----------------------------------------------------------------------------
(* With one server process, whatever goes wrong around it, a kill within   *)
(* save() included: what a save leaves behind.                             *)

\* The map of the process is fit to be written, wherever it came from, and the
\* lines written of it are whole and its own but for the one the buffer ends in.
TearInv(p) ==
    /\ Inv
    /\ StorableMap(users[p])
    /\ phase[p] = "saving" => SaveInv(p) /\ WholeLines(file \o out[p].buffer, users[p])
    /\ phase[p] # "saving" => out[p] = ClosedStream

LEMMA TearBegins ==
    ASSUME NEW p \in Procs, TearInv(p), SaveTruncates(p)
    PROVE  (SaveInv(p) /\ WholeLines(file \o out[p].buffer, users[p]))'
<1>1. /\ phase'[p] = "saving" /\ file' = <<>> /\ users' = users /\ out'[p] = ClosedStream
  BY DEF SaveTruncates, TearInv, Inv, TypeOK
<1>2. <<>> \o <<>> = <<>> /\ Len(<<>>) = 0
  OBVIOUS
<1>3. Written(<<>>, users[p], {}) /\ WholeLines(<<>>, users[p])
  BY <1>2, NothingWritten DEF WholeLines
<1> QED  BY <1>1, <1>2, <1>3 DEF SaveInv, ClosedStream

LEMMA TearGoesOn ==
    ASSUME NEW p \in Procs, TearInv(p), SaveLine(p)
    PROVE  (SaveInv(p) /\ WholeLines(file \o out[p].buffer, users[p]))'
<1>1. /\ phase[p] = "saving" /\ phase'[p] = "saving" /\ users' = users
      /\ TypeOK /\ SaveInv(p) /\ StorableMap(users[p])
      /\ WholeLines(file \o out[p].buffer, users[p])
      /\ file \o out[p].buffer \in Seq(Byte)
  BY ConcatProperties DEF SaveLine, TearInv, SaveInv, Inv, TypeOK, Written
<1>2. SaveInv(p)'
  BY <1>1, SaveGoesOn
<1>3. PICK name \in DOMAIN users[p] :
         file' \o out'[p].buffer =
             (file \o out[p].buffer) \o LineOf(EntryOf(users[p], name))
  BY <1>1, SaveGoesOn
<1>4. Written(file' \o out'[p].buffer, users[p], out'[p].written)
  BY <1>1, <1>2 DEF SaveInv
<1> DEFINE saved == file \o out[p].buffer
<1>5. WholeLines(saved \o LineOf(EntryOf(users[p], name)), users[p])
  <2>1. /\ saved \in Seq(Byte) /\ WholeLines(saved, users[p])
        /\ Written(saved \o LineOf(EntryOf(users[p], name)), users[p], out'[p].written)
    BY <1>1, <1>3, <1>4
  <2> HIDE DEF saved
  <2> QED  BY <1>1, <2>1, WholeLinesGrow
<1> QED  BY <1>1, <1>2, <1>3, <1>5

LEMMA TearStep ==
    ASSUME NEW p, Procs = {p}, \A u \in Creds : Storable(u), TearInv(p), [Next]_dbVars
    PROVE  TearInv(p)'
<1>1. Inv' /\ p \in Procs
  BY StepInv DEF TearInv
<1>2. TypeOK /\ p \in DOMAIN phase /\ p \in DOMAIN users /\ p \in DOMAIN out /\ file \in Seq(Byte)
  BY <1>1 DEF TearInv, Inv, TypeOK
\* Outside a save there is nothing to show but that the map is fit.
<1>3. ASSUME phase'[p] # "saving", out'[p] = ClosedStream, StorableMap(users'[p])
      PROVE  TearInv(p)'
  BY <1>1, <1>3 DEF TearInv
<1>4. CASE SaveTruncates(p) \/ SaveLine(p)
  <2>1. users' = users /\ phase'[p] = "saving"
    BY <1>1, <1>2, <1>4 DEF SaveTruncates, SaveLine, TypeOK
  <2>2. (SaveInv(p) /\ WholeLines(file \o out[p].buffer, users[p]))'
    BY <1>1, <1>4, TearBegins, TearGoesOn
  <2> QED  BY <1>1, <2>1, <2>2 DEF TearInv
<1>5. CASE SaveCloses(p) \/ SaveCannotOpen(p) \/ Kill(p)
  <2>1. phase'[p] = "down" /\ users'[p] = EmptyMap /\ (out'[p] = ClosedStream \/ out' = out)
    BY <1>1, <1>2, <1>5 DEF SaveCloses, SaveCannotOpen, Kill, TypeOK
  <2>2. out'[p] = ClosedStream
    BY <1>1, <1>2, <1>5, <2>1 DEF SaveCloses, SaveCannotOpen, Kill, TypeOK, TearInv
  <2> QED  BY <1>3, <2>1, <2>2, EmptyMapStorable
<1>6. CASE Construct(p) \/ BindSucceeds(p) \/ BindFails(p)
  <2>1. phase[p] # "saving" /\ phase'[p] # "saving" /\ out' = out
    BY <1>1, <1>2, <1>6 DEF Construct, BindSucceeds, BindFails, TypeOK
  <2>2. users'[p] = users[p] \/ users'[p] = Load(file)
    BY <1>1, <1>2, <1>6 DEF Construct, BindSucceeds, BindFails, TypeOK
  <2>3. StorableMap(users'[p])
    BY <1>2, <2>2, LoadStorable DEF TearInv
  <2> QED  BY <1>3, <2>1, <2>3 DEF TearInv
<1>7. ASSUME NEW t \in Threads, Calls(p, t)
      PROVE  TearInv(p)'
  <2>1. CASE Insert(p, t)
    <3> DEFINE u == call[p][t].user
    <3>1. /\ phase[p] = "serving" /\ phase' = phase /\ out' = out
          /\ users'[p] = Put(users[p], u) /\ u \in User /\ Storable(u)
      BY <1>1, <2>1, CallShape, CredsAssumption
         DEF Insert, TearInv, Inv, TypeOK, BusyOK, Busy
    <3> HIDE DEF u
    <3>2. StorableMap(users'[p])
      BY <3>1, PutStorable DEF TearInv
    <3> QED  BY <1>3, <3>1, <3>2 DEF TearInv
  <2>2. CASE ~Insert(p, t)
    <3>1. users' = users /\ phase' = phase /\ out' = out
      BY <1>7, <2>2 DEF Calls, RegisterExisting, RegisterNew, Authenticate, AppendLine,
                        TakeResult
    <3>2. phase[p] = "serving" \/ file' = file
      BY <1>1, <1>7, <2>2 DEF Calls, RegisterExisting, RegisterNew, Authenticate, AppendLine,
                        TakeResult, TearInv, Inv, BusyOK
    <3>3. CASE phase[p] = "serving"
      BY <1>3, <3>1, <3>3 DEF TearInv
    <3>4. CASE file' = file
      BY <1>1, <3>1, <3>4 DEF TearInv, SaveInv
    <3> QED  BY <3>2, <3>3, <3>4
  <2> QED  BY <2>1, <2>2
<1>8. CASE UNCHANGED dbVars
  BY <1>1, <1>8 DEF TearInv, SaveInv, dbVars
<1> QED  BY <1>4, <1>5, <1>6, <1>7, <1>8 DEF Next, Lifecycle

\* A save that is cut short tears its last line and no other, whatever came
\* before it: binds and streams that fail, kills, and saves cut short earlier,
\* whose torn lines it may have loaded.
THEOREM SaveTearsTheEnd ==
    ASSUME NEW p, Procs = {p}, \A u \in Creds : Storable(u)
    PROVE  Spec => []SaveTearsOnlyTheEnd
<1>1. Init => TearInv(p)
  <2> SUFFICES ASSUME Init PROVE TearInv(p)
    OBVIOUS
  <2>1. users[p] = EmptyMap /\ phase[p] = "down" /\ out[p] = ClosedStream
    BY DEF Init
  <2> QED  BY <2>1, InitInv, EmptyMapStorable DEF TearInv
<1>2. TearInv(p) /\ [Next]_dbVars => TearInv(p)'
  BY TearStep
<1>3. TearInv(p) => SaveTearsOnlyTheEnd
  <2> SUFFICES ASSUME TearInv(p), phase[p] = "saving"
               PROVE  WholeLines(file, users[p])
    BY DEF SaveTearsOnlyTheEnd, WholeLines
  <2>1. /\ file \in Seq(Byte) /\ out[p].buffer \in Seq(Byte)
        /\ WholeLines(file \o out[p].buffer, users[p])
    BY DEF TearInv, Inv, TypeOK, Stream
  <2> QED  BY <2>1, WholeLinesOfPart
<1> QED  BY <1>1, <1>2, <1>3, PTL DEF Spec

-----------------------------------------------------------------------------
(* With one server process whose files work: the registry.                 *)

LEMMA OnlyProcIs == ASSUME NEW p, Procs = {p} PROVE OnlyProc = p
BY DEF OnlyProc

\* The two halves of the mapping, and what they are where the files work.
Table   == IF FilesWork THEN OnRecord ELSE EmptyMap
Results == [t \in Threads |->
               IF FilesWork /\ call[OnlyProc][t].at \in {"registered", "authenticated"}
               THEN call[OnlyProc][t] ELSE [at |-> "none"]]

Serving == Procs = {OnlyProc} /\ WorkingInv(OnlyProc) /\ FilesWork

LEMMA RecordOfServing ==
    ASSUME Serving, phase[OnlyProc] = "serving"
    PROVE  OnRecord = Load(file)
BY OnRecordOfOne DEF Serving

\* Nothing in the life of the process changes what is on record: when it
\* truncates the file it still has the map, which then becomes the file.
LEMMA LifecycleRecord ==
    ASSUME Serving, Lifecycle(OnlyProc)
    PROVE  OnRecord' = OnRecord
<1> DEFINE p == OnlyProc
<1>1. DurableInv(p) /\ Procs = {p} /\ p \in Procs
  BY DEF Serving, WorkingInv
<1>2. /\ file \in Seq(Byte) /\ TypeOK /\ SaveInv(p)
      /\ phase \in [Procs -> Phases] /\ users = [q \in Procs |-> users[q]]
  BY <1>1 DEF DurableInv, Inv, TypeOK
<1>3. CASE Construct(p) \/ BindSucceeds(p) \/ BindFails(p) \/ Kill(p)
  <2>1. phase[p] # "saving" /\ phase'[p] # "saving" /\ file' = file
    BY <1>1, <1>2, <1>3
       DEF Construct, BindSucceeds, BindFails, Kill, Serving, FilesWork
  <2> QED  BY <1>1, <2>1, OnRecordOfOne, OnRecordOfOneNext
<1>4. CASE SaveTruncates(p)
  <2>1. phase[p] = "failed" /\ phase'[p] = "saving" /\ users' = users
    BY <1>1, <1>2, <1>4 DEF SaveTruncates
  <2>2. users[p] = Load(file)
    BY <1>1, <2>1 DEF Serving, DurableInv, InStep, Inv, BusyOK
  <2> QED  BY <1>1, <2>1, <2>2, OnRecordOfOne, OnRecordOfOneNext
<1>5. CASE SaveLine(p)
  <2>1. phase[p] = "saving" /\ phase' = phase /\ users' = users
    BY <1>5 DEF SaveLine
  <2> QED  BY <1>1, <2>1, OnRecordOfOne, OnRecordOfOneNext
<1>7. CASE SaveCloses(p)
  <2>1. phase[p] = "saving" /\ phase'[p] = "down"
    BY <1>1, <1>2, <1>7 DEF SaveCloses
  <2>2. Load(file') = users[p]
    BY <1>1, <1>2, <1>7, SaveEnds
  <2> QED  BY <1>1, <2>1, <2>2, OnRecordOfOne, OnRecordOfOneNext
<1>6. ~SaveCannotOpen(p)
  BY DEF SaveCannotOpen, Serving, FilesWork
<1> QED  BY <1>3, <1>4, <1>5, <1>6, <1>7 DEF Lifecycle

\* A call that may start finds map and table equal.
LEMMA TableOfCaller ==
    ASSUME Serving, NEW t \in Threads, MayCall(OnlyProc, t)
    PROVE  phase[OnlyProc] = "serving" /\ users[OnlyProc] = OnRecord
<1>1. /\ phase[OnlyProc] = "serving" /\ OnlyProc \in Procs
      /\ \A s \in Threads : call[OnlyProc][s].at \notin {"inserting", "appending"}
  BY NoThreadAssumption
     DEF Serving, WorkingInv, Inv, OneInside, MayCall
<1>2. users[OnlyProc] = Load(file)
  BY <1>1 DEF Serving, WorkingInv, DurableInv, InStep
<1> QED  BY <1>1, <1>2, RecordOfServing

\* Nothing takes an account off the record or changes its password.
LEMMA RecordGrows ==
    ASSUME NEW p, Procs = {p}, \A u \in Creds : Storable(u), FilesWork,
           WorkingInv(p), [Next]_dbVars,
           NEW u, Matches(OnRecord, u)
    PROVE  Matches(OnRecord', u)
<1>1. /\ OnlyProc = p /\ Serving /\ Inv /\ DurableInv(p) /\ p \in Procs
      /\ file \in Seq(Byte)
  BY OnlyProcIs DEF Serving, WorkingInv, Inv, TypeOK
<1>2. CASE Lifecycle(p)
  BY <1>1, <1>2, LifecycleRecord
<1>3. CASE UNCHANGED dbVars
  BY <1>3, OnRecordOfOne, OnRecordOfOneNext DEF dbVars
<1>4. ASSUME NEW t \in Threads, Calls(p, t), ~Insert(p, t), ~AppendLine(p, t)
      PROVE  Matches(OnRecord', u)
  <2>1. phase' = phase /\ file' = file /\ users' = users
    BY <1>4 DEF Calls, RegisterExisting, RegisterNew, Authenticate, TakeResult
  <2> QED  BY <2>1, OnRecordOfOne, OnRecordOfOneNext
<1>5. ASSUME NEW t \in Threads, Insert(p, t)
      PROVE  Matches(OnRecord', u)
  <2>1. phase' = phase /\ file' = file /\ phase[p] = "serving"
    BY <1>1, <1>5 DEF Insert, Inv, BusyOK
  <2> QED  BY <2>1, OnRecordOfOne, OnRecordOfOneNext
<1>6. ASSUME NEW t \in Threads, AppendLine(p, t)
      PROVE  Matches(OnRecord', u)
  <2>1. PICK v \in Creds : v = call[p][t].user
    BY <1>1, <1>6, CallShape DEF AppendLine, Inv, Busy
  <2>2. /\ phase' = phase /\ phase[p] = "serving"
        /\ file' = file \o LineOf(v)
        /\ v.username \notin DOMAIN Load(file)
    BY <1>1, <1>6, <2>1
       DEF AppendLine, FileWith, FilesWork, DurableInv, Inv, BusyOK
  <2>3. v \in User /\ Storable(v)
    BY CredsAssumption
  <2>4. Load(file') = Put(Load(file), v)
    <3>1. Complete(file)
      BY <1>1, <2>2 DEF DurableInv, SaveInv
    <3> QED  BY <1>1, <2>2, <2>3, <3>1, LoadAppend
  <2>5. OnRecord = Load(file) /\ OnRecord' = Load(file')
    BY <2>2, OnRecordOfOne, OnRecordOfOneNext
  <2> QED  BY <2>2, <2>4, <2>5, PutMatches
<1> QED  BY <1>2, <1>3, <1>4, <1>5, <1>6 DEF Next, Calls

-----------------------------------------------------------------------------
(* Each step is one of the registry's, or none. *)

LEMMA LifecycleImplements ==
    ASSUME Serving, FilesWork', Lifecycle(OnlyProc)
    PROVE  [Registry!Next]_(Registry!vars)
<1>1. Table' = Table
  BY LifecycleRecord DEF Table, Serving
<1>2. CASE Kill(OnlyProc)
  <2>1. \A t \in Threads : call'[OnlyProc][t] = Idle
    BY <1>2 DEF Kill, Serving, WorkingInv, Inv, TypeOK
  <2>2. Results' = [t \in Threads |-> [at |-> "none"]]
    BY <2>1 DEF Results, Idle
  <2> QED  BY <1>1, <2>2
           DEF Registry!Next, Registry!Restart, Registry!None, Table, Results
<1>3. CASE ~Kill(OnlyProc)
  <2>1. call' = call
    BY <1>3 DEF Lifecycle, Construct, BindSucceeds, BindFails, SaveTruncates, SaveLine,
                SaveCloses, SaveCannotOpen
  <2>2. Results' = Results
    BY <2>1 DEF Results, Serving
  <2> QED  BY <1>1, <2>2 DEF Registry!vars, Table, Results
<1> QED  BY <1>2, <1>3

\* What a call's step does to its own answer, and to nobody else's.
LEMMA CallResults ==
    ASSUME Serving, FilesWork', NEW t \in Threads,
           NEW c, call' = [call EXCEPT ![OnlyProc][t] = c]
    PROVE  Results' = [Results EXCEPT ![t] =
               IF c.at \in {"registered", "authenticated"} THEN c ELSE [at |-> "none"]]
<1>1. /\ call'[OnlyProc][t] = c
      /\ \A s \in Threads : s # t => call'[OnlyProc][s] = call[OnlyProc][s]
  BY DEF Serving, WorkingInv, Inv, TypeOK
<1> QED  BY <1>1 DEF Results, Serving

\* The registry's actions, said of Table and Results.
LEMMA RegistrySteps ==
    ASSUME NEW t \in Threads, NEW u \in Creds
    PROVE  /\ /\ Results[t] = [at |-> "none"]
              /\ u.username \notin DOMAIN Table
              /\ Table' = Put(Table, u)
              /\ Results' = [Results EXCEPT ![t] =
                                [at |-> "registered", user |-> u, ok |-> TRUE]]
              => Registry!Create(t, u)
           /\ /\ Results[t] = [at |-> "none"]
              /\ u.username \in DOMAIN Table
              /\ Table' = Table
              /\ Results' = [Results EXCEPT ![t] =
                                [at |-> "registered", user |-> u, ok |-> FALSE]]
              => Registry!Refuse(t, u)
           /\ /\ Results[t] = [at |-> "none"]
              /\ Table' = Table
              /\ Results' = [Results EXCEPT ![t] =
                                [at |-> "authenticated", user |-> u, ok |-> Matches(Table, u)]]
              => Registry!LogIn(t, u)
BY DEF Registry!Create, Registry!Refuse, Registry!LogIn, Registry!None, Registry!Answer,
       Table, Results, Put, Matches

LEMMA CallImplements ==
    ASSUME Serving, FilesWork', Serving', NEW t \in Threads, Calls(OnlyProc, t)
    PROVE  [Registry!Next]_(Registry!vars)
<1> DEFINE p == OnlyProc
<1>1. /\ DurableInv(p) /\ Inv /\ Procs = {p} /\ p \in Procs /\ TypeOK
      /\ file \in Seq(Byte) /\ Table = OnRecord /\ Table' = OnRecord'
  BY DEF Serving, WorkingInv, Inv, TypeOK, Table
<1>2. ASSUME Table' = Table, Results' = Results PROVE [Registry!Next]_(Registry!vars)
  BY <1>2 DEF Registry!vars, Table, Results
<1>3. ASSUME NEW u \in Creds,
             Registry!Create(t, u) \/ Registry!Refuse(t, u) \/ Registry!LogIn(t, u)
      PROVE  [Registry!Next]_(Registry!vars)
  BY <1>3 DEF Registry!Next
<1>4. phase' = phase /\ (~AppendLine(p, t) => file' = file)
  BY DEF Calls, RegisterExisting, RegisterNew, Authenticate, Insert, AppendLine, TakeResult
<1>5. phase[p] = "serving" => OnRecord = Load(file) /\ OnRecord' = Load(file')
  BY <1>1, <1>4, OnRecordOfOne, OnRecordOfOneNext
<1>6. phase[p] # "saving" /\ file' = file => Table' = Table
  BY <1>1, <1>4, OnRecordOfOne, OnRecordOfOneNext
<1>7. ASSUME NEW u \in Creds, RegisterExisting(p, t, u) PROVE Registry!Refuse(t, u)
  <2>1. users[p] = Table /\ phase[p] = "serving" /\ call[p][t] = Idle /\ ~IsFree(p, u)
    BY <1>1, <1>7, TableOfCaller DEF RegisterExisting, MayCall
  <2>2. Results[t] = [at |-> "none"]
    BY <2>1 DEF Results, Idle
  <2>3. Results' = [Results EXCEPT ![t] = [at |-> "registered", user |-> u, ok |-> FALSE]]
    BY <1>7, CallResults DEF RegisterExisting
  <2>4. Table' = Table
    BY <1>6, <1>7, <2>1 DEF RegisterExisting
  <2> QED  BY <2>1, <2>2, <2>3, <2>4, RegistrySteps DEF IsFree
<1>8. ASSUME NEW u \in Creds, Authenticate(p, t, u) PROVE Registry!LogIn(t, u)
  <2>1. users[p] = Table /\ phase[p] = "serving" /\ call[p][t] = Idle
    BY <1>1, <1>8, TableOfCaller DEF Authenticate, MayCall
  <2>2. Results[t] = [at |-> "none"]
    BY <2>1 DEF Results, Idle
  <2>3. Results' = [Results EXCEPT ![t] =
                       [at |-> "authenticated", user |-> u, ok |-> Matches(Table, u)]]
    BY <1>8, <2>1, CallResults DEF Authenticate, Accepts
  <2>4. Table' = Table
    BY <1>6, <1>8, <2>1 DEF Authenticate
  <2> QED  BY <2>2, <2>3, <2>4, RegistrySteps
<1>9. ASSUME NEW u \in Creds, RegisterNew(p, t, u) PROVE Table' = Table /\ Results' = Results
  <2>1. phase[p] = "serving" /\ call[p][t] = Idle /\ file' = file
    BY <1>9 DEF RegisterNew, MayCall
  <2>2. Results' = [Results EXCEPT ![t] = [at |-> "none"]]
    BY <1>9, CallResults DEF RegisterNew
  <2>3. Results[t] = [at |-> "none"]
    BY <2>1 DEF Results, Idle
  <2> QED  BY <1>6, <2>1, <2>2, <2>3 DEF Results
<1>10. CASE Insert(p, t)
  <2>1. phase[p] = "serving" /\ call[p][t].at = "inserting" /\ file' = file
    BY <1>1, <1>10 DEF Insert, Inv, BusyOK
  <2>2. call' = [call EXCEPT ![p][t] = [call[p][t] EXCEPT !.at = "appending"]]
    BY <1>10 DEF Insert
  <2>3. [call[p][t] EXCEPT !.at = "appending"].at = "appending"
    BY <1>1, <2>1, CallShape DEF Busy
  <2>4. Results' = [Results EXCEPT ![t] = [at |-> "none"]]
    BY <2>2, <2>3, CallResults
  <2>5. Results[t] = [at |-> "none"]
    BY <2>1 DEF Results
  <2>6. Table' = Table /\ Results' = Results
    BY <1>6, <2>1, <2>4, <2>5 DEF Results
  <2> QED  BY <1>2, <2>6
<1>11. CASE AppendLine(p, t)
  <2>1. PICK u \in Creds : u = call[p][t].user
    BY <1>1, <1>11, CallShape DEF AppendLine, Busy
  <2>2. /\ phase[p] = "serving" /\ call[p][t].at = "appending"
        /\ file' = file \o LineOf(u) /\ users' = users
        /\ u.username \notin DOMAIN Load(file)
        /\ users[p] = Put(Load(file), u)
    BY <1>1, <1>11, <2>1
       DEF AppendLine, FileWith, Serving, FilesWork, DurableInv, InStep, BusyOK, Inv
  <2>3. Results[t] = [at |-> "none"]
    BY <2>2 DEF Results
  <2>4. call' = [call EXCEPT ![p][t] = [at |-> "registered", user |-> u, ok |-> TRUE]]
    BY <1>11, <2>1 DEF AppendLine
  <2>5. Results' = [Results EXCEPT ![t] = [at |-> "registered", user |-> u, ok |-> TRUE]]
    BY <2>4, CallResults
  <2>6. Table' = Put(Table, u) /\ Table = Load(file)
    <3>1. \A s \in Threads : s # t => call[p][s].at \notin {"inserting", "appending"}
      BY <1>1, <2>2 DEF Inv, OneInside
    <3>2. \A s \in Threads : call'[p][s].at # "appending"
      BY <1>1, <2>4, <3>1 DEF TypeOK
    <3>3. users'[p] = Load(file')
      BY <1>1, <1>4, <2>2, <3>2 DEF Serving, WorkingInv, DurableInv, InStep
    <3> QED  BY <1>1, <1>5, <2>2, <3>3
  <2>7. Registry!Create(t, u)
    BY <2>2, <2>3, <2>5, <2>6, RegistrySteps
  <2> QED  BY <1>3, <2>7
<1>12. CASE TakeResult(p, t)
  <2>1. /\ call[p][t].at \in {"registered", "authenticated"}
        /\ file' = file /\ users' = users
    BY <1>12 DEF TakeResult
  <2>2. Results[t] # [at |-> "none"]
    BY <1>1, <2>1 DEF Results, Serving
  <2>3. Results' = [Results EXCEPT ![t] = [at |-> "none"]]
    BY <1>12, CallResults DEF TakeResult, Idle
  <2>4. Table' = Table
    BY <1>1, <1>4, <2>1, OnRecordOfOne, OnRecordOfOneNext
  <2>5. Registry!Collect(t)
    BY <2>2, <2>3, <2>4 DEF Registry!Collect, Registry!None, Table, Results
  <2> QED  BY <2>5 DEF Registry!Next
<1> QED  BY <1>2, <1>3, <1>7, <1>8, <1>9, <1>10, <1>11, <1>12 DEF Calls

\* Registrations and logins take effect at one instant, on a table that
\* survives every kill, restart and failed bind: with one server process whose
\* credentials are storable, in every behaviour in which the files work.
THEOREM DatabaseImplementsRegistry ==
    ASSUME NEW p, Procs = {p}, \A u \in Creds : Storable(u)
    PROVE  Spec => ImplementsRegistry
<1> USE OnlyProcIs
<1>1. Init => Registry!Init
  <2> SUFFICES ASSUME Init PROVE Registry!Init
    OBVIOUS
  <2>1. OnRecord = EmptyMap
    BY LoadNothing, OnRecordOfOne DEF Init
  <2>2. \A t \in Threads : call[OnlyProc][t].at = "idle"
    BY DEF Init, Idle
  <2> QED  BY <2>1, <2>2 DEF Registry!Init, Registry!None, EmptyMap
<1>2. WorkingInv(OnlyProc) /\ WorkingInv(OnlyProc)' /\ [Next]_dbVars
         => [Registry!Next]_(Registry!vars)
  <2> SUFFICES ASSUME WorkingInv(OnlyProc), WorkingInv(OnlyProc)', [Next]_dbVars
               PROVE  [Registry!Next]_(Registry!vars)
    OBVIOUS
  <2>1. FilesWork' <=> FilesWork
    BY FaultsStay DEF FilesWork
  <2>2. CASE ~FilesWork
    BY <2>1, <2>2 DEF Registry!vars
  <2>3. CASE FilesWork
    <3>1. Serving /\ Serving' /\ FilesWork'
      BY <2>1, <2>3 DEF Serving
    <3>2. CASE Next
      BY <3>1, <3>2, LifecycleImplements, CallImplements DEF Next
    <3>3. CASE UNCHANGED dbVars
      BY <2>1, <3>3 DEF dbVars, Registry!vars, OnRecord
    <3> QED  BY <3>2, <3>3
  <2> QED  BY <2>2, <2>3
<1>3. Init => WorkingInv(OnlyProc)
  BY WorkingInvInit
<1>4. WorkingInv(OnlyProc) /\ [Next]_dbVars => WorkingInv(OnlyProc)'
  BY WorkingInvStep
<1> QED  BY <1>1, <1>2, <1>3, <1>4, PTL DEF Spec, ImplementsRegistry, Registry!Spec
-----------------------------------------------------------------------------
(* What a program that calls the database of its only process may rely on. *)

\* A mutex that is held is held by a thread inside registerUser.
LockIsUsed ==
    \A p \in Procs : db_mutex[p] # NoThread =>
        /\ db_mutex[p] \in Threads
        /\ call[p][db_mutex[p]].at \in {"inserting", "appending"}

\* What a call is about to report is so: the account has been granted, the
\* login is that of an account on record.
GrantedOK ==
    \A p \in Procs, t \in Threads :
        call[p][t].at = "registered" /\ call[p][t].ok => call[p][t].user \in granted

LoginsOK ==
    \A p \in Procs, t \in Threads :
        FilesWork /\ call[p][t].at = "authenticated" /\ call[p][t].ok =>
            Matches(OnRecord, call[p][t].user)

ServiceInv(p) == WorkingInv(p) /\ LockIsUsed /\ GrantedOK /\ LoginsOK

LEMMA ServiceInvInit ==
    ASSUME NEW p, Procs = {p}, Init
    PROVE  ServiceInv(p)
BY WorkingInvInit DEF ServiceInv, LockIsUsed, GrantedOK, LoginsOK, Init, Idle

LEMMA LockIsUsedStep ==
    ASSUME Inv, LockIsUsed, [Next]_dbVars
    PROVE  LockIsUsed'
<1>1. CASE UNCHANGED dbVars
  BY <1>1 DEF dbVars, LockIsUsed
<1>2. ASSUME NEW p \in Procs, Kill(p) PROVE LockIsUsed'
  BY <1>2 DEF Kill, Inv, TypeOK, LockIsUsed
<1>3. ASSUME NEW p \in Procs, Lifecycle(p), ~Kill(p) PROVE LockIsUsed'
  <2>1. call' = call /\ db_mutex' = db_mutex
    BY <1>3 DEF Lifecycle, Construct, BindSucceeds, BindFails, SaveTruncates, SaveLine,
                SaveCloses, SaveCannotOpen
  <2> QED  BY <2>1 DEF LockIsUsed
<1>4. ASSUME NEW p \in Procs, NEW t \in Threads, NEW u \in Creds, RegisterNew(p, t, u)
      PROVE  LockIsUsed'
  BY <1>4 DEF RegisterNew, Inv, TypeOK, LockIsUsed
<1>5. ASSUME NEW p \in Procs, NEW t \in Threads, NEW u \in Creds,
             RegisterExisting(p, t, u) \/ Authenticate(p, t, u)
      PROVE  LockIsUsed'
  BY <1>5 DEF RegisterExisting, Authenticate, MayCall, Inv, TypeOK, LockIsUsed
<1>6. ASSUME NEW p \in Procs, NEW t \in Threads, Insert(p, t)
      PROVE  LockIsUsed'
  BY <1>6 DEF Insert, Inv, TypeOK, OneInside, LockIsUsed
<1>7. ASSUME NEW p \in Procs, NEW t \in Threads, AppendLine(p, t)
      PROVE  LockIsUsed'
  BY <1>7 DEF AppendLine, Unlocked, Inv, TypeOK, LockIsUsed
<1>8. ASSUME NEW p \in Procs, NEW t \in Threads, TakeResult(p, t)
      PROVE  LockIsUsed'
  BY <1>8 DEF TakeResult, Inv, TypeOK, LockIsUsed
<1> QED  BY <1>1, <1>2, <1>3, <1>4, <1>5, <1>6, <1>7, <1>8 DEF Next, Calls

LEMMA GrantedStep ==
    ASSUME TypeOK, GrantedOK, [Next]_dbVars
    PROVE  GrantedOK'
<1>1. CASE UNCHANGED dbVars
  BY <1>1 DEF dbVars, GrantedOK
<1>2. ASSUME NEW p \in Procs, Lifecycle(p) PROVE GrantedOK'
  <2>1. granted' = granted
    BY <1>2 DEF Lifecycle, Construct, BindSucceeds, BindFails, SaveTruncates, SaveLine,
                SaveCloses, SaveCannotOpen, Kill
  <2>2. \A q \in Procs, t \in Threads : call'[q][t] = call[q][t] \/ call'[q][t].at = "idle"
    BY <1>2 DEF Lifecycle, Construct, BindSucceeds, BindFails, SaveTruncates, SaveLine,
                SaveCloses, SaveCannotOpen, Kill, TypeOK, Idle
  <2> QED  BY <2>1, <2>2 DEF GrantedOK
<1>3. ASSUME NEW p \in Procs, NEW t \in Threads, Calls(p, t) PROVE GrantedOK'
  <2>1. \A q \in Procs, s \in Threads : <<q, s>> # <<p, t>> => call'[q][s] = call[q][s]
    BY <1>3 DEF Calls, RegisterExisting, RegisterNew, Authenticate, Insert, AppendLine,
                TakeResult, TypeOK
  <2>2. CASE AppendLine(p, t)
    <3>1. /\ call'[p][t].user = call[p][t].user /\ granted \subseteq granted'
          /\ call[p][t].user \in granted'
      BY <2>2 DEF AppendLine, TypeOK
    <3> QED  BY <2>1, <3>1 DEF GrantedOK
  <2>3. CASE Insert(p, t)
    <3>1. call[p][t] \in Busy
      BY <2>3, CallShape DEF Insert
    <3>2. granted' = granted /\ call'[p][t].at = "appending"
      BY <2>3, <3>1 DEF Insert, TypeOK, Busy
    <3> QED  BY <2>1, <3>2 DEF GrantedOK
  <2>4. CASE ~AppendLine(p, t) /\ ~Insert(p, t)
    <3>1. /\ granted' = granted
          /\ call'[p][t].at = "registered" => ~call'[p][t].ok
      BY <1>3, <2>4 DEF Calls, RegisterExisting, RegisterNew, Authenticate, TakeResult,
                        TypeOK, Idle
    <3> QED  BY <2>1, <3>1 DEF GrantedOK
  <2> QED  BY <2>2, <2>3, <2>4
<1> QED  BY <1>1, <1>2, <1>3 DEF Next

\* Whatever another thread does, a login that was right stays right.
LEMMA LoginsStep ==
    ASSUME NEW p, Procs = {p}, \A u \in Creds : Storable(u),
           WorkingInv(p), LoginsOK, [Next]_dbVars
    PROVE  LoginsOK'
<1>1. /\ p \in Procs /\ Inv /\ TypeOK /\ faults' = faults
      /\ FilesWork' = FilesWork
  BY FaultsStay DEF WorkingInv, Inv, FilesWork
<1>2. ASSUME NEW t \in Threads, call'[p][t] = call[p][t]
      PROVE  FilesWork' /\ call'[p][t].at = "authenticated" /\ call'[p][t].ok =>
                 Matches(OnRecord', call'[p][t].user)
  BY <1>1, <1>2, RecordGrows DEF LoginsOK
<1>3. CASE UNCHANGED dbVars
  BY <1>2, <1>3 DEF dbVars, LoginsOK
<1>4. CASE Lifecycle(p)
  <2>1. \A t \in Threads : call'[p][t] = call[p][t] \/ call'[p][t].at = "idle"
    BY <1>1, <1>4 DEF Lifecycle, Construct, BindSucceeds, BindFails, SaveTruncates,
                      SaveLine, SaveCloses, SaveCannotOpen, Kill, TypeOK, Idle
  <2> QED  BY <1>2, <2>1 DEF LoginsOK
<1>5. ASSUME NEW t \in Threads, Calls(p, t) PROVE LoginsOK'
  <2>1. \A s \in Threads : s # t => call'[p][s] = call[p][s]
    BY <1>1, <1>5 DEF Calls, RegisterExisting, RegisterNew, Authenticate, Insert,
                      AppendLine, TakeResult, TypeOK
  <2>2. ASSUME NEW u \in Creds, Authenticate(p, t, u) PROVE LoginsOK'
    <3>1. /\ phase' = phase /\ file' = file /\ users' = users
          /\ call'[p][t] = [at |-> "authenticated", user |-> u, ok |-> Matches(users[p], u)]
          /\ MayCall(p, t)
      BY <1>1, <2>2 DEF Authenticate, Accepts, TypeOK
    <3>2. FilesWork => users[p] = OnRecord
      BY <3>1, OnlyProcIs, TableOfCaller DEF Serving
    <3>3. OnRecord' = OnRecord
      BY <3>1, OnRecordOfOne, OnRecordOfOneNext
    <3>4. FilesWork /\ call'[p][t].ok => Matches(OnRecord', call'[p][t].user)
      BY <3>1, <3>2, <3>3
    <3> QED  BY <1>1, <1>2, <2>1, <3>4 DEF LoginsOK
  <2>3. CASE Insert(p, t)
    <3>1. call[p][t] \in Busy
      BY <1>1, <2>3, CallShape DEF Insert
    <3>2. call'[p][t].at = "appending"
      BY <1>1, <2>3, <3>1 DEF Insert, TypeOK, Busy
    <3> QED  BY <1>2, <2>1, <3>2 DEF LoginsOK
  <2>4. CASE ~Insert(p, t) /\ ~\E u \in Creds : Authenticate(p, t, u)
    <3>1. call'[p][t].at \in {"idle", "inserting", "registered"}
      BY <1>1, <1>5, <2>4 DEF Calls, RegisterExisting, RegisterNew, AppendLine, TakeResult,
                              TypeOK, Idle
    <3> QED  BY <1>2, <2>1, <3>1 DEF LoginsOK
  <2> QED  BY <2>2, <2>3, <2>4
<1> QED  BY <1>3, <1>4, <1>5 DEF Next

LEMMA ServiceInvStep ==
    ASSUME NEW p, Procs = {p}, \A u \in Creds : Storable(u),
           ServiceInv(p), [Next]_dbVars
    PROVE  ServiceInv(p)'
<1>1. Inv
  BY DEF ServiceInv, WorkingInv
<1> QED  BY <1>1, WorkingInvStep, LockIsUsedStep, GrantedStep, LoginsStep DEF ServiceInv, Inv
=============================================================================
