------------------------- MODULE SessionServerProofs -------------------------
(***************************************************************************)
(* Theorems about SessionServer, for any number of clients and any length  *)
(* of the listen queue: the sessions keep what the database promises, and  *)
(* the two ends of a connection understand each other.                     *)
(***************************************************************************)
EXTENDS SessionServer, UserDatabaseProofs

-----------------------------------------------------------------------------
(* Types, and the steps of the sessions as steps of the database. *)

ClientType == [at : {"away", "auth", "authWaits", "chat", "chatWaits", "leaving"},
               asked : Requests \cup {NoMsg}]
ConnType == [state : {"none", "open", "clientGone", "vanished", "unacked", "reset",
                      "serverGone"},
             toServer : Requests \cup {NoMsg},
             toClient : {Reply(r) : r \in Responses} \cup {NoMsg}]
SessType == [pc : {"none", "receiving", "dispatching", "calling", "sending"},
             is_logged_in : BOOLEAN,
             current_user : {u.username : u \in Creds} \cup {<<>>},
             msg : Requests \cup {NoMsg},
             response : Responses \cup {"none"}]

LEMMA SessTypeIs ==
    SessTypeOK <=> /\ TypeOK
                   /\ client \in [Threads -> ClientType]
                   /\ conn \in [Threads -> ConnType]
                   /\ sess \in [Threads -> SessType]
                   /\ told \subseteq Creds
BY DEF SessTypeOK, ClientType, ConnType, SessType

\* A request is known by its kind.
LEMMA RequestKinds ==
    ASSUME NEW m \in Requests \cup {NoMsg}
    PROVE  /\ m.kind \in {"login", "register", "chat", "empty", "incomplete", "none"}
           /\ m.kind \in {"login", "register"} <=> m \in Commands
           /\ m \in Commands => m.user \in Creds
           /\ m.kind = "chat" <=> m = Chat
           /\ m.kind = "empty" <=> m = EmptyLine
           /\ m.kind = "incomplete" <=> m = Incomplete
           /\ m.kind = "none" <=> m = NoMsg
BY DEF Requests, Commands, Login, Register, Chat, EmptyLine, Incomplete, NoMsg

\* A step of the server or of its clients is one of the database's, or leaves
\* it alone.
LEMMA SessionStepsDatabase == SessTypeOK /\ [SessNext]_vars => [Next]_dbVars
<1> SUFFICES ASSUME SessTypeOK, SessNext, ~UNCHANGED dbVars PROVE Next
  BY DEF vars, dbVars
<1>1. Srv \in Procs
  BY SrvAssumption
<1>2. CASE Launch
  BY <1>1, <1>2 DEF Launch, Next, Lifecycle
<1>3. ASSUME ProcessEnds PROVE Next
  BY <1>1, <1>3 DEF ProcessEnds, Next, Lifecycle
<1>4. \A t \in Threads : ~ClientStep(t) /\ ~KernelGivesUp(t) /\ ~Accept(t)
  BY DEF ClientStep, Connect, ClientReceives, ClientHearsNothing, Leave, Vanish, AskAuth,
         Say, KernelGivesUp, Accept
<1>5. ASSUME NEW t \in Threads, AcceptThrows(t) \/ SendRaisesSigpipe(t) PROVE Next
  BY <1>3, <1>5 DEF AcceptThrows, SendRaisesSigpipe
<1>6. ASSUME NEW t \in Threads, CallDatabase(t) PROVE Next
  <2>1. sess[t].msg \in Requests \cup {NoMsg}
    BY DEF SessTypeOK
  <2>2. sess[t].msg.kind \in {"login", "register"} => sess[t].msg.user \in Creds
    BY <2>1, RequestKinds
  <2> QED  BY <1>1, <1>6, <2>2 DEF CallDatabase, Next, Calls
<1>7. ASSUME NEW t \in Threads, DatabaseStep(t) \/ DatabaseReturns(t) PROVE Next
  BY <1>1, <1>7 DEF DatabaseStep, DatabaseReturns, Next, Calls
<1>8. \A t \in Threads : ~ServerReceives(t) /\ ~EndSession(t) /\ ~AnswerAtOnce(t) /\ ~Send(t)
  BY DEF ServerReceives, EndSession, AnswerAtOnce, Send
<1> QED  BY <1>2, <1>3, <1>4, <1>5, <1>6, <1>7, <1>8 DEF SessNext, SessionStep

-----------------------------------------------------------------------------
(* The invariant of one session. *)

\* A thread exists only for a connection, and is inside the database only
\* while its session calls it.
ThreadOK(t) ==
    /\ sess[t].pc = "none" => sess[t] = NoThreadYet
    /\ sess[t].pc # "none" => conn[t].state \notin {"none", "serverGone"}
    /\ sess[t].pc # "calling" => call[Srv][t] = Idle

\* The client is there exactly as long as its socket is open, and what it has
\* asked for last fits the place it is at.
ClientOK(t) ==
    /\ client[t].at = "away" <=> conn[t].state \notin {"open", "serverGone"}
    /\ client[t].at = "authWaits" => client[t].asked \in Commands \cup {Incomplete}
    /\ client[t].at = "chatWaits" => client[t].asked = Chat
    /\ client[t].at = "leaving" => client[t].asked = EmptyLine
    /\ conn[t].state = "none" => conn[t] = NoConn
    /\ conn[t].state \notin {"open", "serverGone"} => conn[t].toClient = NoMsg

Waits(t) == client[t].at \in {"authWaits", "chatWaits"}

\* On an open connection the request a client waits on is at one place: on its
\* way, in the session's hands, in the database, or answered.
OneRequest(t) ==
    conn[t].state = "open" =>
        /\ Waits(t) => \/ conn[t].toServer # NoMsg
                       \/ sess[t].pc \notin {"none", "receiving"}
                       \/ conn[t].toClient # NoMsg
        /\ client[t].at \in {"auth", "chat"} =>
               /\ conn[t].toServer = NoMsg
               /\ conn[t].toClient = NoMsg
               /\ sess[t].pc \in {"none", "receiving"}
        /\ conn[t].toServer # NoMsg =>
               /\ conn[t].toServer = client[t].asked
               /\ conn[t].toClient = NoMsg
               /\ sess[t].pc \in {"none", "receiving"}
        /\ sess[t].pc \notin {"none", "receiving"} =>
               /\ Waits(t)
               /\ conn[t].toServer = NoMsg
               /\ conn[t].toClient = NoMsg
        /\ sess[t].pc = "dispatching" => sess[t].msg = client[t].asked
        /\ sess[t].pc = "calling" =>
               /\ client[t].asked \in Commands
               /\ call[Srv][t].at = "authenticated" <=> client[t].asked.kind = "login"
               /\ call[Srv][t].at # "idle"
               /\ call[Srv][t].user = client[t].asked.user
        /\ sess[t].pc = "sending" => sess[t].response \in AnswersTo(client[t].asked)

\* An answer that has arrived is to what the client asked last, also when the
\* server has gone since.
AnswerOK(t) ==
    conn[t].toClient # NoMsg =>
        /\ Waits(t)
        /\ conn[t].toClient.kind \in AnswersTo(client[t].asked)

PastLogin(t) == client[t].at \in {"chat", "chatWaits", "leaving"}

\* The session has let its client in, which has still to hear of it.
GrantedOnWay(t) == \/ conn[t].toClient.kind = "AUTH_SUCCESS"
                   \/ sess[t].pc = "sending" /\ sess[t].response = "AUTH_SUCCESS"

\* Client and session agree on the login and on its name, but for the answer
\* under way.
LoginOK(t) ==
    conn[t].state = "open" =>
        /\ sess[t].is_logged_in <=> PastLogin(t) \/ GrantedOnWay(t)
        /\ GrantedOnWay(t) =>
               /\ client[t].asked.kind = "login"
               /\ sess[t].current_user = client[t].asked.user.username

\* A registration is granted before anybody is told of it.
ToldOK(t) ==
    /\ conn[t].toClient.kind = "REG_SUCCESS" => client[t].asked.user \in granted
    /\ conn[t].state = "open" /\ sess[t].pc = "sending" /\ sess[t].response = "REG_SUCCESS"
           => client[t].asked.user \in granted

SessionOK(t) == /\ ThreadOK(t) /\ ClientOK(t) /\ OneRequest(t)
                /\ AnswerOK(t) /\ LoginOK(t) /\ ToldOK(t)

\* What the database does while a session, or none, is at work.
DbKeeps(t) == /\ TypeOK'
              /\ \A s \in Threads : s # t => call'[Srv][s] = call[Srv][s]
              /\ granted \subseteq granted'

SessionsOK == /\ SessTypeOK
              /\ \A t \in Threads : SessionOK(t)
              /\ told \subseteq granted

\* Everything but the step of one session stays as it is.
LEMMA OneSession ==
    ASSUME SessionsOK, NEW t \in Threads, DbKeeps(t),
           NEW cl \in ClientType, NEW cn \in ConnType, NEW ss \in SessType,
           client' = [client EXCEPT ![t] = cl],
           conn' = [conn EXCEPT ![t] = cn],
           sess' = [sess EXCEPT ![t] = ss],
           told' \subseteq granted',
           client'[t] = cl /\ conn'[t] = cn /\ sess'[t] = ss => SessionOK(t)'
    PROVE  SessionsOK'
<1>1. /\ client \in [Threads -> ClientType]
      /\ conn \in [Threads -> ConnType]
      /\ sess \in [Threads -> SessType]
  BY SessTypeIs DEF SessionsOK
<1>2. SessTypeOK'
  <2>1. /\ client' \in [Threads -> ClientType]
        /\ conn' \in [Threads -> ConnType]
        /\ sess' \in [Threads -> SessType]
    BY <1>1
  <2>2. TypeOK' /\ told' \subseteq Creds
    BY DEF DbKeeps, TypeOK
  <2> QED  BY <2>1, <2>2 DEF SessTypeOK, ClientType, ConnType, SessType
<1>3. SessionOK(t)'
  BY <1>1
<1>4. ASSUME NEW s \in Threads, s # t PROVE SessionOK(s)'
  <2>1. /\ client'[s] = client[s] /\ conn'[s] = conn[s] /\ sess'[s] = sess[s]
        /\ call'[Srv][s] = call[Srv][s] /\ granted \subseteq granted'
        /\ SessionOK(s)
    BY <1>1, <1>4 DEF DbKeeps, SessionsOK
  <2> QED  BY <2>1 DEF SessionOK, ThreadOK, ClientOK, OneRequest, AnswerOK, LoginOK, GrantedOnWay, ToldOK,
                       Waits, PastLogin
<1> QED  BY <1>2, <1>3, <1>4 DEF SessionsOK

LEMMA QuietDatabase ==
    ASSUME SessionsOK, UNCHANGED dbVars
    PROVE  /\ \A t \in Threads : DbKeeps(t)
           /\ call' = call /\ granted' = granted
BY DEF dbVars, DbKeeps, SessionsOK, SessTypeOK, TypeOK

\* The records of one connection have their types.
LEMMA SessionTypes ==
    ASSUME SessionsOK, NEW t \in Threads
    PROVE  /\ SessionOK(t)
           /\ client \in [Threads -> ClientType] /\ client[t] \in ClientType
           /\ conn \in [Threads -> ConnType] /\ conn[t] \in ConnType
           /\ sess \in [Threads -> SessType] /\ sess[t] \in SessType
           /\ client = [client EXCEPT ![t] = client[t]]
           /\ conn = [conn EXCEPT ![t] = conn[t]]
           /\ sess = [sess EXCEPT ![t] = sess[t]]
           /\ told \subseteq granted
BY SessTypeIs DEF SessionsOK

LEMMA Constants ==
    /\ Requests \subseteq Requests \cup {NoMsg}
    /\ NoMsg \notin Requests
    /\ Commands \subseteq Requests
    /\ Chat \in Requests /\ EmptyLine \in Requests /\ Incomplete \in Requests
    /\ NoConn \in ConnType /\ Away \in ClientType /\ NoThreadYet \in SessType
    /\ \A r \in Responses : Reply(r) # NoMsg
BY DEF Requests, Commands, Login, Register, Chat, EmptyLine, Incomplete, NoMsg, NoConn,
       ConnType, Away, Prompt, ClientType, NoThreadYet, SessType, Reply, Responses

\* Updating a field of a record is writing the record anew.
LEMMA Updates ==
    ASSUME SessionsOK, NEW t \in Threads, NEW x
    PROVE  /\ [client EXCEPT ![t].at = x] =
                  [client EXCEPT ![t] = [at |-> x, asked |-> client[t].asked]]
           /\ [conn EXCEPT ![t].state = x] =
                  [conn EXCEPT ![t] = [state |-> x, toServer |-> conn[t].toServer,
                                       toClient |-> conn[t].toClient]]
           /\ [conn EXCEPT ![t].toServer = x] =
                  [conn EXCEPT ![t] = [state |-> conn[t].state, toServer |-> x,
                                       toClient |-> conn[t].toClient]]
           /\ [conn EXCEPT ![t].toClient = x] =
                  [conn EXCEPT ![t] = [state |-> conn[t].state,
                                       toServer |-> conn[t].toServer, toClient |-> x]]
           /\ [sess EXCEPT ![t].pc = x] =
                  [sess EXCEPT ![t] = [pc |-> x, is_logged_in |-> sess[t].is_logged_in,
                                       current_user |-> sess[t].current_user,
                                       msg |-> sess[t].msg, response |-> sess[t].response]]
<1>1. client[t] \in ClientType /\ conn[t] \in ConnType /\ sess[t] \in SessType
  BY SessionTypes
<1>2. [client[t] EXCEPT !.at = x] = [at |-> x, asked |-> client[t].asked]
  BY <1>1 DEF ClientType
<1>3. [conn[t] EXCEPT !.state = x] = [state |-> x, toServer |-> conn[t].toServer,
                                      toClient |-> conn[t].toClient]
  BY <1>1 DEF ConnType
<1>4. [conn[t] EXCEPT !.toServer = x] = [state |-> conn[t].state, toServer |-> x,
                                       toClient |-> conn[t].toClient]
  BY <1>1 DEF ConnType
<1>5. [conn[t] EXCEPT !.toClient = x] = [state |-> conn[t].state,
                                       toServer |-> conn[t].toServer, toClient |-> x]
  BY <1>1 DEF ConnType
<1>6. [sess[t] EXCEPT !.pc = x] = [pc |-> x, is_logged_in |-> sess[t].is_logged_in,
                                       current_user |-> sess[t].current_user,
                                       msg |-> sess[t].msg, response |-> sess[t].response]
  BY <1>1 DEF SessType
<1> QED  BY <1>2, <1>3, <1>4, <1>5, <1>6

\* So is updating several.
LEMMA StateAndToServer ==
    ASSUME NEW c \in ConnType, NEW x, NEW y
    PROVE  [c EXCEPT !.state = x, !.toServer = y] =
               [state |-> x, toServer |-> y, toClient |-> c.toClient]
<1>1. PICK d : d = [c EXCEPT !.state = x]
  OBVIOUS
<1>2. d = [state |-> x, toServer |-> c.toServer, toClient |-> c.toClient]
  BY <1>1 DEF ConnType
<1>3. /\ d \in [state : {x}, toServer : {c.toServer}, toClient : {c.toClient}]
      /\ d.state = x /\ d.toServer = c.toServer /\ d.toClient = c.toClient
  BY <1>2
<1>4. [d EXCEPT !.toServer = y] = [state |-> x, toServer |-> y, toClient |-> c.toClient]
  BY <1>3
<1>5. [c EXCEPT !.state = x, !.toServer = y] = [d EXCEPT !.toServer = y]
  BY <1>1, Zenon
<1> QED  BY <1>4, <1>5

LEMMA StateAndToClient ==
    ASSUME NEW c \in ConnType, NEW x, NEW y
    PROVE  [c EXCEPT !.state = x, !.toClient = y] =
               [state |-> x, toServer |-> c.toServer, toClient |-> y]
<1>1. PICK d : d = [c EXCEPT !.state = x]
  OBVIOUS
<1>2. d = [state |-> x, toServer |-> c.toServer, toClient |-> c.toClient]
  BY <1>1 DEF ConnType
<1>3. /\ d \in [state : {x}, toServer : {c.toServer}, toClient : {c.toClient}]
      /\ d.state = x /\ d.toServer = c.toServer /\ d.toClient = c.toClient
  BY <1>2
<1>4. [d EXCEPT !.toClient = y] = [state |-> x, toServer |-> c.toServer, toClient |-> y]
  BY <1>3
<1>5. [c EXCEPT !.state = x, !.toClient = y] = [d EXCEPT !.toClient = y]
  BY <1>1, Zenon
<1> QED  BY <1>4, <1>5

LEMMA PcAndMsg ==
    ASSUME NEW s \in SessType, NEW x, NEW y
    PROVE  [s EXCEPT !.pc = x, !.msg = y] =
               [pc |-> x, is_logged_in |-> s.is_logged_in, current_user |-> s.current_user,
                msg |-> y, response |-> s.response]
<1>1. PICK d : d = [s EXCEPT !.pc = x]
  OBVIOUS
<1>2. d = [pc |-> x, is_logged_in |-> s.is_logged_in, current_user |-> s.current_user,
           msg |-> s.msg, response |-> s.response]
  BY <1>1 DEF SessType
<1>3. /\ d \in [pc : {x}, is_logged_in : {s.is_logged_in}, current_user : {s.current_user},
              msg : {s.msg}, response : {s.response}]
      /\ d.pc = x /\ d.is_logged_in = s.is_logged_in /\ d.current_user = s.current_user
      /\ d.msg = s.msg /\ d.response = s.response
  BY <1>2
<1>4. [d EXCEPT !.msg = y] =
          [pc |-> x, is_logged_in |-> s.is_logged_in, current_user |-> s.current_user,
           msg |-> y, response |-> s.response]
  BY <1>3
<1>5. [s EXCEPT !.pc = x, !.msg = y] = [d EXCEPT !.msg = y]
  BY <1>1, Zenon
<1> QED  BY <1>4, <1>5

LEMMA PcAndResponse ==
    ASSUME NEW s \in SessType, NEW x, NEW y
    PROVE  [s EXCEPT !.pc = x, !.response = y] =
               [pc |-> x, is_logged_in |-> s.is_logged_in, current_user |-> s.current_user,
                msg |-> s.msg, response |-> y]
<1>1. PICK d : d = [s EXCEPT !.pc = x]
  OBVIOUS
<1>2. d = [pc |-> x, is_logged_in |-> s.is_logged_in, current_user |-> s.current_user,
           msg |-> s.msg, response |-> s.response]
  BY <1>1 DEF SessType
<1>3. /\ d \in [pc : {x}, is_logged_in : {s.is_logged_in}, current_user : {s.current_user},
              msg : {s.msg}, response : {s.response}]
      /\ d.pc = x /\ d.is_logged_in = s.is_logged_in /\ d.current_user = s.current_user
      /\ d.msg = s.msg /\ d.response = s.response
  BY <1>2
<1>4. [d EXCEPT !.response = y] =
          [pc |-> x, is_logged_in |-> s.is_logged_in, current_user |-> s.current_user,
           msg |-> s.msg, response |-> y]
  BY <1>3
<1>5. [s EXCEPT !.pc = x, !.response = y] = [d EXCEPT !.response = y]
  BY <1>1, Zenon
<1> QED  BY <1>4, <1>5

LEMMA LoginAndUser ==
    ASSUME NEW s \in SessType, NEW x, NEW y
    PROVE  [s EXCEPT !.is_logged_in = x, !.current_user = y] =
               [pc |-> s.pc, is_logged_in |-> x, current_user |-> y,
                msg |-> s.msg, response |-> s.response]
<1>1. PICK d : d = [s EXCEPT !.is_logged_in = x]
  OBVIOUS
<1>2. d = [pc |-> s.pc, is_logged_in |-> x, current_user |-> s.current_user,
           msg |-> s.msg, response |-> s.response]
  BY <1>1 DEF SessType
<1>3. /\ d \in [pc : {s.pc}, is_logged_in : {x}, current_user : {s.current_user},
              msg : {s.msg}, response : {s.response}]
      /\ d.pc = s.pc /\ d.is_logged_in = x /\ d.current_user = s.current_user
      /\ d.msg = s.msg /\ d.response = s.response
  BY <1>2
<1>4. [d EXCEPT !.current_user = y] =
          [pc |-> s.pc, is_logged_in |-> x, current_user |-> y,
           msg |-> s.msg, response |-> s.response]
  BY <1>3
<1>5. [s EXCEPT !.is_logged_in = x, !.current_user = y] = [d EXCEPT !.current_user = y]
  BY <1>1, Zenon
<1> QED  BY <1>4, <1>5

LEMMA PcMsgAndResponse ==
    ASSUME NEW s \in SessType, NEW x, NEW y, NEW z
    PROVE  [s EXCEPT !.pc = x, !.msg = y, !.response = z] =
               [pc |-> x, is_logged_in |-> s.is_logged_in, current_user |-> s.current_user,
                msg |-> y, response |-> z]
<1>1. PICK d : d = [s EXCEPT !.pc = x, !.msg = y]
  OBVIOUS
<1>2. d = [pc |-> x, is_logged_in |-> s.is_logged_in, current_user |-> s.current_user,
           msg |-> y, response |-> s.response]
  BY <1>1, PcAndMsg
<1>3. /\ d \in [pc : {x}, is_logged_in : {s.is_logged_in}, current_user : {s.current_user},
                msg : {y}, response : {s.response}]
      /\ d.pc = x /\ d.is_logged_in = s.is_logged_in /\ d.current_user = s.current_user
      /\ d.msg = y /\ d.response = s.response
  BY <1>2
<1>4. [d EXCEPT !.response = z] =
          [pc |-> x, is_logged_in |-> s.is_logged_in, current_user |-> s.current_user,
           msg |-> y, response |-> z]
  BY <1>3
<1>5. [s EXCEPT !.pc = x, !.msg = y, !.response = z] = [d EXCEPT !.response = z]
  BY <1>1, Zenon
<1> QED  BY <1>4, <1>5

-----------------------------------------------------------------------------
(* The steps of the client. *)

LEMMA ConnectKeeps ==
    ASSUME SessionsOK, NEW t \in Threads, Connect(t)
    PROVE  SessionsOK'
<1> DEFINE cl == [at |-> "auth", asked |-> client[t].asked]
           cn == [state |-> "open", toServer |-> conn[t].toServer,
                  toClient |-> conn[t].toClient]
           ss == sess[t]
<1>1. /\ SessionOK(t) /\ client[t] \in ClientType /\ conn[t] \in ConnType
      /\ ss \in SessType /\ sess' = [sess EXCEPT ![t] = ss] /\ told' \subseteq granted'
      /\ DbKeeps(t) /\ call' = call
  BY SessionTypes, QuietDatabase DEF Connect
<1>2. client' = [client EXCEPT ![t] = cl] /\ conn' = [conn EXCEPT ![t] = cn]
  BY Updates DEF Connect
<1>3. cl \in ClientType /\ cn \in ConnType
  BY <1>1 DEF ClientType, ConnType
<1>4. conn[t] = NoConn
  BY <1>1 DEF Connect, SessionOK, ClientOK
<1>5. sess[t].pc = "none"
  BY <1>1, <1>4 DEF SessionOK, ThreadOK, NoConn, SessType
<1>6. sess[t] = NoThreadYet /\ call[Srv][t] = Idle
  BY <1>1, <1>5 DEF SessionOK, ThreadOK
<1>7. client'[t] = cl /\ conn'[t] = cn /\ sess'[t] = ss => SessionOK(t)'
  BY <1>1, <1>4, <1>6
     DEF SessionOK, ThreadOK, ClientOK, OneRequest, AnswerOK, LoginOK, GrantedOnWay, ToldOK,
         Waits, PastLogin, NoConn, NoMsg, NoThreadYet
<1> QED  BY <1>1, <1>2, <1>3, <1>7, OneSession

\* A client at its prompt has nothing under way.
LEMMA AtPrompt ==
    ASSUME SessionsOK, NEW t \in Threads, client[t].at \in {"auth", "chat"}
    PROVE  /\ conn[t].state \in {"open", "serverGone"}
           /\ conn[t].toClient = NoMsg
           /\ conn[t].state = "open" => /\ conn[t].toServer = NoMsg
                                        /\ sess[t].pc \in {"none", "receiving"}
           /\ conn[t].state = "serverGone" => sess[t].pc = "none"
<1>1. SessionOK(t) /\ conn[t] \in ConnType
  BY SessionTypes
<1> QED  BY <1>1 DEF SessionOK, ThreadOK, ClientOK, OneRequest, AnswerOK, Waits

\* A prompt answered by a request: the two prompts differ in what may be asked.
LEMMA AsksKeeps ==
    ASSUME SessionsOK, NEW t \in Threads, NEW request \in Requests,
           NEW at \in {"authWaits", "chatWaits", "leaving"},
           client[t].at = (IF at = "authWaits" THEN "auth" ELSE "chat"),
           at = "authWaits" => request \in Commands \cup {Incomplete},
           at = "chatWaits" => request = Chat,
           at = "leaving" => request = EmptyLine,
           client' = [client EXCEPT ![t] = [at |-> at, asked |-> request]],
           Transmit(t, request),
           UNCHANGED <<dbVars, sess, told>>
    PROVE  SessionsOK'
<1> DEFINE cl == [at |-> at, asked |-> request]
           cn == IF conn[t].state = "open"
                 THEN [state |-> conn[t].state, toServer |-> request,
                       toClient |-> conn[t].toClient]
                 ELSE conn[t]
           ss == sess[t]
<1>1. /\ SessionOK(t) /\ client[t] \in ClientType /\ conn[t] \in ConnType
      /\ ss \in SessType /\ sess' = [sess EXCEPT ![t] = ss] /\ told' \subseteq granted'
      /\ DbKeeps(t) /\ call' = call /\ granted' = granted
  BY SessionTypes, QuietDatabase
<1>2. client' = [client EXCEPT ![t] = cl] /\ conn' = [conn EXCEPT ![t] = cn]
  BY Updates, SessionTypes DEF Transmit
<1>3. cl \in ClientType /\ cn \in ConnType
  BY <1>1 DEF ClientType, ConnType
<1>4. /\ conn[t].state \in {"open", "serverGone"} /\ conn[t].toClient = NoMsg
      /\ conn[t].state = "open" => conn[t].toServer = NoMsg /\ sess[t].pc \in {"none", "receiving"}
      /\ conn[t].state = "serverGone" => sess[t].pc = "none"
  BY AtPrompt
<1>5. ASSUME client'[t] = cl, conn'[t] = cn, sess'[t] = ss PROVE SessionOK(t)'
  <2>1. ThreadOK(t)' /\ ClientOK(t)'
    BY <1>1, <1>4, <1>5 DEF SessionOK, ThreadOK, ClientOK
  <2>2. OneRequest(t)'
    <3>1. request # NoMsg
      BY Constants
    <3> QED  BY <1>1, <1>4, <1>5, <3>1 DEF OneRequest, Waits
  <2>3. AnswerOK(t)' /\ ToldOK(t)'
    BY <1>1, <1>4, <1>5 DEF AnswerOK, ToldOK, Waits, NoMsg
  <2>4. LoginOK(t)'
    BY <1>1, <1>4, <1>5 DEF SessionOK, LoginOK, GrantedOnWay, PastLogin, NoMsg
  <2> QED  BY <2>1, <2>2, <2>3, <2>4 DEF SessionOK
<1> HIDE DEF cl, cn, ss
<1> QED  BY <1>1, <1>2, <1>3, <1>5, OneSession

LEMMA AskAuthKeeps ==
    ASSUME SessionsOK, NEW t \in Threads, NEW request \in Commands \cup {Incomplete},
           AskAuth(t, request)
    PROVE  SessionsOK'
<1>1. request \in Requests
  BY Constants
<1> QED  BY <1>1, AsksKeeps DEF AskAuth

LEMMA SayKeeps ==
    ASSUME SessionsOK, NEW t \in Threads, NEW request \in {Chat, EmptyLine}, Say(t, request)
    PROVE  SessionsOK'
<1>1. request \in Requests /\ Chat # EmptyLine
  BY Constants DEF Chat, EmptyLine
<1>2. CASE request = Chat
  BY <1>1, <1>2, AsksKeeps DEF Say
<1>3. CASE request = EmptyLine
  BY <1>1, <1>3, AsksKeeps DEF Say
<1> QED  BY <1>2, <1>3

LEMMA ClientReceivesKeeps ==
    ASSUME SessionsOK, NEW t \in Threads, ClientReceives(t)
    PROVE  SessionsOK'
<1> DEFINE cl == Prompt(IF client[t].at = "chatWaits" \/ conn[t].toClient.kind = "AUTH_SUCCESS"
                        THEN "chat" ELSE "auth")
           cn == [state |-> conn[t].state, toServer |-> conn[t].toServer, toClient |-> NoMsg]
           ss == sess[t]
<1>1. /\ SessionOK(t) /\ client[t] \in ClientType /\ conn[t] \in ConnType
      /\ ss \in SessType /\ sess' = [sess EXCEPT ![t] = ss] /\ told \subseteq granted
      /\ client \in [Threads -> ClientType]
      /\ DbKeeps(t) /\ call' = call /\ granted' = granted
  BY SessionTypes, QuietDatabase DEF ClientReceives
<1>2. client' = [client EXCEPT ![t] = cl] /\ conn' = [conn EXCEPT ![t] = cn]
  BY <1>1, Updates DEF ClientReceives
<1>3. cl \in ClientType /\ cn \in ConnType
  BY <1>1 DEF ClientType, ConnType, Prompt
<1>4. told' \subseteq granted'
  BY <1>1 DEF ClientReceives, SessionOK, ToldOK
<1>5. /\ client[t].at \in {"authWaits", "chatWaits"} /\ conn[t].toClient # NoMsg
      /\ conn[t].state \in {"open", "serverGone"}
      /\ conn[t].state = "open" => conn[t].toServer = NoMsg /\ sess[t].pc \in {"none", "receiving"}
  BY <1>1 DEF ClientReceives, SessionOK, ClientOK, OneRequest, ConnType
<1>6. ASSUME client'[t] = cl, conn'[t] = cn, sess'[t] = ss PROVE SessionOK(t)'
  <2>1. ThreadOK(t)' /\ ClientOK(t)'
    BY <1>1, <1>5, <1>6 DEF SessionOK, ThreadOK, ClientOK, Prompt
  <2>2. OneRequest(t)' /\ AnswerOK(t)' /\ ToldOK(t)'
    BY <1>1, <1>5, <1>6 DEF OneRequest, AnswerOK, ToldOK, Waits, NoMsg, Prompt
  <2>3. LoginOK(t)'
    BY <1>1, <1>5, <1>6 DEF SessionOK, LoginOK, GrantedOnWay, PastLogin, NoMsg, Prompt
  <2> QED  BY <2>1, <2>2, <2>3 DEF SessionOK
<1> QED  BY <1>1, <1>2, <1>3, <1>4, <1>6, OneSession

LEMMA ClientHearsNothingKeeps ==
    ASSUME SessionsOK, NEW t \in Threads, ClientHearsNothing(t)
    PROVE  SessionsOK'
<1> DEFINE cl == Prompt(IF client[t].at = "chatWaits" THEN "chat" ELSE "auth")
           cn == conn[t]
           ss == sess[t]
<1>1. /\ SessionOK(t) /\ cn \in ConnType /\ conn' = [conn EXCEPT ![t] = cn]
      /\ client \in [Threads -> ClientType]
      /\ ss \in SessType /\ sess' = [sess EXCEPT ![t] = ss] /\ told' \subseteq granted'
      /\ DbKeeps(t) /\ call' = call
  BY SessionTypes, QuietDatabase DEF ClientHearsNothing
<1>2. client' = [client EXCEPT ![t] = cl] /\ cl \in ClientType
  BY <1>1 DEF ClientHearsNothing, Prompt, ClientType
<1>3. client'[t] = cl /\ conn'[t] = cn /\ sess'[t] = ss => SessionOK(t)'
  BY <1>1 DEF ClientHearsNothing, SessionOK, ThreadOK, ClientOK, OneRequest, AnswerOK, LoginOK,
              ToldOK, Waits, PastLogin, NoMsg, Prompt
<1> QED  BY <1>1, <1>2, <1>3, OneSession

LEMMA LeftBehindIs ==
    ASSUME NEW c \in ConnType, c.state # "serverGone"
    PROVE  LeftBehind(c) =
               [state |-> IF c.state = "open" /\ c.toClient = NoMsg
                          THEN "clientGone" ELSE "reset",
                toServer |-> c.toServer, toClient |-> NoMsg]
<1> DEFINE st == IF c.state = "open" /\ c.toClient = NoMsg THEN "clientGone" ELSE "reset"
<1>1. LeftBehind(c) = [c EXCEPT !.state = st, !.toClient = NoMsg]
  BY DEF LeftBehind
<1> HIDE DEF st
<1>2. LeftBehind(c) = [state |-> st, toServer |-> c.toServer, toClient |-> NoMsg]
  BY <1>1, StateAndToClient
<1> QED  BY <1>2 DEF st

LEMMA LeaveKeeps ==
    ASSUME SessionsOK, NEW t \in Threads, Leave(t)
    PROVE  SessionsOK'
<1> DEFINE cn == LeftBehind(conn[t])
           ss == sess[t]
<1>1. /\ SessionOK(t) /\ conn[t] \in ConnType /\ conn \in [Threads -> ConnType]
      /\ ss \in SessType /\ sess' = [sess EXCEPT ![t] = ss] /\ told' \subseteq granted'
      /\ DbKeeps(t) /\ call' = call /\ client' = [client EXCEPT ![t] = Away]
      /\ conn' = [conn EXCEPT ![t] = cn]
  BY SessionTypes, QuietDatabase DEF Leave
<1>2. cn = IF conn[t].state = "serverGone" THEN NoConn
           ELSE [state |-> IF conn[t].state = "open" /\ conn[t].toClient = NoMsg
                           THEN "clientGone" ELSE "reset",
                 toServer |-> conn[t].toServer, toClient |-> NoMsg]
  BY <1>1, LeftBehindIs DEF LeftBehind
<1>3. Away \in ClientType /\ cn \in ConnType
  BY <1>1, <1>2, Constants DEF ConnType
<1>4. client'[t] = Away /\ conn'[t] = cn /\ sess'[t] = ss => SessionOK(t)'
  BY <1>1, <1>2
     DEF Leave, SessionOK, ThreadOK, ClientOK, OneRequest, AnswerOK, LoginOK, GrantedOnWay, ToldOK, Waits,
         PastLogin, NoMsg, Prompt, Away, NoConn
<1> HIDE DEF cn, ss
<1> QED  BY <1>1, <1>3, <1>4, OneSession

LEMMA VanishKeeps ==
    ASSUME SessionsOK, NEW t \in Threads, Vanish(t)
    PROVE  SessionsOK'
<1>1. PICK msg \in {conn[t].toServer, NoMsg} :
         conn' = [conn EXCEPT ![t] = [NoConn EXCEPT !.state = "vanished", !.toServer = msg]]
  BY DEF Vanish
<1> DEFINE cn == [state |-> "vanished", toServer |-> msg, toClient |-> NoMsg]
           ss == sess[t]
<1>2. /\ SessionOK(t) /\ conn[t] \in ConnType
      /\ ss \in SessType /\ sess' = [sess EXCEPT ![t] = ss] /\ told' \subseteq granted'
      /\ DbKeeps(t) /\ call' = call /\ client' = [client EXCEPT ![t] = Away]
  BY SessionTypes, QuietDatabase DEF Vanish
<1>3. conn' = [conn EXCEPT ![t] = cn]
  <2>1. [NoConn EXCEPT !.state = "vanished", !.toServer = msg] = cn
    <3>1. NoConn \in ConnType /\ NoConn.toClient = NoMsg
      BY Constants DEF NoConn
    <3> DEFINE st == "vanished"
    <3> HIDE DEF st
    <3>2. [NoConn EXCEPT !.state = st, !.toServer = msg]
             = [state |-> st, toServer |-> msg, toClient |-> NoConn.toClient]
      BY <3>1, StateAndToServer
    <3> QED  BY <3>1, <3>2 DEF st
  <2> QED  BY <1>1, <2>1
<1>4. Away \in ClientType /\ cn \in ConnType
  BY <1>2, Constants DEF ConnType
<1>5. ASSUME client'[t] = Away, conn'[t] = cn, sess'[t] = ss PROVE SessionOK(t)'
  <2>1. ThreadOK(t)'
    BY <1>2, <1>5 DEF Vanish, SessionOK, ThreadOK
  <2>2. client'[t].at = "away" /\ conn'[t].state = "vanished" /\ conn'[t].toClient = NoMsg
    BY <1>5 DEF Prompt, Away
  <2>3. ClientOK(t)'
    BY <2>2 DEF ClientOK
  <2>4. OneRequest(t)' /\ AnswerOK(t)' /\ LoginOK(t)' /\ ToldOK(t)'
    BY <2>2 DEF OneRequest, AnswerOK, LoginOK, GrantedOnWay, ToldOK, NoMsg
  <2> QED  BY <2>1, <2>3, <2>4 DEF SessionOK
<1> HIDE DEF cn, ss
<1> QED  BY <1>2, <1>3, <1>4, <1>5, OneSession

LEMMA KernelGivesUpKeeps ==
    ASSUME SessionsOK, NEW t \in Threads, KernelGivesUp(t)
    PROVE  SessionsOK'
<1> DEFINE cl == client[t]
           cn == [state |-> "reset", toServer |-> conn[t].toServer,
                  toClient |-> conn[t].toClient]
           ss == sess[t]
<1>1. /\ SessionOK(t) /\ conn[t] \in ConnType /\ cl \in ClientType
      /\ ss \in SessType /\ sess' = [sess EXCEPT ![t] = ss] /\ told' \subseteq granted'
      /\ DbKeeps(t) /\ call' = call /\ granted' = granted
      /\ client' = [client EXCEPT ![t] = cl]
  BY SessionTypes, QuietDatabase DEF KernelGivesUp
<1>2. conn' = [conn EXCEPT ![t] = cn]
  BY Updates DEF KernelGivesUp
<1>3. cn \in ConnType
  BY <1>1 DEF ConnType
<1>4. client'[t] = cl /\ conn'[t] = cn /\ sess'[t] = ss => SessionOK(t)'
  BY <1>1 DEF KernelGivesUp, SessionOK, ThreadOK, ClientOK, OneRequest, AnswerOK, LoginOK,
              ToldOK, Waits, PastLogin, NoMsg
<1> HIDE DEF cl, cn, ss
<1> QED  BY <1>1, <1>2, <1>3, <1>4, OneSession

-----------------------------------------------------------------------------
(* The steps of a session thread. *)

LEMMA AcceptKeeps ==
    ASSUME SessionsOK, NEW t \in Threads, Accept(t)
    PROVE  SessionsOK'
<1> DEFINE cl == client[t]
           cn == conn[t]
           ss == [pc |-> "receiving", is_logged_in |-> sess[t].is_logged_in,
                  current_user |-> sess[t].current_user, msg |-> sess[t].msg,
                  response |-> sess[t].response]
<1>1. /\ SessionOK(t) /\ cn \in ConnType /\ cl \in ClientType /\ sess[t] \in SessType
      /\ told' \subseteq granted' /\ DbKeeps(t) /\ call' = call /\ granted' = granted
      /\ client' = [client EXCEPT ![t] = cl] /\ conn' = [conn EXCEPT ![t] = cn]
  BY SessionTypes, QuietDatabase DEF Accept
<1>2. sess' = [sess EXCEPT ![t] = ss]
  BY Updates DEF Accept
<1>3. ss \in SessType
  BY <1>1 DEF SessType
<1>4. client'[t] = cl /\ conn'[t] = cn /\ sess'[t] = ss => SessionOK(t)'
  BY <1>1 DEF Accept, Waiting, SessionOK, ThreadOK, ClientOK, OneRequest, AnswerOK, LoginOK,
              GrantedOnWay, ToldOK, Waits, PastLogin, NoMsg
<1> HIDE DEF cl, cn, ss
<1> QED  BY <1>1, <1>2, <1>3, <1>4, OneSession

LEMMA ServerReceivesKeeps ==
    ASSUME SessionsOK, NEW t \in Threads, ServerReceives(t)
    PROVE  SessionsOK'
<1> DEFINE cl == client[t]
           cn == [state |-> conn[t].state, toServer |-> NoMsg, toClient |-> conn[t].toClient]
           ss == [pc |-> "dispatching", is_logged_in |-> sess[t].is_logged_in,
                  current_user |-> sess[t].current_user, msg |-> conn[t].toServer,
                  response |-> sess[t].response]
<1>1. /\ SessionOK(t) /\ conn[t] \in ConnType /\ cl \in ClientType /\ sess[t] \in SessType
      /\ sess \in [Threads -> SessType]
      /\ told' \subseteq granted' /\ DbKeeps(t) /\ call' = call /\ granted' = granted
      /\ client' = [client EXCEPT ![t] = cl]
  BY SessionTypes, QuietDatabase DEF ServerReceives
<1>2. conn' = [conn EXCEPT ![t] = cn]
  BY Updates DEF ServerReceives
<1>3. sess' = [sess EXCEPT ![t] = ss]
  <2>1. [sess[t] EXCEPT !.pc = "dispatching", !.msg = conn[t].toServer] = ss
    BY <1>1, PcAndMsg
  <2>2. sess' = [sess EXCEPT ![t] = [sess[t] EXCEPT !.pc = "dispatching",
                                                    !.msg = conn[t].toServer]]
    BY Zenon DEF ServerReceives
  <2> QED  BY <2>1, <2>2
<1>4. ss \in SessType /\ cn \in ConnType
  BY <1>1 DEF SessType, ConnType
<1>5. conn[t].toServer \notin {NoMsg, EmptyLine} /\ sess[t].pc = "receiving"
  BY DEF ServerReceives
<1>6. conn[t].state = "open" => Waits(t) /\ conn[t].toServer = client[t].asked
                                /\ conn[t].toClient = NoMsg
  BY <1>1, <1>5 DEF SessionOK, ClientOK, OneRequest, Waits, ClientType
<1>7. client'[t] = cl /\ conn'[t] = cn /\ sess'[t] = ss => SessionOK(t)'
  BY <1>1, <1>5, <1>6
     DEF SessionOK, ThreadOK, ClientOK, OneRequest, AnswerOK, LoginOK, GrantedOnWay, ToldOK, Waits,
         PastLogin, NoMsg
<1> HIDE DEF cl, cn, ss
<1> QED  BY <1>1, <1>2, <1>3, <1>4, <1>7, OneSession

LEMMA ClosedType == \A c \in ConnType : Closed(c) \in ConnType
BY Constants DEF Closed, ConnType

LEMMA EndSessionKeeps ==
    ASSUME SessionsOK, NEW t \in Threads, EndSession(t)
    PROVE  SessionsOK'
<1> DEFINE cl == client[t]
           cn == Closed(conn[t])
<1>1. /\ SessionOK(t) /\ conn[t] \in ConnType /\ cl \in ClientType
      /\ conn \in [Threads -> ConnType]
      /\ told' \subseteq granted' /\ DbKeeps(t) /\ call' = call /\ granted' = granted
      /\ client' = [client EXCEPT ![t] = cl] /\ sess' = [sess EXCEPT ![t] = NoThreadYet]
  BY SessionTypes, QuietDatabase DEF EndSession
<1>2. conn' = [conn EXCEPT ![t] = cn]
  BY <1>1 DEF EndSession
<1>3. cn \in ConnType /\ NoThreadYet \in SessType
  BY <1>1, ClosedType, Constants
<1>4. cn = IF conn[t].state = "open"
           THEN [state |-> "serverGone", toServer |-> NoMsg, toClient |-> conn[t].toClient]
           ELSE NoConn
  <2>1. [conn[t] EXCEPT !.state = "serverGone", !.toServer = NoMsg]
           = [state |-> "serverGone", toServer |-> NoMsg, toClient |-> conn[t].toClient]
    <3> DEFINE st == "serverGone"
    <3> HIDE DEF st
    <3>1. [conn[t] EXCEPT !.state = st, !.toServer = NoMsg]
             = [state |-> st, toServer |-> NoMsg, toClient |-> conn[t].toClient]
      BY <1>1, StateAndToServer
    <3> QED  BY <3>1 DEF st
  <2>2. conn[t].state # "serverGone"
    BY <1>1 DEF EndSession, SessionOK, ThreadOK
  <2> QED  BY <2>1, <2>2 DEF Closed
<1>5. client'[t] = cl /\ conn'[t] = cn /\ sess'[t] = NoThreadYet => SessionOK(t)'
  BY <1>1, <1>4
     DEF EndSession, SessionOK, ThreadOK, ClientOK, OneRequest, AnswerOK, LoginOK, GrantedOnWay, ToldOK,
         Waits, PastLogin, NoMsg, NoThreadYet, NoConn
<1> HIDE DEF cl, cn
<1> QED  BY <1>1, <1>2, <1>3, <1>5, OneSession

\* The answers that need no database are those a session in that state owes.
LEMMA AnswerAtOnceKeeps ==
    ASSUME SessionsOK, NEW t \in Threads, AnswerAtOnce(t)
    PROVE  SessionsOK'
<1> DEFINE cl == client[t]
           cn == conn[t]
           answer == IF sess[t].is_logged_in THEN "ACK"
                     ELSE IF sess[t].msg.kind = "chat" THEN "ERROR"
                     ELSE "REG_FAIL: Invalid data"
           ss == [pc |-> "sending", is_logged_in |-> sess[t].is_logged_in,
                  current_user |-> sess[t].current_user, msg |-> NoMsg, response |-> answer]
<1>1. /\ SessionOK(t) /\ cn \in ConnType /\ cl \in ClientType /\ sess[t] \in SessType
      /\ told' \subseteq granted' /\ DbKeeps(t) /\ call' = call /\ granted' = granted
      /\ client' = [client EXCEPT ![t] = cl] /\ conn' = [conn EXCEPT ![t] = cn]
  BY SessionTypes, QuietDatabase DEF AnswerAtOnce
<1>2. sess' = [sess EXCEPT ![t] = ss]
  <2> DEFINE x == "sending"
  <2>1. sess' = [sess EXCEPT ![t] = [sess[t] EXCEPT !.pc = x, !.msg = NoMsg,
                                                    !.response = answer]]
    BY Zenon DEF AnswerAtOnce
  <2> HIDE DEF x, answer
  <2>2. [sess[t] EXCEPT !.pc = x, !.msg = NoMsg, !.response = answer]
           = [pc |-> x, is_logged_in |-> sess[t].is_logged_in,
              current_user |-> sess[t].current_user, msg |-> NoMsg, response |-> answer]
    BY <1>1, PcMsgAndResponse
  <2> QED  BY <2>1, <2>2 DEF x
<1>3. ss \in SessType
  BY <1>1 DEF SessType, Responses
<1>4. /\ sess[t].pc = "dispatching"
      /\ sess[t].is_logged_in \/ sess[t].msg.kind \in {"chat", "incomplete"}
  BY DEF AnswerAtOnce
<1>5. ASSUME conn[t].state = "open"
      PROVE  answer \in AnswersTo(client[t].asked) /\ answer \notin {"AUTH_SUCCESS", "REG_SUCCESS"}
  <2>1. /\ Waits(t) /\ sess[t].msg = client[t].asked /\ client[t].asked \in Requests \cup {NoMsg}
        /\ sess[t].is_logged_in <=> client[t].at = "chatWaits"
        /\ client[t].at = "chatWaits" => client[t].asked = Chat
        /\ client[t].at # "chatWaits" => client[t].asked \in Commands \cup {Incomplete}
    BY <1>1, <1>4, <1>5
       DEF SessionOK, ClientOK, OneRequest, LoginOK, GrantedOnWay, PastLogin, Waits, ClientType, NoMsg
  <2>2. CASE sess[t].is_logged_in
    <3>1. client[t].asked.kind = "chat"
      BY <2>1, <2>2 DEF Chat
    <3> QED  BY <2>2, <3>1 DEF AnswersTo
  <2>3. CASE ~sess[t].is_logged_in
    <3>1. client[t].asked.kind = "incomplete"
      BY <1>4, <2>1, <2>3, RequestKinds DEF Incomplete
    <3> QED  BY <2>1, <2>3, <3>1 DEF AnswersTo
  <2> QED  BY <2>2, <2>3
<1>6. ASSUME client'[t] = cl, conn'[t] = cn, sess'[t] = ss PROVE SessionOK(t)'
  <2> HIDE DEF answer
  <2>1. /\ sess'[t].pc = "sending" /\ sess'[t].is_logged_in = sess[t].is_logged_in
        /\ sess'[t].response = answer
    BY <1>6
  <2> HIDE DEF ss
  <2> QED  BY <1>1, <1>4, <1>5, <1>6, <2>1
           DEF SessionOK, ThreadOK, ClientOK, OneRequest, AnswerOK, LoginOK, GrantedOnWay, ToldOK, Waits,
               PastLogin, NoMsg
<1> HIDE DEF cl, cn, ss
<1> QED  BY <1>1, <1>2, <1>3, <1>6, OneSession

LEMMA SendKeeps ==
    ASSUME SessionsOK, NEW t \in Threads, Send(t)
    PROVE  SessionsOK'
<1> DEFINE cl == client[t]
           st == IF conn[t].state = "open" THEN "open"
                 ELSE IF conn[t].state \in {"vanished", "unacked"} THEN "unacked" ELSE "reset"
           cn == [state |-> st, toServer |-> conn[t].toServer,
                  toClient |-> IF conn[t].state = "open" THEN Reply(sess[t].response)
                               ELSE conn[t].toClient]
           ss == [pc |-> "receiving", is_logged_in |-> sess[t].is_logged_in,
                  current_user |-> sess[t].current_user, msg |-> sess[t].msg,
                  response |-> "none"]
<1>1. /\ SessionOK(t) /\ conn[t] \in ConnType /\ cl \in ClientType /\ sess[t] \in SessType
      /\ conn \in [Threads -> ConnType]
      /\ told' \subseteq granted' /\ DbKeeps(t) /\ call' = call /\ granted' = granted
      /\ client' = [client EXCEPT ![t] = cl] /\ sess[t].pc = "sending"
  BY SessionTypes, QuietDatabase DEF Send
<1>2. sess' = [sess EXCEPT ![t] = ss]
  <2> DEFINE x == "receiving"
             y == "none"
  <2>1. sess' = [sess EXCEPT ![t] = [sess[t] EXCEPT !.pc = x, !.response = y]]
    BY Zenon DEF Send
  <2> HIDE DEF x, y
  <2>2. [sess[t] EXCEPT !.pc = x, !.response = y]
           = [pc |-> x, is_logged_in |-> sess[t].is_logged_in,
              current_user |-> sess[t].current_user, msg |-> sess[t].msg, response |-> y]
    BY <1>1, PcAndResponse
  <2> QED  BY <2>1, <2>2 DEF x, y
<1>3. conn' = [conn EXCEPT ![t] = cn]
  <2>1. /\ [conn[t] EXCEPT !.toClient = Reply(sess[t].response)]
               = [state |-> conn[t].state, toServer |-> conn[t].toServer,
                  toClient |-> Reply(sess[t].response)]
        /\ [conn[t] EXCEPT !.state = "unacked"]
               = [state |-> "unacked", toServer |-> conn[t].toServer,
                  toClient |-> conn[t].toClient]
        /\ [conn[t] EXCEPT !.state = "reset"]
               = [state |-> "reset", toServer |-> conn[t].toServer,
                  toClient |-> conn[t].toClient]
    BY <1>1 DEF ConnType
  <2>2. CASE conn[t].state = "open"
    BY <2>1, <2>2 DEF Send
  <2>3. CASE conn[t].state \in {"vanished", "unacked"}
    BY <2>1, <2>3 DEF Send
  <2>4. CASE conn[t].state \notin {"open", "vanished", "unacked"}
    BY <2>1, <2>4 DEF Send
  <2> QED  BY <2>2, <2>3, <2>4
<1>4. conn[t].state = "open" =>
          /\ Waits(t) /\ conn[t].toServer = NoMsg
          /\ sess[t].response \in AnswersTo(client[t].asked) /\ sess[t].response \in Responses
  BY <1>1 DEF SessionOK, OneRequest, AnswersTo, Responses
<1>5. ss \in SessType /\ cn \in ConnType
  BY <1>1, <1>4 DEF SessType, ConnType
<1>6. ASSUME client'[t] = cl, conn'[t] = cn, sess'[t] = ss PROVE SessionOK(t)'
  <2>1. OneRequest(t)'
    <3>1. conn[t].state = "open" => Reply(sess[t].response) # NoMsg
      BY <1>4, Constants
    <3> QED  BY <1>1, <1>4, <1>6, <3>1 DEF OneRequest, Waits
  <2>2. ThreadOK(t)' /\ ClientOK(t)'
    BY <1>1, <1>4, <1>6 DEF SessionOK, ThreadOK, ClientOK, Waits
  <2>3. AnswerOK(t)'
    BY <1>1, <1>4, <1>6 DEF SessionOK, ClientOK, AnswerOK, Waits, Reply
  <2>4. LoginOK(t)'
    BY <1>1, <1>4, <1>6 DEF SessionOK, LoginOK, GrantedOnWay, OneRequest, Waits, PastLogin, NoMsg, Reply
  <2>5. ToldOK(t)'
    BY <1>1, <1>4, <1>6 DEF SessionOK, ToldOK, ClientOK, NoMsg, Reply
  <2> QED  BY <2>1, <2>2, <2>3, <2>4, <2>5 DEF SessionOK
<1> HIDE DEF cl, cn, ss
<1> QED  BY <1>1, <1>2, <1>3, <1>5, <1>6, OneSession

-----------------------------------------------------------------------------
(* The calls of the database. *)

\* A call that begins is that of the request in the session's hands.
LEMMA CallDatabaseKeeps ==
    ASSUME SessionsOK, TypeOK', NEW t \in Threads, CallDatabase(t)
    PROVE  SessionsOK'
<1> DEFINE cl == client[t]
           cn == conn[t]
           m  == sess[t].msg
           ss == [pc |-> "calling", is_logged_in |-> sess[t].is_logged_in,
                  current_user |-> sess[t].current_user, msg |-> NoMsg,
                  response |-> sess[t].response]
<1>1. /\ SessionOK(t) /\ cn \in ConnType /\ cl \in ClientType /\ sess[t] \in SessType
      /\ told \subseteq granted /\ TypeOK /\ Srv \in Procs
      /\ client' = [client EXCEPT ![t] = cl] /\ conn' = [conn EXCEPT ![t] = cn]
  BY SessionTypes, SrvAssumption DEF CallDatabase, SessionsOK, SessTypeOK
<1>2. sess' = [sess EXCEPT ![t] = ss]
  <2> DEFINE x == "calling"
  <2>1. sess' = [sess EXCEPT ![t] = [sess[t] EXCEPT !.pc = x, !.msg = NoMsg]]
    BY Zenon DEF CallDatabase
  <2> HIDE DEF x
  <2>2. [sess[t] EXCEPT !.pc = x, !.msg = NoMsg]
           = [pc |-> x, is_logged_in |-> sess[t].is_logged_in,
              current_user |-> sess[t].current_user, msg |-> NoMsg,
              response |-> sess[t].response]
    BY <1>1, PcAndMsg
  <2> QED  BY <2>1, <2>2 DEF x
<1>3. ss \in SessType
  BY <1>1 DEF SessType
<1>4. /\ sess[t].pc = "dispatching" /\ m \in Commands /\ m.user \in Creds
      /\ granted' = granted
      /\ \A s \in Threads : s # t => call'[Srv][s] = call[Srv][s]
      /\ call'[Srv][t].at \in {"authenticated", "registered", "inserting"}
      /\ call'[Srv][t].at = "authenticated" <=> m.kind = "login"
      /\ call'[Srv][t].user = m.user
  <2>1. m \in Requests \cup {NoMsg}
    BY <1>1 DEF SessType
  <2>2. \/ m.kind = "login" /\ Authenticate(Srv, t, m.user)
        \/ m.kind = "register" /\ RegisterExisting(Srv, t, m.user)
        \/ m.kind = "register" /\ RegisterNew(Srv, t, m.user)
    BY DEF CallDatabase
  <2>3. sess[t].pc = "dispatching" /\ m \in Commands /\ m.user \in Creds
    BY <2>1, <2>2, RequestKinds DEF CallDatabase
  <2>4. PICK c : /\ call' = [call EXCEPT ![Srv][t] = c]
                 /\ c.at \in {"authenticated", "registered", "inserting"}
                 /\ c.at = "authenticated" <=> m.kind = "login"
                 /\ c.user = m.user /\ granted' = granted
    BY <2>2 DEF Authenticate, RegisterExisting, RegisterNew
  <2>5. \A s \in Threads : call'[Srv][s] = IF s = t THEN c ELSE call[Srv][s]
    BY <1>1, <2>4 DEF TypeOK
  <2> QED  BY <2>3, <2>4, <2>5
<1>5. DbKeeps(t) /\ told' \subseteq granted'
  BY <1>1, <1>4 DEF DbKeeps, CallDatabase
<1>6. ASSUME client'[t] = cl, conn'[t] = cn, sess'[t] = ss PROVE SessionOK(t)'
  BY <1>1, <1>4, <1>6
     DEF SessionOK, ThreadOK, ClientOK, OneRequest, AnswerOK, LoginOK, GrantedOnWay, ToldOK, Waits,
         PastLogin, NoMsg
<1> HIDE DEF cl, cn, ss
<1> QED  BY <1>1, <1>2, <1>3, <1>5, <1>6, OneSession

LEMMA DatabaseStepKeeps ==
    ASSUME SessionsOK, TypeOK', NEW t \in Threads, DatabaseStep(t)
    PROVE  SessionsOK'
<1> DEFINE cl == client[t]
           cn == conn[t]
           ss == sess[t]
<1>1. /\ SessionOK(t) /\ cn \in ConnType /\ cl \in ClientType /\ ss \in SessType
      /\ told \subseteq granted /\ TypeOK /\ Srv \in Procs
      /\ client' = [client EXCEPT ![t] = cl] /\ conn' = [conn EXCEPT ![t] = cn]
      /\ sess' = [sess EXCEPT ![t] = ss]
  BY SessionTypes, SrvAssumption DEF DatabaseStep, sessVars, SessionsOK, SessTypeOK
<1>2. /\ call[Srv][t].at \in {"inserting", "appending"}
      /\ \A s \in Threads : s # t => call'[Srv][s] = call[Srv][s]
      /\ call'[Srv][t].at \in {"appending", "registered"}
      /\ call'[Srv][t].user = call[Srv][t].user
      /\ granted \subseteq granted'
  <2>1. call[Srv][t].at \in {"inserting", "appending"} /\ call[Srv][t] \in Busy
    BY <1>1, CallShape DEF DatabaseStep, Insert, AppendLine
  <2>2. PICK c : /\ call' = [call EXCEPT ![Srv][t] = c]
                 /\ c.at \in {"appending", "registered"}
                 /\ c.user = call[Srv][t].user /\ granted \subseteq granted'
    <3>1. CASE Insert(Srv, t)
      <4>1. call' = [call EXCEPT ![Srv][t] = [call[Srv][t] EXCEPT !.at = "appending"]]
        BY <3>1 DEF Insert
      <4>2. /\ [call[Srv][t] EXCEPT !.at = "appending"].at = "appending"
            /\ [call[Srv][t] EXCEPT !.at = "appending"].user = call[Srv][t].user
        BY <2>1 DEF Busy
      <4> QED  BY <3>1, <4>1, <4>2 DEF Insert
    <3>2. CASE AppendLine(Srv, t)
      <4> DEFINE d == [at |-> "registered", user |-> call[Srv][t].user, ok |-> TRUE]
      <4>1. call' = [call EXCEPT ![Srv][t] = d] /\ granted \subseteq granted'
        BY <3>2 DEF AppendLine
      <4>2. d.at = "registered" /\ d.user = call[Srv][t].user
        OBVIOUS
      <4> HIDE DEF d
      <4> QED  BY <4>1, <4>2
    <3> QED  BY <3>1, <3>2 DEF DatabaseStep
  <2>3. \A s \in Threads : call'[Srv][s] = IF s = t THEN c ELSE call[Srv][s]
    BY <1>1, <2>2 DEF TypeOK
  <2> QED  BY <2>1, <2>2, <2>3
<1>3. DbKeeps(t) /\ told' \subseteq granted'
  BY <1>1, <1>2 DEF DbKeeps, DatabaseStep, sessVars
<1>4. sess[t].pc = "calling"
  BY <1>1, <1>2 DEF SessionOK, ThreadOK, Idle
<1>5. ASSUME client'[t] = cl, conn'[t] = cn, sess'[t] = ss PROVE SessionOK(t)'
  BY <1>1, <1>2, <1>4, <1>5
     DEF SessionOK, ThreadOK, ClientOK, OneRequest, AnswerOK, LoginOK, GrantedOnWay, ToldOK, Waits,
         PastLogin, NoMsg
<1> HIDE DEF cl, cn, ss
<1> QED  BY <1>1, <1>3, <1>5, OneSession

\* What a call has returned is the answer to the request that made it, and
\* what it reports is so.
LEMMA DatabaseReturnsKeeps ==
    ASSUME SessionsOK, GrantedOK, TypeOK', NEW t \in Threads, DatabaseReturns(t)
    PROVE  SessionsOK'
<1> DEFINE cl == client[t]
           cn == conn[t]
           result == call[Srv][t]
           response == Outcome(result)
           in == response = "AUTH_SUCCESS"
           ss == [pc |-> "sending",
                  is_logged_in |-> IF in THEN TRUE ELSE sess[t].is_logged_in,
                  current_user |-> IF in THEN result.user.username ELSE sess[t].current_user,
                  msg |-> sess[t].msg, response |-> response]
<1>1. /\ SessionOK(t) /\ cn \in ConnType /\ cl \in ClientType /\ sess[t] \in SessType
      /\ told \subseteq granted /\ TypeOK /\ Srv \in Procs
      /\ client' = [client EXCEPT ![t] = cl] /\ conn' = [conn EXCEPT ![t] = cn]
      /\ sess[t].pc = "calling" /\ result.at \in {"registered", "authenticated"}
  BY SessionTypes, SrvAssumption DEF DatabaseReturns, TakeResult, SessionsOK, SessTypeOK
<1>2. result \in Returned
  BY <1>1, CallShape
<1>3. /\ response \in Responses
      /\ result.at = "authenticated" => response \in {"AUTH_SUCCESS", "AUTH_FAIL"}
      /\ result.at = "registered" => response \in {"REG_SUCCESS", "REG_FAIL: User exists"}
      /\ response = "REG_SUCCESS" => result.at = "registered" /\ result.ok
  BY <1>2 DEF Returned, Outcome, Responses
<1>4. sess' = [sess EXCEPT ![t] = ss]
  <2> DEFINE x == "sending"
             s == IF in THEN LogsIn(sess[t], result.user) ELSE sess[t]
  <2>1. s = [pc |-> sess[t].pc,
             is_logged_in |-> IF in THEN TRUE ELSE sess[t].is_logged_in,
             current_user |-> IF in THEN result.user.username ELSE sess[t].current_user,
             msg |-> sess[t].msg, response |-> sess[t].response]
    <3> DEFINE yes == TRUE
               name == result.user.username
    <3>1. LogsIn(sess[t], result.user) = [sess[t] EXCEPT !.is_logged_in = yes,
                                                         !.current_user = name]
      BY DEF LogsIn
    <3> HIDE DEF yes, name
    <3>2. LogsIn(sess[t], result.user) =
             [pc |-> sess[t].pc, is_logged_in |-> yes, current_user |-> name,
              msg |-> sess[t].msg, response |-> sess[t].response]
      <4>1. sess[t] \in SessType
        BY <1>1
      <4> QED  BY <3>1, <4>1, LoginAndUser
    <3>3. sess[t] = [pc |-> sess[t].pc, is_logged_in |-> sess[t].is_logged_in,
                     current_user |-> sess[t].current_user,
                     msg |-> sess[t].msg, response |-> sess[t].response]
      BY <1>1 DEF SessType
    <3> QED  BY <3>2, <3>3 DEF yes, name
  <2>2. result.user \in Creds
    BY <1>2 DEF Returned
  <2>3. s \in SessType
    <3> HIDE DEF s, in
    <3> QED  BY <1>1, <2>1, <2>2 DEF SessType
  <2>4. sess' = [sess EXCEPT ![t] = [s EXCEPT !.pc = x, !.response = response]]
    BY Zenon DEF DatabaseReturns
  <2> HIDE DEF x, s, response
  <2>5. [s EXCEPT !.pc = x, !.response = response] =
           [pc |-> x, is_logged_in |-> s.is_logged_in, current_user |-> s.current_user,
            msg |-> s.msg, response |-> response]
    BY <2>3, PcAndResponse
  <2>6. /\ s.is_logged_in = IF in THEN TRUE ELSE sess[t].is_logged_in
        /\ s.current_user = IF in THEN result.user.username ELSE sess[t].current_user
        /\ s.msg = sess[t].msg
    BY <2>1
  <2> QED  BY <2>4, <2>5, <2>6 DEF x
<1>5. ss \in SessType
  BY <1>1, <1>2, <1>3 DEF SessType, Returned
<1>6. /\ call'[Srv][t] = Idle
      /\ \A s \in Threads : s # t => call'[Srv][s] = call[Srv][s]
      /\ granted' = granted
  BY <1>1 DEF DatabaseReturns, TakeResult, TypeOK
<1>7. DbKeeps(t) /\ told' \subseteq granted'
  BY <1>1, <1>6 DEF DbKeeps, DatabaseReturns
<1>8. conn[t].state = "open" =>
          /\ Waits(t) /\ conn[t].toServer = NoMsg /\ conn[t].toClient = NoMsg
          /\ client[t].asked \in Commands /\ result.user = client[t].asked.user
          /\ response \in AnswersTo(client[t].asked)
          /\ sess[t].is_logged_in <=> PastLogin(t)
          /\ in => client[t].asked.kind = "login"
  <2> SUFFICES ASSUME conn[t].state = "open"
               PROVE  /\ Waits(t) /\ conn[t].toServer = NoMsg /\ conn[t].toClient = NoMsg
                      /\ client[t].asked \in Commands /\ result.user = client[t].asked.user
                      /\ response \in AnswersTo(client[t].asked)
                      /\ sess[t].is_logged_in <=> PastLogin(t)
                      /\ in => client[t].asked.kind = "login"
    OBVIOUS
  <2>1. /\ Waits(t) /\ conn[t].toServer = NoMsg /\ conn[t].toClient = NoMsg
        /\ client[t].asked \in Commands /\ result.user = client[t].asked.user
        /\ result.at = "authenticated" <=> client[t].asked.kind = "login"
        /\ sess[t].is_logged_in <=> PastLogin(t)
    BY <1>1 DEF SessionOK, OneRequest, LoginOK, GrantedOnWay, NoMsg
  <2>2. client[t].asked.kind \in {"login", "register"}
    BY <2>1 DEF Commands, Login, Register
  <2>3. in => client[t].asked.kind = "login"
    <3> HIDE DEF response
    <3> QED  BY <1>1, <1>3, <2>1
  <2> QED  BY <1>1, <1>3, <2>1, <2>2, <2>3 DEF AnswersTo
<1>9. response = "REG_SUCCESS" => result.user \in granted
  BY <1>1, <1>3 DEF GrantedOK
<1>10. ASSUME client'[t] = cl, conn'[t] = cn, sess'[t] = ss PROVE SessionOK(t)'
  <2>1. /\ sess'[t].pc = "sending" /\ sess'[t].response = response
        /\ sess'[t].is_logged_in = IF in THEN TRUE ELSE sess[t].is_logged_in
        /\ sess'[t].current_user = IF in THEN result.user.username ELSE sess[t].current_user
    <3> HIDE DEF response
    <3> QED  BY <1>10
  <2> HIDE DEF ss, response
  <2> QED  BY <1>1, <1>6, <1>8, <1>9, <1>10, <2>1
           DEF SessionOK, ThreadOK, ClientOK, OneRequest, AnswerOK, LoginOK, GrantedOnWay, ToldOK, Waits,
               PastLogin, NoMsg
<1> HIDE DEF cl, cn, ss
<1> QED  BY <1>1, <1>4, <1>5, <1>7, <1>10, OneSession

-----------------------------------------------------------------------------
(* The end of the process, and steps that no session takes. *)

\* With the server every session ends at once; what the clients were sent is
\* still theirs to read.
LEMMA ProcessEndsKeeps ==
    ASSUME SessionsOK, TypeOK', ProcessEnds
    PROVE  SessionsOK'
<1>1. /\ client' = client /\ told' = told /\ granted' = granted
      /\ sess' = [t \in Threads |-> NoThreadYet]
      /\ conn' = [t \in Threads |-> Closed(conn[t])]
      /\ \A t \in Threads : call'[Srv][t] = Idle
  BY SrvAssumption DEF ProcessEnds, Kill, SessionsOK, SessTypeOK, TypeOK
<1>2. SessTypeOK'
  <2>1. client \in [Threads -> ClientType] /\ conn \in [Threads -> ConnType]
    BY SessTypeIs DEF SessionsOK
  <2>2. conn' \in [Threads -> ConnType] /\ sess' \in [Threads -> SessType]
    BY <1>1, <2>1, ClosedType, Constants
  <2> QED  BY <1>1, <2>1, <2>2 DEF SessionsOK, SessTypeOK, ClientType, ConnType, SessType
<1>3. ASSUME NEW t \in Threads PROVE SessionOK(t)'
  <2>1. SessionOK(t) /\ conn[t] \in ConnType
    BY SessionTypes
  <2>2. conn'[t] = IF conn[t].state \in {"open", "serverGone"}
                   THEN [state |-> "serverGone", toServer |-> NoMsg,
                         toClient |-> conn[t].toClient]
                   ELSE NoConn
    <3> DEFINE st == "serverGone"
    <3>1. Closed(conn[t]) = IF conn[t].state \in {"open", "serverGone"}
                            THEN [conn[t] EXCEPT !.state = st, !.toServer = NoMsg]
                            ELSE NoConn
      BY DEF Closed
    <3> HIDE DEF st
    <3>2. [conn[t] EXCEPT !.state = st, !.toServer = NoMsg]
             = [state |-> st, toServer |-> NoMsg, toClient |-> conn[t].toClient]
      BY <2>1, StateAndToServer
    <3> QED  BY <1>1, <3>1, <3>2 DEF st
  <2>3. client'[t] = client[t] /\ sess'[t] = NoThreadYet /\ call'[Srv][t] = Idle
    BY <1>1
  <2> QED  BY <1>1, <2>1, <2>2, <2>3
           DEF SessionOK, ThreadOK, ClientOK, OneRequest, AnswerOK, LoginOK, GrantedOnWay, ToldOK, Waits,
               PastLogin, NoMsg, NoThreadYet, NoConn
<1> QED  BY <1>1, <1>2, <1>3 DEF SessionsOK

LEMMA LaunchKeeps ==
    ASSUME SessionsOK, TypeOK', Launch
    PROVE  SessionsOK'
<1>1. UNCHANGED sessVars /\ call' = call /\ granted' = granted
  BY DEF Launch, Construct, BindSucceeds, BindFails, SaveTruncates, SaveLine, SaveCloses,
         SaveCannotOpen
<1> QED  BY <1>1 DEF sessVars, SessionsOK, SessTypeOK, SessionOK, ThreadOK, ClientOK, OneRequest,
                     AnswerOK, LoginOK, GrantedOnWay, ToldOK, Waits, PastLogin

LEMMA StutterKeeps ==
    ASSUME SessionsOK, UNCHANGED vars
    PROVE  SessionsOK'
BY DEF vars, dbVars, sessVars, SessionsOK, SessTypeOK, TypeOK, SessionOK, ThreadOK, ClientOK,
       OneRequest, AnswerOK, LoginOK, GrantedOnWay, ToldOK, Waits, PastLogin

LEMMA SessionsOKStep ==
    ASSUME SessionsOK, GrantedOK, TypeOK', [SessNext]_vars
    PROVE  SessionsOK'
<1>1. CASE Launch
  BY <1>1, LaunchKeeps
<1>2. ASSUME ProcessEnds PROVE SessionsOK'
  BY <1>2, ProcessEndsKeeps
<1>3. ASSUME NEW t \in Threads, ClientStep(t) PROVE SessionsOK'
  BY <1>3, ConnectKeeps, ClientReceivesKeeps, ClientHearsNothingKeeps, LeaveKeeps, VanishKeeps,
     AskAuthKeeps, SayKeeps DEF ClientStep
<1>4. ASSUME NEW t \in Threads, KernelGivesUp(t) \/ Accept(t) PROVE SessionsOK'
  BY <1>4, KernelGivesUpKeeps, AcceptKeeps
<1>5. ASSUME NEW t \in Threads, AcceptThrows(t) \/ SendRaisesSigpipe(t) PROVE SessionsOK'
  BY <1>2, <1>5 DEF AcceptThrows, SendRaisesSigpipe
<1>6. ASSUME NEW t \in Threads, SessionStep(t) PROVE SessionsOK'
  BY <1>5, <1>6, ServerReceivesKeeps, EndSessionKeeps, CallDatabaseKeeps, DatabaseStepKeeps,
     DatabaseReturnsKeeps, AnswerAtOnceKeeps, SendKeeps DEF SessionStep
<1>7. CASE UNCHANGED vars
  BY <1>7, StutterKeeps
<1> QED  BY <1>1, <1>2, <1>3, <1>4, <1>5, <1>6, <1>7 DEF SessNext

LEMMA SessionsOKInit == SessInit => SessionsOK
<1> SUFFICES ASSUME SessInit PROVE SessionsOK
  OBVIOUS
<1>1. SessTypeOK
  <2>1. /\ client \in [Threads -> ClientType] /\ conn \in [Threads -> ConnType]
        /\ sess \in [Threads -> SessType] /\ told = {} /\ Init
    BY Constants DEF SessInit
  <2> QED  BY <2>1, InitType, SessTypeIs
<1>2. ASSUME NEW t \in Threads PROVE SessionOK(t)
  <2>1. client[t] = Away /\ conn[t] = NoConn /\ sess[t] = NoThreadYet /\ call[Srv][t] = Idle
    BY SrvAssumption DEF SessInit, Init
  <2> QED  BY <2>1 DEF SessionOK, ThreadOK, ClientOK, OneRequest, AnswerOK, LoginOK, GrantedOnWay, ToldOK,
                       Waits, PastLogin, NoMsg, NoThreadYet, NoConn, Away, Prompt
<1> QED  BY <1>1, <1>2 DEF SessionsOK, SessInit

-----------------------------------------------------------------------------
(* The theorems. *)

SessionInv == SessionsOK /\ Inv /\ GrantedOK

LEMMA SessionInvInit == SessInit => SessionInv
<1> SUFFICES ASSUME SessInit PROVE SessionInv
  OBVIOUS
<1>1. Init
  BY DEF SessInit
<1>2. GrantedOK
  BY <1>1 DEF GrantedOK, Init, Idle
<1> QED  BY <1>1, <1>2, InitInv, SessionsOKInit DEF SessionInv

LEMMA SessionInvStep == SessionInv /\ [SessNext]_vars => SessionInv'
<1> SUFFICES ASSUME SessionInv, [SessNext]_vars PROVE SessionInv'
  OBVIOUS
<1>1. [Next]_dbVars
  BY SessionStepsDatabase DEF SessionInv, SessionsOK
<1>2. Inv' /\ GrantedOK'
  BY <1>1, StepInv, GrantedStep DEF SessionInv, Inv
<1> QED  BY <1>2, SessionsOKStep DEF SessionInv, Inv

LEMMA SessionInvHolds == SessSpec => []SessionInv
BY SessionInvInit, SessionInvStep, PTL DEF SessSpec

\* The clients, their connections and the sessions keep their types.
THEOREM SessionTypesCorrect == SessSpec => []SessTypeOK
<1>1. SessionInv => SessTypeOK
  BY DEF SessionInv, SessionsOK
<1> QED  BY <1>1, SessionInvHolds, PTL

\* Whatever clients and sessions do, the database sees the calls, the kills
\* and the launches of UserDatabase and no others: all that is proved of Spec
\* holds of the server.
THEOREM SessionsUseDatabase == SessSpec => Spec
<1>1. SessInit => Init
  BY DEF SessInit
<1>2. SessionInv => SessTypeOK
  BY DEF SessionInv, SessionsOK
<1> QED  BY <1>1, <1>2, SessionInvHolds, SessionStepsDatabase, PTL DEF SessSpec, Spec

\* With any number of sessions, no answer reaches another client, none comes
\* after its client has gone on to the next request, and no request is lost or
\* taken twice while its connection stands.
THEOREM AnswersMatchRequests == SessSpec => []AnswersTheRequest
<1>1. SessionInv => AnswersTheRequest
  <2> SUFFICES ASSUME SessionInv, NEW t \in Threads
               PROVE  /\ conn[t].toClient # NoMsg =>
                             /\ Waits(t)
                             /\ conn[t].toClient.kind \in AnswersTo(client[t].asked)
                      /\ conn[t].state = "open" /\ Waits(t) =>
                             \E place \in {"toServer", "session", "toClient"} :
                                 Places(t) = {place}
    BY DEF AnswersTheRequest, Waits
  <2>1. OneRequest(t) /\ AnswerOK(t)
    BY DEF SessionInv, SessionsOK, SessionOK
  <2>2. /\ "toServer" \in Places(t) <=> conn[t].toServer # NoMsg
        /\ "toClient" \in Places(t) <=> conn[t].toClient # NoMsg
        /\ "session" \in Places(t) <=> sess[t].pc \notin {"none", "receiving"}
        /\ Places(t) \subseteq {"toServer", "session", "toClient"}
    BY DEF Places
  <2>3. ASSUME conn[t].state = "open", Waits(t)
        PROVE  \E place \in {"toServer", "session", "toClient"} : Places(t) = {place}
    <3>1. CASE conn[t].toServer # NoMsg
      <4>1. Places(t) = {"toServer"}
        BY <2>1, <2>2, <2>3, <3>1 DEF OneRequest
      <4> QED  BY <4>1
    <3>2. CASE sess[t].pc \notin {"none", "receiving"}
      <4>1. Places(t) = {"session"}
        BY <2>1, <2>2, <2>3, <3>2 DEF OneRequest
      <4> QED  BY <4>1
    <3>3. CASE conn[t].toClient # NoMsg
      <4>1. Places(t) = {"toClient"}
        BY <2>1, <2>2, <2>3, <3>3 DEF OneRequest
      <4> QED  BY <4>1
    <3> QED  BY <2>1, <2>3, <3>1, <3>2, <3>3 DEF OneRequest
  <2> QED  BY <2>1, <2>3 DEF AnswerOK
<1> QED  BY <1>1, SessionInvHolds, PTL

\* Client and session never disagree on whether the client is logged in, but
\* for the time AUTH_SUCCESS is on its way; that answer finds its client at the
\* login prompt still, and its session under the name that client gave.
THEOREM EndsAgree == SessSpec => []BothEndsAgree
<1>1. SessionInv => BothEndsAgree
  BY DEF SessionInv, SessionsOK, SessionOK, LoginOK, GrantedOnWay, PastLogin, BothEndsAgree
<1> QED  BY <1>1, SessionInvHolds, PTL

\* Whoever is logged in has an account on record.
HoldersOK == FilesWork => LoggedInHasAccount

LEMMA AccountsStay ==
    ASSUME \A u \in Creds : Storable(u), FilesWork, WorkingInv(Srv), [Next]_dbVars,
           NEW name \in DOMAIN OnRecord
    PROVE  name \in DOMAIN OnRecord'
<1> DEFINE u == [username |-> name, password |-> OnRecord[name]]
<1>1. Matches(OnRecord, u)
  BY DEF Matches
<1>2. Matches(OnRecord', u)
  BY <1>1, SrvAssumption, RecordGrows
<1> QED  BY <1>2 DEF Matches

\* A session is logged in by the result of its call, or was before.
LEMMA LoginFromCall ==
    ASSUME SessTypeOK, [SessNext]_vars, NEW t \in Threads, sess'[t].is_logged_in
    PROVE  \/ sess[t].is_logged_in /\ sess'[t].current_user = sess[t].current_user
           \/ /\ call[Srv][t].at = "authenticated" /\ call[Srv][t].ok
              /\ sess'[t].current_user = call[Srv][t].user.username
<1>1. sess \in [Threads -> SessType] /\ TypeOK /\ Srv \in Procs
  BY SessTypeIs, SrvAssumption
<1>2. CASE sess' = sess
  BY <1>2
<1>3. CASE ProcessEnds
  BY <1>3 DEF ProcessEnds, NoThreadYet
<1>4. ASSUME NEW s \in Threads, DatabaseReturns(s)
      PROVE  \/ sess[t].is_logged_in /\ sess'[t].current_user = sess[t].current_user
             \/ /\ call[Srv][t].at = "authenticated" /\ call[Srv][t].ok
                /\ sess'[t].current_user = call[Srv][t].user.username
  <2> DEFINE result == call[Srv][s]
             response == Outcome(result)
             new == IF response = "AUTH_SUCCESS" THEN LogsIn(sess[s], result.user) ELSE sess[s]
  <2>1. sess' = [sess EXCEPT ![s] = [new EXCEPT !.pc = "sending", !.response = response]]
    BY Zenon, <1>4 DEF DatabaseReturns
  <2>2. result \in Returned
    BY <1>1, <1>4, CallShape DEF DatabaseReturns, TakeResult
  <2>3. response = "AUTH_SUCCESS" => result.at = "authenticated" /\ result.ok
    BY <2>2 DEF Returned, Outcome
  <2>4. CASE s # t
    BY <1>1, <2>1, <2>4
  <2>5. CASE s = t /\ response # "AUTH_SUCCESS"
    <3>1. new = sess[t] /\ sess[t] \in SessType
      BY <1>1, <2>5
    <3> HIDE DEF new, response
    <3>2. /\ [new EXCEPT !.pc = "sending", !.response = response].is_logged_in
                 = sess[t].is_logged_in
          /\ [new EXCEPT !.pc = "sending", !.response = response].current_user
                 = sess[t].current_user
      BY <3>1 DEF SessType
    <3> QED  BY <1>1, <2>1, <2>5, <3>2
  <2>6. CASE s = t /\ response = "AUTH_SUCCESS"
    <3>1. new = [sess[t] EXCEPT !.is_logged_in = TRUE, !.current_user = result.user.username]
          /\ sess[t] \in SessType
      BY <1>1, <2>6 DEF LogsIn
    <3> HIDE DEF new, response
    <3>2. [new EXCEPT !.pc = "sending", !.response = response].current_user
              = result.user.username
      BY <3>1 DEF SessType
    <3> QED  BY <1>1, <2>1, <2>3, <2>6, <3>2
  <2> QED  BY <2>4, <2>5, <2>6
<1>5. ASSUME NEW s \in Threads,
             \/ Accept(s) \/ ServerReceives(s) \/ CallDatabase(s) \/ AnswerAtOnce(s) \/ Send(s)
      PROVE  sess'[t].is_logged_in = sess[t].is_logged_in
             /\ sess'[t].current_user = sess[t].current_user
  <2>1. sess[s] \in SessType
    BY <1>1
  <2>2. PICK new : /\ sess' = [sess EXCEPT ![s] = new]
                   /\ new.is_logged_in = sess[s].is_logged_in
                   /\ new.current_user = sess[s].current_user
    <3>1. CASE Accept(s)
      <4> DEFINE new == [sess[s] EXCEPT !.pc = "receiving"]
      <4>1. sess' = [sess EXCEPT ![s] = new]
        BY <3>1, Zenon DEF Accept
      <4>2. new.is_logged_in = sess[s].is_logged_in /\ new.current_user = sess[s].current_user
        BY <2>1 DEF SessType
      <4> HIDE DEF new
      <4> QED  BY <4>1, <4>2
    <3>2. CASE ServerReceives(s)
      <4> DEFINE new == [sess[s] EXCEPT !.pc = "dispatching", !.msg = conn[s].toServer]
      <4>1. sess' = [sess EXCEPT ![s] = new]
        BY <3>2, Zenon DEF ServerReceives
      <4>2. new.is_logged_in = sess[s].is_logged_in /\ new.current_user = sess[s].current_user
        BY <2>1 DEF SessType
      <4> HIDE DEF new
      <4> QED  BY <4>1, <4>2
    <3>3. CASE CallDatabase(s)
      <4> DEFINE new == [sess[s] EXCEPT !.pc = "calling", !.msg = NoMsg]
      <4>1. sess' = [sess EXCEPT ![s] = new]
        BY <3>3, Zenon DEF CallDatabase
      <4>2. new.is_logged_in = sess[s].is_logged_in /\ new.current_user = sess[s].current_user
        BY <2>1 DEF SessType
      <4> HIDE DEF new
      <4> QED  BY <4>1, <4>2
    <3>4. CASE AnswerAtOnce(s)
      <4> DEFINE answer == IF sess[s].is_logged_in THEN "ACK"
                           ELSE IF sess[s].msg.kind = "chat" THEN "ERROR"
                           ELSE "REG_FAIL: Invalid data"
                 new == [sess[s] EXCEPT !.pc = "sending", !.msg = NoMsg, !.response = answer]
      <4>1. sess' = [sess EXCEPT ![s] = new]
        BY <3>4, Zenon DEF AnswerAtOnce
      <4> HIDE DEF answer
      <4>2. new.is_logged_in = sess[s].is_logged_in /\ new.current_user = sess[s].current_user
        BY <2>1 DEF SessType
      <4> HIDE DEF new
      <4> QED  BY <4>1, <4>2
    <3>5. CASE Send(s)
      <4> DEFINE new == [sess[s] EXCEPT !.pc = "receiving", !.response = "none"]
      <4>1. sess' = [sess EXCEPT ![s] = new]
        BY <3>5, Zenon DEF Send
      <4>2. new.is_logged_in = sess[s].is_logged_in /\ new.current_user = sess[s].current_user
        BY <2>1 DEF SessType
      <4> HIDE DEF new
      <4> QED  BY <4>1, <4>2
    <3> QED  BY <1>5, <3>1, <3>2, <3>3, <3>4, <3>5
  <2> QED  BY <1>1, <2>2
<1>6. ASSUME NEW s \in Threads, EndSession(s)
      PROVE  sess'[t] = sess[t]
  BY <1>1, <1>6 DEF EndSession, NoThreadYet
<1>7. Launch \/ (\E s \in Threads : ClientStep(s) \/ KernelGivesUp(s) \/ DatabaseStep(s))
          => sess' = sess
  BY DEF Launch, sessVars, ClientStep, Connect, ClientReceives, ClientHearsNothing, Leave,
         Vanish, AskAuth, Say, KernelGivesUp, DatabaseStep
<1>8. (\E s \in Threads : AcceptThrows(s) \/ SendRaisesSigpipe(s)) => ProcessEnds
  BY DEF AcceptThrows, SendRaisesSigpipe
<1> QED  BY <1>2, <1>3, <1>4, <1>5, <1>6, <1>7, <1>8 DEF SessNext, SessionStep, vars, sessVars

DurableSessionInv == SessionInv /\ ServiceInv(Srv) /\ HoldersOK

LEMMA DurableSessionStep ==
    ASSUME \A u \in Creds : Storable(u), DurableSessionInv, [SessNext]_vars
    PROVE  DurableSessionInv'
<1>1. /\ SessTypeOK /\ Srv \in Procs /\ Procs = {Srv} /\ WorkingInv(Srv)
      /\ SessionInv' /\ [Next]_dbVars
  BY SrvAssumption, SessionInvStep, SessionStepsDatabase
     DEF DurableSessionInv, SessionInv, SessionsOK, ServiceInv
<1>2. ServiceInv(Srv)'
  BY <1>1, ServiceInvStep DEF DurableSessionInv
<1>3. HoldersOK'
  <2> SUFFICES ASSUME FilesWork', NEW t \in Threads, sess'[t].is_logged_in
               PROVE  sess'[t].current_user \in DOMAIN OnRecord'
    BY DEF HoldersOK, LoggedInHasAccount
  <2>1. FilesWork
    BY <1>1, FaultsStay DEF FilesWork
  <2>2. CASE sess[t].is_logged_in /\ sess'[t].current_user = sess[t].current_user
    <3>1. sess[t].current_user \in DOMAIN OnRecord
      BY <2>1, <2>2 DEF DurableSessionInv, HoldersOK, LoggedInHasAccount
    <3> QED  BY <1>1, <2>1, <2>2, <3>1, AccountsStay
  <2>3. CASE /\ call[Srv][t].at = "authenticated" /\ call[Srv][t].ok
             /\ sess'[t].current_user = call[Srv][t].user.username
    <3>1. call[Srv][t].user.username \in DOMAIN OnRecord
      BY <1>1, <2>1, <2>3 DEF DurableSessionInv, ServiceInv, LoginsOK, Matches
    <3> QED  BY <1>1, <2>1, <2>3, <3>1, AccountsStay
  <2> QED  BY <1>1, <2>2, <2>3, LoginFromCall
<1> QED  BY <1>1, <1>2, <1>3 DEF DurableSessionInv

LEMMA DurableSessionHolds ==
    ASSUME \A u \in Creds : Storable(u)
    PROVE  SessSpec => []DurableSessionInv
<1>1. SessInit => DurableSessionInv
  <2> SUFFICES ASSUME SessInit PROVE DurableSessionInv
    OBVIOUS
  <2>1. SessionInv /\ ServiceInv(Srv)
    BY SessionInvInit, ServiceInvInit, SrvAssumption DEF SessInit
  <2>2. HoldersOK
    BY DEF SessInit, HoldersOK, LoggedInHasAccount, NoThreadYet
  <2> QED  BY <2>1, <2>2 DEF DurableSessionInv
<1>2. DurableSessionInv /\ [SessNext]_vars => DurableSessionInv'
  BY DurableSessionStep
<1> QED  BY <1>1, <1>2, PTL DEF SessSpec

\* In every behaviour in which the files work, a client that was told
\* REG_SUCCESS finds its account in every later run, through any kills and
\* restarts; it is enough that the credentials are ones the format can hold.
THEOREM ToldAccountsAreDurable ==
    ASSUME \A u \in Creds : Storable(u)
    PROVE  SessSpec => [](FilesWork => ToldIsDurable)
<1>1. DurableSessionInv => (FilesWork => ToldIsDurable)
  <2> SUFFICES ASSUME DurableSessionInv, FilesWork PROVE ToldIsDurable
    OBVIOUS
  <2>1. \A u \in granted : Matches(OnRecord, u)
    BY DEF DurableSessionInv, ServiceInv, WorkingInv, DurableInv, Durable
  <2>2. /\ told \subseteq granted
        /\ \A t \in Threads : conn[t].toClient.kind = "REG_SUCCESS" =>
                                 client[t].asked.user \in granted
    BY DEF DurableSessionInv, SessionInv, SessionsOK, SessionOK, ToldOK
  <2> QED  BY <2>1, <2>2 DEF ToldIsDurable
<1> QED  BY <1>1, DurableSessionHolds, PTL

\* In every behaviour in which the files work, nobody is logged in without an
\* account, however long ago the login was and whatever died since.
THEOREM LoginsHaveAccounts ==
    ASSUME \A u \in Creds : Storable(u)
    PROVE  SessSpec => [](FilesWork => LoggedInHasAccount)
<1>1. DurableSessionInv => (FilesWork => LoggedInHasAccount)
  BY DEF DurableSessionInv, HoldersOK
<1> QED  BY <1>1, DurableSessionHolds, PTL

\* What the sessions of the server are given is what an account registry
\* gives: they use it through registerUser and authenticate alone.  This is of
\* credentials the format can hold; a session lets others through, names with
\* a colon for one, and the next launch reads back another account for them.
THEOREM SessionsImplementRegistry ==
    ASSUME \A u \in Creds : Storable(u)
    PROVE  SessSpec => ImplementsRegistry
BY SessionsUseDatabase, DatabaseImplementsRegistry, SrvAssumption
=============================================================================
