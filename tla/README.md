# A verification of the tunneling and transmission analysis system

The repository is a client and a server that exchange chat messages over TCP,
SCTP or UDP, so that a user can watch the transmission figures of the
connection while the client emulates packet loss and floods the server with
background traffic. The server keeps the accounts of its users in one text
file. This directory holds TLA+ models of both programs, the TLC
configurations that check them, and TLAPS proofs, for every value of the
constants, of the safety of all of it: the accounts, the sessions and the
datagram loop that use them, the frames, the client program and its figures.

Paths below are relative to `src/project_tuna/`.

## The system

| Component | State | Operations | Talks to |
|---|---|---|---|
| `User` and its line (`tuna_srv/core/User.h`) | name, password | `serialize`, `deserialize`, `checkPassword` | `DatabaseManager` |
| `DatabaseManager` (`tuna_srv/core/DatabaseManager.cpp`) | `users` (a `std::map`), `db_mutex`, `users_db.txt` | construct and `load`, `registerUser`, `authenticate`, `save` in the destructor | called by every session thread; the file is shared by every server process in the directory |
| Launch of the server (`tuna_srv/core/main.cpp`, `server_code/*ServerTransport.cpp`) | which port is bound | bind, accept, end | kernel, `DatabaseManager` |
| TCP/SCTP session (`server_code/server.cpp:43`) | `is_logged_in`, `current_user`, the socket | `handle_client_session` in a detached thread | a client's frames, `DatabaseManager` |
| UDP loop (`server_code/server.cpp:131`) | none between datagrams | recvfrom, dispatch, sendto | datagrams of all clients, `DatabaseManager` |
| Frames (`client_code/{TCP,SCTP}ClientTransport.cpp`, in both programs) | socket, counters | `send`, `recieve` | kernel |
| Client program (`tuna_cli/client_code/client.cpp`) | prompts, `p_drop_val`, login state | login loop, drop prompt and `tc`, background prompt, chat loop, cleanup | transport, `TrafficGenerator`, the host's interface |
| `TrafficGenerator` (`tuna_cli/client_code/TrafficGenerator.cpp`) | `running`, `worker_thread` | `setup`, `start`, `stop`, the thread | client program |
| `Telemetry` (`tuna_cli/core/telemetry.h` and the transports) | round trip, jitter, losses, counters | `update_rtt_value`, `telemetry_update` | transport, client program |
| `TrafficSink` (`tuna_srv/server_code/TrafficSink.cpp`) | `running`, a thread, a socket on port 9999 | `start`, `receive_loop` | client's flood; competes for the port with the other servers of the host |

What is hard about it:

- **Concurrency.** Session threads share the map and the file; server
  processes share the file without any lock; client programs on one host share
  the interface's queueing discipline; the traffic thread shares `running`.
- **Crashes.** A serving process ends only by a signal: `start_transmission`
  never returns. So the saving destructor runs only in a process that could
  *not* serve, and everything else must already be in the file.
- **Ordering.** Answers carry no identity; the client pairs them with requests
  by their order. Over UDP the client does not wait for an answer at all.
- **Partial operations.** A frame is written and read in pieces; `save`
  truncates first and writes later; streams that do not open are skipped;
  `system("tc ...")` may fail unseen; `stoi` throws and nobody catches it.
- **Figures kept in several places.** One variable holds the last round trip
  and the new one; counters of one quotient are kept in different calls.

## The modules

```
UserStore <-- LoadLoop <-- MCLoadLoop
    ^             ^--INSTANCE-- UserStoreProofs
UserDatabase --INSTANCE--> AccountRegistry     UserDatabase <-- MCUserDatabase
    ^  ^-------- UserDatabaseProofs --> UserStoreProofs
    +--- SessionServer <-- MCSessionServer, SessionServerProofs
    +--- UdpExchange   <-- MCUdpExchange, UdpExchangeProofs
    +--- ServerHost    <-- MCServerHost, ServerHostProofs
             +--INSTANCE--> TrafficSink
FrameStream --INSTANCE--> MessageChannel
FrameStream <-- MCFrameStream, FrameStreamProofs
ClientApp   <-- MCClientApp, ClientAppProofs
Telemetry   <-- MCTelemetry, TelemetryProofs

A <-- B: B extends A.  The proofs of SessionServer, UdpExchange and ServerHost
extend UserDatabaseProofs, whose theorems hold under each of them.
```

**UserStore** is the data: users, their lines, and whole files. A string is a
sequence of character codes here, because what happens to a colon is the
point. `Deserialize` cuts at the first colon and refuses a line with nothing
behind it, as the two `getline` calls do. A file is the sequence of its bytes,
because a save that is cut short ends within a line: `LineEnds` and `LineTo`
find its lines, the last one with or without a newline, and `Load` is the map
it stands for (last line of a name wins). `IsFirst` is the order in which `save`
visits a map, `std::string`'s `<`. `WrittenAt` is a write at a stream's own
offset into a file that may have grown, or been truncated, meanwhile.

**LoadLoop** is `load()` line by line, and then the loop of `save` user by user.
It exists to show that `Load` and the lines written are right: TLC runs it on
small files, `UserStoreProofs` proves it for all.

**UserDatabase** is `DatabaseManager` in any number of processes and threads.
`Construct`, `BindSucceeds`, `BindFails`, `SaveTruncates`, `SaveLine`,
`SaveCloses`, `SaveCannotOpen` and `Kill` are the life of a process. `save`
writes through a buffered stream (`out`): each line goes into the buffer, of
which any beginning may reach the file at once, where the stream's offset is,
and the rest follows when the stream is closed, or never, after a kill. So a
kill within `save` leaves the beginning of the accounts, with a torn last line
perhaps, which the next `load` reads and the next append continues. A call that
does not change the map locks and unlocks within a step (`RegisterExisting`,
`Authenticate`); a registration is three steps under the mutex, `RegisterNew`,
`Insert`, `AppendLine`, with a kill possible between any two. The variable
`faults` is what may go wrong in a behaviour, chosen in `Init` out of `Faults`:
a bind that is denied for another reason than the port, files that do not open,
kills in the middle of `save`. `FilesWork` excludes the last two. An append
(`AppendLine`) writes its line in one piece, or not at all when the stream does
not open.

**AccountRegistry** is what the database promises: a table that is only added
to, where a registration and a login each take effect at one instant, and a
restart loses nothing but answers that were not collected. The mapping is in
UserDatabase (`Registry`): its table is `OnRecord`, a registration takes effect
when its line is appended.

**TrafficSink** is the sinks of the server processes of one host and the
datagrams in the kernel's buffer for their port; **ServerHost** composes it with
`UserDatabase`: servers of several protocols with ports of their own, but one
`users_db.txt` and one noise port. A process starts its sink before it serves
its first call, and does not look at whether that worked: the port may be
held, or `socket` or `bind` may fail for another reason.

**SessionServer** extends `UserDatabase` with connections, session threads and
clients. A connection holds at most one frame each way, because both ends wait
for the other in turn. `Send` to a client that has closed draws a reset;
`SendRaisesSigpipe` is the second of `send`'s two writes arriving after it. A
client's host may also disappear without a word (`Vanish`): the kernel notices
only when it waits for an acknowledgement (`KernelGivesUp`). Connections wait in
a queue of `LISTENQ` until they are accepted, and the system may refuse the
thread of a further session, which ends the process (`AcceptThrows`).

**UdpExchange** extends `UserDatabase` with the datagram loop and the client
over `UDPClientTransport`. The network loses and reorders; it duplicates when
`NetFaults` says so. Datagrams are numbered in the model only, to state what
the code cannot see.

**FrameStream** is one direction of a connection in units of bytes: `send`
writing header and body in pieces, `recieve` collecting them, the limit, the
nonce, closes and resets at every point. The cipher is a bijection of whole
bodies. **MessageChannel** is what it should amount to: whole messages, in
order, each at most once.

**ClientApp** is the client program from its attempt to connect, with the
traffic thread, the emulated loss, end of input and several programs on one
host. `tcFails` says which commands of `tc` may fail, for want of permission or
of netem; the result of `system` is not looked at. What the server answers is
left to the modules above.

**Telemetry** is the figures, over all three transports, in the order of the
client's loops: round trip and jitter, losses, throughput and goodput, and
whether `mtu`, which has no initial value, has been set. Quotients are pairs of
numerator and denominator. Over UDP the network may duplicate a datagram, and
then more answers are counted than requests. One assumption is about the kernel:
it knows the path MTU of a socket that has just been connected, unless the
connection is gone again and the send fails as well; later `getsockopt` may fail
although the send succeeds, and `mtu` stays what it was.

## The runs

| Run | Question | Bounds |
|---|---|---|
| `load_loop` | Is `Load` what the loop computes, and is what `save` writes read back? | every file of up to 8 bytes out of the newline, the colon and two letters |
| `db_registry` | Does one server process, its kills, failed binds and restarts included, implement `AccountRegistry`? Are map and file in step? With streams that do not open and kills inside `save`, what is still true? | 2 threads, 2 names (one a prefix of the other and with two passwords, one of them with a colon), registrations on files of less than 7 bytes; binds denied, also with streams that do not open, also with kills within `save` |
| `db_second_launch` | Does the destructor save? (violated) | 2 processes on one port |
| `server_host` | Do a TCP and a UDP server on one host keep each other's accounts and make none up, and is the noise port drained? | 2 processes with one thread each, 2 names, one with 2 passwords, registrations on files of less than 5 bytes, 2 datagrams in the buffer; streams may open or not |
| `sessions` | Are answers true, in order, and given in the end, is every connection accepted and every session ended? | 2 clients that may quit, die or vanish, one name with 2 passwords, a queue of 1, a second thread that may be refused, the server stopped at any step |
| `client_loss` | Can a client stop the server? (violated) | 2 clients, nobody stops the server, threads are never refused, no host vanishes |
| `udp` | What survives loss, retry, duplication and reordering? | 1 client that sends 3 and receives 2 datagrams, one name with 2 passwords |
| `udp_late_reply` | Does `recieve` wait for its answer? (violated) | a network that loses nothing |
| `frames` | Do frames implement `MessageChannel`, is a message that was reported as sent ever lost, and does it arrive? | 3 messages of 0 to 4 units, header of 3, nonce of 1, limit 4, 6 units in the kernel |
| `client_app` | Is the emulated loss what was asked, and does every way out clean up and end? | 2 programs, answers -1, 0, 1, 100, 101; either command of `tc` may fail |
| `telemetry` | Are losses shares unless a datagram is duplicated, is jitter a difference, are SCTP's windows disjoint, is the MTU set before it is shown? | 4 messages of 2 sizes, up to 6 answers counted, 3 round trips, 2 retransmissions, 6 ticks of 50 ms |
| `telemetry_window` | Is a throughput of the bytes of its window? (violated) | the same |

What each property says is written above its definition. The ones that carry
the most:

- `ImplementsRegistry` (`db_registry`): linearizability and durability of the
  accounts in one statement, across restarts.
- `OnlyRegistered` and `SaveTearsOnlyTheEnd` (`db_registry`): no denied bind,
  failed open, kill or rewritten file makes an account up, except for a kill
  within `save`; and that one tears no line but the last that was written.
- `ToldIsDurable`, `AnswersTheRequest`, `BothEndsAgree` (`sessions`): what a
  client was told is on record; no answer is late or another client's, and while
  the connection stands no request is lost or taken twice; both ends have the
  same idea of who is logged in, although each keeps its own, and a login that
  is on its way to its client is under the name it asked for.
- `EveryRequestEnds`, `SessionsAreReaped`, `ConnectionsAreAccepted`
  (`sessions`): no client waits for ever, however long other sessions last, and
  the thread of a client that has left ends.
- `GrantsStayOnFile` (`server_host`): with two servers on one file, and as long
  as neither is denied its port, whatever one has granted stays on the file
  through the other's registrations, kills and restarts, and the next launch
  knows the name, under a password that one of them granted.
- `SharingMakesNothingUp` (`server_host`): nor does sharing the file make an
  account up, whatever streams do not open. With a denied bind both are false: a
  process that may not bind saves its old map over the others' lines (finding 1),
  at offsets that may lie within them. The run leaves denied binds out also
  because two processes that save at the same time then build files with holes
  of zeros, without end.
- `LossIsFraction` (`telemetry`): a loss is at most the whole, and not negative
  unless the network has duplicated a datagram, when it may be.
- `LoginIsEarned`, `OnePasswordEach` (`udp`): however datagrams are retried,
  doubled or reordered, a client is logged in only after the server accepted
  its login, and never two passwords for one name.
- `ImplementsChannel`, `ReportedIsKept`, `SentIsReceived` (`frames`): whole
  messages in order; once `send` has returned, its message is delivered or its
  end is before a receiver that reads on, also when the sender has died since;
  and so it is received.
- `LosesAsAsked`, `LeavesNoTrace`, `LeavesInTheEnd` (`client_app`).

### Why the bounds are enough

- Two threads are all a mutex can tell apart; a third only repeats the second.
- `LISTENQ` is 1 and `SureThreads` 1 where the code has 5 and the system
  thousands: with two clients, larger values would never be reached.
- A noise buffer of two datagrams can be empty, filling and full.
- Files of up to 7 bytes hold one long line or two short ones before the next
  registration, which makes a name and its prefix, or a torn line and what
  continues it. `MaxBytes` only keeps registrations from starting on a longer
  file; `MaxFile` = 8 has room for two accounts of one name, a blank line and
  one without a newline.
- One name with two passwords is where retries and duplicates could disagree.
- Three datagrams are a request, its retry and one more; a late reply needs two.
- A header of three units can be torn after one or two; sizes 0 to 4 with a
  nonce of 1 and a limit of 4 contain the empty message, the greatest one that
  is accepted (3) and the least that is refused (4); six units are less than a
  full frame, so writes block in the middle of one.
- Six ticks hold three windows, two consecutive ones that measure and one cut
  short; four messages fill two windows, and `MaxDoubles` = 6 answers are
  more than four messages.
- Answers of -1, 0 and 1 and of 100 and 101 lie on both sides of both limits.

### Deadlock

`load_loop`, `frames`, `telemetry` and `telemetry_window` are checked with
`CHECK_DEADLOCK FALSE`: a loop ends with its file, a connection ends when both
ends are closed, and the telemetry runs stop at their bounds or after a failed
transmission. Everywhere else deadlock is checked: a server can always be
launched again and a client started again.

### Fairness

- `SessFairness` (SessionServer): weak fairness of `Accept`, of each session
  thread's steps, of a client that has something to read or whose connection is
  gone, and of the kernel giving up a connection on which it waits for an
  acknowledgement (TCP retransmits a bounded number of times; no keep-alive is
  set, so it does not ask after a silent peer). These are threads of the
  operating system that can run; between a request and its answer a session
  thread waits only for `db_mutex`. Weak fairness suffices because only a
  registration that succeeds holds `db_mutex` over several steps, and each name
  is registered once: with finitely many names no session is overtaken for ever.
  With an endless supply of new names the same would need a mutex that is fair,
  which `std::mutex` does not promise; the run does not cover that. Users are
  not assumed to ask, to connect or to leave, and the server is not assumed to
  be launched.
- `HostSpec` (ServerHost): weak fairness of a sink's `Receive`, a thread that
  can run whenever its socket has a datagram.
- `FrameStream!Spec`: weak fairness of `Receive`, the session thread. Nothing
  is assumed of the sender.
- `ClientApp!Fairness`: weak fairness of the program's own steps, of the
  traffic thread, and of prompts once standard input has ended. A user who does
  not type is allowed. That `recieve` returns is `EveryRequestEnds`.

## What the runs found

1. **A second launch loses accounts** (`db_second_launch`). `~DatabaseManager`
   saves "upon shutdown" (`DatabaseManager.h:32`), but only a process whose bind
   failed gets there. It loaded the file at its launch, and writes this old map
   over what the serving process has appended since.
2. **A client that leaves stops the server** (`client_loss`). The result of
   `send` is not looked at, `send` makes two writes, and `SIGPIPE` is not
   handled: the reset that answers the first write turns the second into the
   end of the process, against the session's own "Check for disconnection or
   error".
3. **A UDP answer is taken for the next request's** (`udp_late_reply`). The
   comment above `recv` says `MSG_DONTWAIT` was removed; it is still there.
4. **Throughput over TCP and UDP counts every byte since the start**
   (`telemetry_window`): `last_total_bytes` is assigned over SCTP only.

Known limits of the properties, which the model contains and a reader can
reach by changing a constant:

- Servers of two protocols share the file but not the map: both can grant one
  name, and the later line wins at the next launch. `Durable` and
  `ImplementsRegistry` are about one process; what does hold for two is
  `GrantsStayOnFile`.
- A sink that could not bind does not try again: after the first server of a
  host ends, nobody holds port 9999 until a launch. `NoiseIsDrained` is about
  datagrams the kernel has taken for a socket.
- The session thread of a TCP client whose host vanished while nothing was under
  way stays in `recieve`; `SessionsAreReaped` excepts it (`HalfOpen`).
- A name with a colon, or over UDP an empty password, is confirmed and then
  lost or misread at the next launch; the theorems about accounts assume storable
  credentials (`Storable`), which the code does not enforce, and the runs use
  such.
- A kill within `save` loses the accounts that have not reached the file, and
  may tear the last line: it then reads as a shorter password, and the next
  append continues it. `Durable`, `InStep` and `OnlyRegistered` except the
  behaviours with such kills; `SaveTearsOnlyTheEnd` does not.
- When the append's stream does not open, the client is told `REG_SUCCESS` and
  the account is gone with the process: `Durable` assumes files that open.
- A duplicated datagram makes `packet_loss` negative:
  `AnswersDoNotExceedRequests` leaves out clients of whom one was duplicated,
  and `LossIsFraction` the lower bound of what they are shown.
- A client that is killed leaves its `netem` discipline behind, and a later
  answer between 1 and 99 is then not applied: `LosesAsAsked` and
  `LeavesNoTrace` are about programs that are alone and found the interface
  clean, the one where `tc` can add a discipline, the other where it can delete
  one.
- At end of input the login prompt asks for ever; `LeavesInTheEnd` starts
  after the login.

## The proofs

`UserStoreProofs` proves what the text format does, for all inputs:

- `RoundTrip`: `Deserialize(Serialize(u)) = u` for every storable `u`. The line
  has its first colon right behind the name (`SerializeLine`), and the choice
  of a first colon is unique (`CutAt`).
- `LoadAppend`: loading a file of whole lines with one more storable line is
  `Put` on what was loaded. `LastOfExists` gives the last line of a name from
  the existence of a greatest index (`GreatestIndex`, from the least element of
  a set of naturals). It is the case of a storable line in `LoadLine`, which is
  about any line.
- `LoadSaved`: a turn of the loop in `save`. If what is written is read back as
  the users written so far (`Written`), so it is with one more line.
- `SaveFindsNext`: `save` finds a user to write next until it has written all.
  `Before`, the `<` of `std::string`, is strict, transitive and total (total by
  the least place where two strings differ), and among finitely many names there
  is a first (`FirstExists`): a minimal counterexample takes the place of the
  induction that is out of reach.
- `LoopIsLoad` and `LoopIsReadBack`: the loop of `LoadLoop` computes `Load` of
  the bytes it has read, and the map it has built is saved and read back, for
  every file. The invariant `LoopInv` says so of each prefix;
  `LoadLine` is its step. `LoadLoop` is instantiated (`Reading`) for constants
  and variables of any name, so that the modules above can extend
  `UserStoreProofs` without its variables; `LoopOperators` shows that the
  instance's operators are those of `UserStore`.

`UserDatabaseProofs` proves, for every value of the constants:

- `TypeCorrect`: `Spec => []TypeOK`.
- `MutualExclusion`: `Spec => []OneInside`. The inductive invariant `Inv` adds
  `BusyOK`: a thread inside is one of a serving process, and the name it is
  about to insert is still free. `OneInside` alone is not inductive for `users`,
  and without "serving" a bind or a save could meet a thread inside.
- `StableAccounts`: `Spec => AccountsAreStable`, an action property, from `Inv`:
  the only step that changes the map of a serving process is `Insert`, and
  `BusyOK` says it does not overwrite.
- `MemoryInStep` and `AccountsAreDurable`: `Spec => []InStep` and
  `Spec => []Durable`, for one process and storable credentials. These are
  premises of the theorems: finding 1 refutes them for two processes, and the
  known limits above show why credentials must be storable. Both properties
  speak of the behaviours in which the files work (`FilesWork`), and the theorems
  hold for every set of faults, denied binds included: `FaultsStay` says a
  behaviour keeps the faults it was given, so `WorkingInv`, which is
  `FilesWork => DurableInv` with the type and mutex invariants, is inductive. The
  invariant `DurableInv` adds `InStep` (map and file differ
  by exactly the user in flight) and that all maps are storable, so that
  `LoadAppend` carries `AppendLine`. While `save` is between truncating and
  closing, `OnRecord` is the map in memory: the record exists in one place at
  every instant. That it reaches the file is `SaveInv`: file and buffer together
  are `Written`, the stream's offset is the end of the file, and `LoadSaved`
  carries `SaveLine` however much of the buffer is written.
- `NothingMadeUp`: `Spec => []OnlyRegistered` for one process and storable
  credentials, in every behaviour without a kill within `save` (the property says
  so). It needs less than durability: `OriginInv` says that the map comes from
  what was granted or is in flight, the file from what was granted, and that the
  map is fit to be written and what is written of it to be read back; accounts
  that are lost are no harm to it.
- `SaveTearsTheEnd`: `Spec => []SaveTearsOnlyTheEnd` for one process and storable
  credentials, kills within `save` included. `TearInv` needs nothing of the file
  that the process has loaded, for what `load` builds is fit to be written
  whatever it has read (`LoadStorable`); `WholeLinesGrow` says a turn of the loop
  adds one newline, at the end.
- `DatabaseImplementsRegistry`: `Spec => ImplementsRegistry`, the refinement the
  run checks, under the same premises as `AccountsAreDurable`. `LifecycleRecord`
  shows that no step of a process's life changes what is on record,
  `TableOfCaller` that a call which may start finds map and table equal (nobody
  is in flight while `db_mutex` is free, by `OneInside`), and `CallImplements`
  maps each call's steps: `Insert` stutters and `AppendLine` is the instant a
  registration takes effect.
- `ServiceInv` collects what the programs that call the database rely on: the
  invariants above, that `db_mutex` is held by a thread that is inside
  (`LockIsUsed`), that `REG_SUCCESS` in the hands of a caller was granted
  (`GrantedOK`), and that a login which succeeded matches the map (`LoginsOK`).

`SessionServerProofs` is about any number of clients and any listen queue.
`SessionsUseDatabase` shows that every step of a session, a client or the
network is a step of the database or leaves it alone, so that
`SessionsImplementRegistry` follows, for storable credentials, and the rest may
use `UserDatabaseProofs`. What is proved of the protocol rests on one invariant
for each client, `SessionOK`:

- `OneRequest`: on an open connection a request is in exactly one place, on
  the wire, in the session's `msg`, in the database, in `response` or in the
  answer under way, as long as the client waits for it and no longer, and it is
  what the client asked last. None of the properties is inductive without it: an
  answer is right because of what the session still holds, several steps earlier.
- `ThreadOK`, `ClientOK`: a session is in the database only while it calls it,
  and a client is there as long as its socket is.
- `LoginOK`: client and session agree on the login, except while `AUTH_SUCCESS`
  is in the session's hand or on the wire, and then its name is `current_user`
  (`GrantedOnWay`); `AnswerOK` and `ToldOK` follow an
  answer, and the grant behind a `REG_SUCCESS`.

`AnswersMatchRequests` is the safety half of `EveryRequestEnds`: on an open
connection a client never waits for a request that nobody has any more. It,
`EndsAgree` and `SessionTypesCorrect` hold for whatever credentials and faults.
`ToldAccountsAreDurable` and `LoginsHaveAccounts` are about storable credentials
and the behaviours in which the files work, as `AccountsAreDurable` is: what was
told was granted, and what was granted is on record. For the login, `HoldersOK`
follows the account from `authenticate`'s answer to the session, and
`AccountsStay` keeps it on record afterwards.

`UdpExchangeProofs` proves all safety of the `udp` run, for any number of
clients and datagrams and any network faults, from `UdpInv`:

- `Promises`: what the loop holds between two calls, and every reply on the
  network, has been earned: an `AUTH_SUCCESS` goes to a client whose login was
  accepted, a `REG_SUCCESS` was granted (`LoginsAreEarned`).
- `CountsOK`: for a client of whom nothing was doubled, what it received, what
  is in the loop's hand for it and its datagrams each way sum up to no more than
  what it sent (`LossIsNotNegative`). The property states the whole sum because
  a datagram moves from one of its terms to the next; with finite networks it
  is inductive.
- `LockIsUsed` and `LoopOK`: the only thread is idle between datagrams and has
  one call at most.

`UdpUsesDatabase` shows that the loop and the network add no behaviour to the
database, so that `UdpImplementsRegistry` follows, for storable credentials: a
registration that arrives twice takes effect once. `ToldUdpAccountsAreDurable`
and `PasswordsAreOne` add `ConfirmedOK`: whatever confirmation is on the
network, however old, matches what is on record now. They have the premises of
`AccountsAreDurable`.

`FrameStreamProofs` proves `FrameTypesCorrect` and `FramesImplementChannel`,
the refinement of `MessageChannel`, for messages of any size, any number of
them, any buffer and every way of cutting up writes and reads. While the
receiver is open, `FrameInv` says, the units it has in hand, those on the wire
and those left to write are one contiguous piece of the stream of all frames
(`StreamOK`): the wire begins with the unit the receiver expects, ends where
the sender continues, and within it each unit is followed by the next.
`Contiguous` also says it in closed form, for two units of one frame any
distance apart: that part makes a frame that was collected in several reads
equal to the one that was sent, and spares an induction over its length. A
receiver that finds a frame it cannot decrypt would need a unit that is
missing, which `Contiguous` excludes.

`ReportedMessagesAreKept` (`Spec => []ReportedIsKept`) is the safety half of
`SentIsReceived`, which is a leads-to: once `send` has returned, its message is
either delivered, or its last unit is on the wire before a receiver that reads on.
It is not inductive: that nothing is lost when the session ends depends on why
it ended. `KeptOK` says so. A receiver that is closed without a reset has read
everything that was reported before the sender closed, or has come to an empty
or an overlong message, which is where `Deliverable` stops. An open one has the
end of every reported message that it has not delivered still on the wire; and
as long as the sender is open, all calls of `send` but the current one have
been reported. It needs `FrameInv`: the unit that completes a message is the
last one of its frame because the stream is contiguous (`ReadIs`).

`ServerHostProofs` is about any number of servers. `HostImplementsDatabase`: a
host's behaviours are behaviours of `UserDatabase`, so what is proved there of
any number of processes holds. `GrantsAreKept`: `HostSpec =>
[]GrantsStayOnFile` when each server has a port of its own and credentials are
storable. The property is not inductive: a process about to save would lose what
others granted, and a launch must not read a password nobody granted. `HostInv`
adds that without a denied bind nobody gets to save (`NobodySaves`), and then
every map in memory and the one the file stands for hold what some server
granted or has in flight (`AllGranted`); without faults each granted line is
there (`LinesStay`). `AllGranted` needs no file to open, which gives
`HostMakesNothingUp`: `HostSpec => []SharingMakesNothingUp`, under the same two
premises. The property is about hosts on which no bind is denied, and would be
false without: a server that may save writes at the offsets of its own stream,
over lines others have appended since.

`ClientAppProofs` proves the safety half of the client, for any number of
programs and any integers typed: `AppTypeCorrect` and `ThreadIsJoined` from one
another; `LossIsApplied` and `LossIsRemoved` from `LossInv`, which follows an
undisturbed program from place to place (`Emulating`) and says that whoever is
up beside others is disturbed (`Alone`), so that only the acting program has to
be looked at (`OneActs`). `NearestIsLimited` shows that the two limits yield the
nearest percentage.

`TelemetryProofs` proves the four properties of the `telemetry` run for messages
and round trips of any size and any bounds, from `TelInv`: answers are to
messages that were counted, unless a datagram was doubled, `last_sent_count` and
`last_recvd_count` stay zero, a message that may be answered was sent on a
socket whose MTU is known, and `rtt_ms` is the last round trip.

Model-checked only:

- Every liveness property: `EveryRequestEnds`, `SessionsAreReaped`,
  `ConnectionsAreAccepted`, `SentIsReceived`, `NoiseIsDrained` and
  `LeavesInTheEnd`. The provers do not reach fairness or `ENABLED`. Of the first
  and the fourth the safety halves are proved, as said above.
- The violated runs: a counterexample is a proof of its own.

Every other property of the runs is a theorem; the two of `load_loop` are
`LoopIsLoad` and `LoopIsReadBack`, stated through the instance `Reading`.

## Not modelled

- The bytes of the cipher, the value of the MTU, addresses and
  `find_active_interface`, log and console output, the Makefiles.
- `TrafficSink::stop` and `Server::close_transmission`: nothing calls them in a
  process that has started its sink.
- Writes to `users_db.txt` that are cut short by a full disk, and bytes that
  were written but not yet on the disk when the power failed: what has reached
  the file survives whatever ends a process.
- A kill in the middle of an append: its line is one write of the stream's
  buffer, which the kernel completes (of one longer than the buffer, some KB, a
  part might stay behind).
- Empty datagrams to port 9999, which end a sink: no generator sends one.
- The client's wait for ever when the server's host vanishes: `recieve` over TCP
  has no timeout, and `EveryRequestEnds` is about servers that end as processes.
- Sources no Makefile compiles or no program calls: `tuna_cli/server_code`,
  `tuna_srv/client_code/client.cpp` and `UDPClientTransport.cpp`.

## The plan

Done: the modules above, their runs, and a theorem for every safety property
and refinement a run checks, several servers on one file included. What a later
development could add:

1. The composition of FrameStream with SessionServer: that a session over
   `MessageChannel` is the session over a connection that holds one frame each
   way, from `FramesImplementChannel` and `ReportedMessagesAreKept`.
2. A disk that is full in the middle of an append: `AppendLine` in pieces, as
   `save` is, and what remains true of a file with a torn line in it.
