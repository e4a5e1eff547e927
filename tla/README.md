# Verification of x_pilot

TLA+ models of the x_pilot flight stack (`src/`, C++): a Manager that starts
three processes and keeps them alive, the processes themselves, the way they
find each other, and the JSON library through which every message passes. The
modules are translated from the source; each definition's lines are in
`PROJECT.json` under `map`.

## The system

| Component | State | Operations | Talks to |
|---|---|---|---|
| Manager (`manager_main.cpp`) | vector of `ProcessInfo`, exit flag | fork/exec, `waitpid`, restart after 3 s, stop with SIGTERM, 5 s, SIGKILL | all children: signals, exit status |
| Comm (`comm_main.cpp`) | epoll set, TCP client, IPC client | one loop: connect TCP, connect IPC, heartbeat, wait, events | ground station over TCP, Control over a Unix socket |
| `TcpClient` (`tcp_client.cpp`) | link state, descriptor, backoff, heartbeat times, receive buffer | connect, result, send, recv, heartbeat, timeout | kernel, Comm's loop |
| Frame protocol (`protocol.cpp`) | the buffer it is given | `parseFrame` | `TcpClient::recv` |
| IPC (`ipc.cpp`) | one descriptor per side | connect, accept, blocking `sendFrame`/`recvFrame` | Comm and Control |
| Control (`control_main.cpp`) | two threads, `RobotState` in shared memory, `client_fd` | accept one client, execute commands, simulate climb, cruise, spray and battery | Comm, View through the shared memory |
| View (`view_main.cpp`) | a read-only mapping | open the object after two seconds, print the altitude once a second | Control's shared memory |
| RAII (`raii.h`) | owned descriptor or mapping | open, reset, move | Control, View |
| JSON texts (`json.hpp`) | none between calls | `parse` (lexer, parser), `dump` (serializer, shortest decimals) | every frame and every configuration file |
| JSON binary formats (`json.hpp`) | none between calls | readers and writers of CBOR, MessagePack, BSON, UBJSON, BJData | nobody in this program |
| Configuration, logging, metrics | none that anything depends on | file I/O | everybody |

What is hard here, and what correctness means:

* **Manager**: forks that fail, children that die before, during and after the
  installation of their handlers, a signal in any sleep, pids given out again.
  The vector must match the kernel's table, no program may run twice, restarts
  must be limited, and nothing may survive the shutdown.
* **Comm's TCP link**: a non-blocking connect with five ways to fail, a backoff,
  a heartbeat that races the answers. A link must never be left unobserved, a
  dead one must be noticed, a live one kept, a reachable station found again.
* **The receive path**: bytes cut anywhere, several frames in one read, and a
  buffer that outlives connections. On one connection every frame must come out
  once and in order.
* **Comm as a user of descriptors**: numbers that are closed, kept and given out
  again. Nothing may leak, and epoll must watch what has a handler.
* **Control**: two threads on one structure without a lock, a blocking read
  against a stop, an exit that unmaps what the other thread writes.
* **All together**: instances that are killed, restarted and given up while their
  peers keep a socket, a mapping or a place in a backlog. The two names through
  which they meet, one in the file system and one of shared memory, must lead to
  the Control that runs, whatever its predecessors left.
* **The way of a message**: a text is parsed and written again on each hop, and
  only one kind of exception is caught. What one process writes the next must
  accept, two decoders of UTF-8 must agree, and a double must come out of its
  shortest decimal as it went in.
* **The binary formats**: each writer goes down a ladder of ranges and each reader
  has the widths once more; counts, sizes and dimensions are read from the input.

## Modules

| Module | Models | Correspondence |
|---|---|---|
| `Manager` | `manager_main.cpp` and the process table | `pc` is the place in `main`; `children`, `dead_info` as in the code; `time_t` values are ages; `proc`/`prog` are the kernel's; one action per step between two system calls that matter |
| `Supervisor` | what the Manager promises | each program is new, up, down or gone |
| `TcpClient` | class `TcpClient`, steps A, B2, C and D/TCP of Comm's loop, station, network | one operator per method, from the object before to the object after; one action per step of the loop |
| `Protocol` | `parseFrame`, and the frames that senders write | a recursive function; header size, alphabet and limit are constants |
| `TcpStream` | `TcpClient::recv` and `m_recv_buffer` across connections | `Readable(n)`: a read finds n bytes; `StationBabbles`: bytes that are no frame |
| `FrameChannel` | what a framed connection promises | open, put, deliver, close; `TcpStream` maps to it the connections that begin with an empty buffer |
| `Control` | `runMission` and everything it calls | `main`, `sim`: where the two threads are; a step per access to what they share |
| `Comm` | the loop of `comm_main.cpp`, `UnixSocketClient`, descriptor table, epoll set | `pc` is the step A to D; `tcp`, `ipc_fd` are the clients' members, `desc`, `watched` the kernel's |
| `System` | Control, Comm and View under the Supervisor; the socket's name and the shared memory's | of each program what outlives or outlasts an instance; an instance is the number of its start, an object the number of the Control that created it |
| `JsonValue` | the values of `json.hpp` | records tagged with their type; integers are those of a constant range, or words of 64 bits |
| `JsonFloat` | Grisu2 (`dtoa_impl`) and the reading of a decimal | any precision and exponent range; the cached powers are computed from the parameters that generated them |
| `JsonString` | `scan_string` and `get_codepoint` of the lexer, `dump_escaped` and `decode` of the serializer | the two ways UTF-8 is decoded: ranges of bytes, and an automaton with its table. Recursive functions: over the positions of the text, and over the bytes of the string |
| `JsonLexer`, `JsonParser` | the rest of `lexer::scan`, `parser::sax_parse_internal` | one operator per scanning function; a token or an error with the input left |
| `JsonDump` | `serializer::dump`, `dump_integer`, `dump_float` | bytes |
| `JsonGrammar` | RFC 8259, a reference | derivations of a byte sequence, independent of the lexer |
| `Courier` | a message from the station to Control, and a report back | a step per process: read, write, execute |
| `JsonBinary` | what the five formats share: words, readers of bytes, containers | values and the rest of the input, or an error |
| `JsonCbor`, `JsonMsgPack`, `JsonBson`, `JsonUbjson` | reader and writer of each format (UBJSON and BJData are one) | one operator per function of `binary_reader` and `binary_writer` |
| `Formats` | documents written and inputs read | a document is written with options and read; pieces of input are put together and read |
| `ManagerProofs`, `TcpClientProofs`, `TcpStreamProofs`, `ControlProofs`, `CommProofs`, `SystemProofs`, `JsonStringProofs` | theorems | |
| `Induction` | what the proofs about recursive functions share | induction over a set of numbers, and that a recursive definition has a solution |
| `MC...` | values of constants for TLC | |

`TcpClient`, `TcpStream` and `Comm` show the same process from three sides:
when the link is up, what its bytes become, and which descriptors are in use.
`TcpStream` and `Comm` let the link come and go at any time, which covers what
`TcpClient` allows. `System` takes the Manager as the `Supervisor` that `Manager`
is shown to implement. Below it, `Control` and `Comm` each hold an instance of `System`
(`S`, with a mapping of their state to its variables) and are shown to take no
step that it does not allow (`StepsOfSystem`):

* `Control` is one Control and the one Comm that connects to it. Where main is and
  whether the client was lost or a signal came make the abstract place of Control;
  the peer is Comm, from its connection to its end. All of its steps are steps of `System`
  or stutters. A frame that `recvFrame` refuses is `RefusesFrame` there; `Courier` shows which
  frames of Comm these are (`RefusedForLengthOnly`).
* `Comm` is one Comm and the Controls it meets. `Link` says where its number leads:
  nowhere, to a connection that is watched or not, or to a descriptor that is
  something else by now. The loop's steps are steps of `System` or stutters, and so are
  its peer's, but for the start of a Control, which is several steps at once. Control may
  be past its accept when Comm meets it, with room in its backlog (`busy`) or with none
  (`crowded`), where `connect(2)` blocks.

These are claims about steps, each made for one instance and its peer. They begin where a
Control (or Comm) has been started, which `System` reaches by its own steps; that
instances meet nowhere but at the two names is `System`'s own abstraction.
The mapping also settled what `System` has to contain:
`Leaves` is there because a signal may cut a blocking read short, which `Control` takes
for the end of a connection whose Comm is alive, and `RefusesFrame` because a frame too
long to be taken does the same to a Control that is to go on.

Definitions called `Bad...` are mistakes
somebody could make in the definition after them; no specification uses them.
They show that the properties can fail.

## Runs

Passing:

| Run | Shows | Bounds, and why they are enough |
|---|---|---|
| `manager` | process table and vector agree, one instance, restart rate, complete shutdown, grace, implements `Supervisor` | 3 pids for 3 programs, so that a free pid is scarce and reused; window 3 s, limit 1, all sleeps 1 s and a Manager of any speed, so that every order of sleeps, ageing and deaths occurs; pids are symmetric |
| `manager_live` | the exit and every reaping are inevitable | 2 programs, one of which may crash for ever while the other is dead |
| `tcp_client` | links are observed, silence is noticed, no early timeout, exponential distance | timeout 3, interval 1, passes of up to 2 s: a heartbeat may be late and a pass may straddle the timeout; cap 3 is no power of two, so doubling passes it; connects are not immediate |
| `tcp_live` | the station is found again and again, with connects that may succeed at once | timeout 2, passes of 1 s |
| `tcp_stream` | a connection implements `FrameChannel`, and decodes any bytes as a reference definition of framing says; no command is made up after a reconnection | 2 connections with up to 3 frames, or 6 bytes of anything: two frames and more, lengths from 0 to over the limit; reads of any length. Headers of 2 bytes over 4 letters with bodies of up to 3, so that, as 1 MB does, the limit leaves the first byte of a header 0 and the others may be text. The texts are two numbers, an object and one that is no JSON; a body that follows leftover bytes may be read as a number nobody sent |
| `control` | the amount sprayed and the distance flown while spraying differ, either way, by no more than the speed was changed; no use after unmap, telemetry complete, cruising altitude, Control stops, its steps are `System`'s | 2 frames, one of which may be half there, 5 rounds (2 of climb, the switch, 2 of cruise); target 3 in steps of 2, no multiple; speeds -2, 0, 3, as `SET_SPEED` and the configuration take any double; every interleaving, signals at any time. `StepsOfSystem`: one Control and one Comm are all that this module knows |
| `comm` | no leak, what is watched has a handler, Control is found, its loss noticed, the exit happens (both unless the backlog of Control is full for good), its steps are `System`'s | 4 descriptors where 3 are needed; two lives of Control, the first of which may be met down, in its accept loop, past it, or past it with a full backlog; 2 frames pending |
| `system` | the two names lead to the Control that runs, a View follows it, no litter, a link ends with one of its two ends, when Control is told to end or with a frame that Control refuses, and a Control has one in its life; two fresh ends find each other | 3 instances of each program: one that leaves something, one that finds it, and one that finds what the two made of it; every death at every moment. `Backlog` is 0, which lets one connection wait, as 5 lets six: of three Comms the second can fill the backlog and the third finds it full |
| `courier` | what is dropped is no JSON; what is passed on is unchanged, and is accepted unless it has become longer than the limit; the speed flown is the one that was written | seven alphabets: one per part of the language, and one of numbers that grow where they are written again (`1e1` becomes `10.0`) around a limit of 48 bytes; with texts of up to 5 to 8 pieces; a float of 5 bits of precision and 4 of exponent, for which the boundaries of Grisu2 (equal and unequal neighbours, subnormal numbers, both notations) all occur, and every altitude it can hold; integers -50 to 49, or to 99 if unsigned, with literals on both sides |
| `formats` | what is written with any options is read again as the same value, in no more bytes, and BSON's sizes are right | real widths. Documents on both sides of every boundary of numbers; strings and byte arrays up to 256 bytes, arrays up to 32, objects of up to 24 members, three levels; twelve alphabets of input with 3 to 6 pieces. The boundary of lengths at 65535 and 65536 is not reached: TLC would need bytes by the million. The nearest double of a decimal text is external |

`CHECK_DEADLOCK FALSE` is set where the process ends, where a bound on frames,
bytes, rounds or instances does, or where a message has arrived.

Two runs state what the readme or a comment says and the code does not do, and
TLC refutes them; each is described under `findings` in `PROJECT.json`:

* `echo`: the IPC client keeps the number of a descriptor the loop has closed; the
  next TCP socket gets it, and the station's commands go back to the station.
* `recovery`: Control accepts one connection in its life. A Comm that the Manager
  has restarted connects into the backlog, logs its success, and no command reaches
  Control any more; `readme.md:50` promises that crashes heal.

### Other divergences

These follow from the modelled code; the models contain them, but no run is
spent on them.

* `manager_main.cpp:122`: the restart count is never reset, so a program is given up
  although its restarts were far apart.
* `manager_main.cpp:204`: the last `waitpid` loop does not wait after SIGKILL and
  leaves at the first 0, so a child that dies later is not reaped by the Manager;
  line 201 says it avoids zombies.
* `manager_main.cpp:134`: a restart whose fork failed is logged as successful.
* `tcp_client.cpp:112`: the backoff is doubled before it is first waited for, so
  the waits are 2, 4, ..., 60 s; line 111 and `readme.md:55` say 1, 2, 4, ..., 60.
* `comm_main.cpp:130`: one frame is taken per event, so of two that arrive together
  the second waits for more data.
* `comm_main.cpp:131`: only a whole frame resets the timeout; `tcp_client.cpp:198`
  says any data does.
* `comm_main.cpp:113`: after a connect that succeeds at once the branch that removes
  EPOLLOUT is not taken, and `epoll_wait` returns without waiting from then on.
* `tcp_client.cpp:183`: nor are the heartbeat timers reset then, so the timeout may
  be counted from an earlier connection. `NoPrematureTimeout` fails with
  `ConnectAtOnce = TRUE`; the run and the theorem exclude it.
* `tcp_client.cpp:187`: `heartbeat_timeout` of `config.json` is loaded and not used.
* `tcp_client.cpp:251`: the receive buffer is not cleared between connections. A frame
  of one connection may be delivered on the next; leftover bytes in front of a
  header can make a length over the limit, which is refused at every later event; and
  they can make JSON that nobody sent, since a byte of a length may be a digit
  or a quotation mark and `json::parse` takes a zero byte for the end of the input. Such
  a text is a number or a string. That it is never a command (`NoCommandInvented`) follows
  from what the station sends: objects without white space (see What is proved).
* `control_main.cpp:233`: a command whose `cmd` or `speed` has the wrong JSON type
  throws what nobody catches; the process ends with `is_spraying` as it was, which
  the comment at line 217 means to prevent.
* `control_main.cpp:254`: `STOP_SPRAY`, listed at `readme.md:63`, is an unknown command.
* `control_main.cpp:172`: `battary` is zeroed at line 111, so it never decreases
  (`readme.md:62`).
* `comm_main.cpp:47`: the IPC connection made before the loop is never added to the
  epoll set, so its telemetry is not read; `readme.md:58` says both are watched.
* `ipc.cpp:107`: `recvFrame` refuses a body of more than 1 MB, and Control takes that for
  the end of the connection. `parseFrame` allows a station the same length, but Comm writes
  the frame anew and numbers may grow: `1e14` becomes `100000000000000.0`. So a legal
  frame of some hundred KB makes Control close a Comm that lives, and it never accepts
  again. `RefusedForLengthOnly` says that there is no other cause, and `RefusesFrame` what
  follows. (The station's own frame over the limit stays at the head of
  `m_recv_buffer`, as above at `tcp_client.cpp:251`.)
* `ipc.cpp:44`: six connections wait in the backlog of a Control that accepts no more, as
  `Accepts` leaves them, if six Comms died far enough apart not to be given up. The
  next Comm's `connect(2)` (`ipc.cpp:165`) blocks on its blocking socket, before the loop or
  in it, and a signal restarts it, since the handler is installed with `signal`: as
  long as that Control lives, only SIGKILL ends that Comm. `IpcFound` and `ExitHonoured` of `Comm` speak of Controls whose
  backlog is not full for ever; `Blocked` of `System` keeps such a Comm where it is.
* `raii.h:76`: when `ftruncate` or `mmap` fails behind `shm_open`, `reset` has no address
  and does not unlink the name; `readme.md:159` promises that no path of exit leaks.
  `NoLitter` excludes it (`ending = "failed"`).
* `protocol.cpp:39`: a number that overflows a double throws `out_of_range`, which
  neither `parseFrame` nor the server's `recvFrame` catches.

In `json.hpp`, in formats this program does not use:

* BJData: `ubjson_prefix` of an unsigned number has no branch for `m`, which
  `write_number_with_ubjson_prefix` has. A typed container of unsigned numbers that
  need 32 bits says `L`, eight bytes, and holds `m`, four; it cannot be read.
  `WrittenIsRead` excludes just these values (`Misnamed`).
* CBOR: a negative integer below -2^63 wraps to a positive one.
* BSON: the reader uses neither sizes nor terminators, and a string whose terminator
  is missing is discarded rather than refused with a cause.
* UBJSON: a string of negative length is the empty string; a marker of zero is skipped
  where a size is expected; a count of all ones is taken for an unknown one.
* BJData: a matrix of one row becomes a plain array, one of char an array of strings.

## Fairness

* `Manager`: weak fairness of `main` and of the clock. Its only waits are sleeps and
  `WNOHANG` calls. Nothing is assumed of the children: they need not die of SIGTERM.
* `TcpClient`: the loop runs, time passes, a handshake ends (the kernel's own
  timeout), epoll reports what stays ready (strong fairness, because the socket's
  readiness comes and goes with reads), and socket and `epoll_ctl` do not fail for
  ever. Nothing is assumed of the station but what the property says.
* `Control`: weak fairness of both threads, and Comm, which sends header and body in
  two calls one after the other, ends a frame it has begun or goes away.
* `Comm`: weak fairness of the loop, and Control ends a frame it has begun or dies.
* `System`: Control and Comm get on with what they can do (weak fairness of each), and
  a Control that a signal has reached finishes (`Stops` in `Control`). Nothing else makes
  a program die, and the Manager need not start one. Nor need a frame be refused:
  `RefusesFrame` is no step that anybody has to take.

## What is proved

For every value of the constants, from the assumption named in each module:

* `Induction`: what the proofs about recursive functions rest on. The library's induction
  theorems take a formula as a parameter, which the provers cannot instantiate. So
  `Reaches` states induction over a set of numbers, `Backwards` the same counting down
  from what is above, and `Recursion` that a functional which looks only at smaller
  arguments has a fixed point. All are proved from the well-foundedness of the numbers.
* `ManagerProofs`: type correctness, `Tracked`, `OneInstance`, `ShutdownComplete`,
  `GraceHonoured`. None is inductive alone. The invariant adds that the programs
  yet to be started are absent from the table (`Startup`), and what the phases of the
  shutdown leave of the vector (`Shutdown`).
  * `RestartRate`: the code sees only the time of the last restart and a count; `Knows`
    says what they are worth: the last restart is as recent as any in the history, and the
    count, which is never reset, is no lower than their number.
  * `ImplementsSupervisor`: under the mapping `Life`, a fork is a Start, the death of a
    child a Die, a fork that fails or a reaping without a restart a Drop; every other step
    stutters but the signal (Ask) and the end of the monitor (Stop). The invariant is
    needed to know that the program that is started is not up already.
* `TcpClientProofs`: type correctness, `LinkObserved`, `TimelyDetection`, and
  `NoPrematureTimeout` if no connect succeeds at once; the hypothesis is needed (see
  the other divergences). The invariant relates the client's ages to the history's: the
  receive age is never below the silence, as far as the link was reset properly.
  * `AttemptsBackOff`, under the same hypothesis: `BackoffInv` says that the time the
    client remembers is not before its last call of connect(2), and that the backoff is as
    long as the failures since the last success ask for, powers of two up to the cap.
* `TcpStreamProofs`: `StreamIntact`, `ImplementsChannel` and `NoCommandInvented`, for
  every header size, alphabet, limit, vocabulary and traffic. `parseFrame`, the length of
  a header and the places where frames begin are recursive functions. `ParseLoop`
  is the rule for the loop of `parseFrame`: what holds at its head and survives the
  dropping of a frame holds of the frame it returns, or of the bytes it leaves.
  * `Intact`: the bytes unread begin where a frame begins, behind just the frames
    returned. It is preserved because the places where frames begin do not change when
    bytes follow (`StartsStay`), and lie at least a header apart (`StartsApart`).
  * `ChannelHeld`: the unread bytes are whole frames of the messages still due. So a read
    is a Deliver of the front message, or a stutter.
  * `Labelled`: every byte unread belongs to the encoding of a message that was sent, at
    a known place, or is one of the first bytes of a frame cut short. A body that
    `parseFrame` accepts follows a header that begins with 0 (`LimitAssumption`: a length
    of 1 MB needs three of its four bytes), hence begins near the beginning of a message.
    `VocabularyAssumption` then makes it that message, if it is a command: an object
    that begins with `{` and ends with its `}`, whose first inner object is four bytes
    further in at the earliest (`{"":{`). It excludes a station that sends arrays of
    commands or puts white space in front of them.
* `ControlProofs`: type correctness, `NoUseAfterUnmap`, `DriftBounded`,
  `CruiseAltitude`, `TelemetryComplete`. `Phases` says where the two threads can be
  together. `DriftBounded` fails to be inductive between the two reads of `speed`;
  `DriftPending` relates the distance of the round that is under way to the speed it will be
  sprayed at. Nothing is assumed of the sign of a speed: the history keeps the
  distance flown in the rounds that sprayed, and the bound holds in both directions.
  * `ImplementsSystem`: `Meeting` says when the memory, the socket and the client come
    into being (nobody connects before there is a socket, only who has accepted has a
    client). From it each step is the step of `System` that its lemma names, without
    exception.
* `CommProofs`: `NoLeak` and `Watched` for any set of at least three descriptors.
  `Order` says which descriptors exist at which step of the loop. That a descriptor is
  always free is a counting argument without cardinalities: two of three cannot cover
  the set.
  * `ImplementsSystem`: `Meeting` adds that a client without a number was never connected,
    that a Control whose client is this Comm is past its accept, and that an event of the
    IPC client that is still to be handled is one of its own socket, which is watched. The last is what could go wrong: a number closed earlier
    in the same batch, or one that is by now a TCP socket's, would make the loop drop a
    connection that is alive. Only `ControlStarts` is left out.
* `SystemProofs`: `NamesLeadToControl`, `ViewFollowsControl`, `NoLitter` and
  `LinkLastsAsLongAsBoth` for any number of instances. `Lives` ties each program's place
  to the Supervisor's, `Objects` says that no object is newer than the latest Control,
  `Memory` what each place of Control and View implies of the name, and `Sockets` who
  listens and who can have a client. `Connections` says that whoever waits, is a client or
  has been linked is a Comm that was started; with it, a link begins with an accept
  (`OnlyAcceptLinks`), of which a Control has one.
* `JsonStringProofs`: a string that `scan_string` accepts is one that `dump_escaped`
  writes without an exception (`WhatIsReadIsWritten`), and what `dump_escaped` writes of a
  string, `scan_string` reads as that string, whatever is around it (`WhatIsWrittenIsRead`).
  Both hold for strings of bytes of any length; the run `courier` checks them inside whole
  messages over a few alphabets.
  * `FirstByte`, `Rows` and `SecondByte` compare the ranges of the lexer with the table of
    the serializer, byte by byte: `Chars` are the code points that both take.
  * `Firm` is what the automaton's codepoint is worth in the middle of a code point: enough
    that it is never mistaken, once complete, for one that has an escape.
  * `Joined`: after a code point the automaton has forgotten what came before, so what is
    written of a string is what is written of its first code point and then of the rest.
    `Starts` says that what is written without an exception begins with a code point.
  * `CharacterReads`: a turn of the lexer reads bytes of a code point, also where it makes
    them of `\uXXXX` or a surrogate pair. `ReadsBack`: it reads back each of the four ways
    in which a code point is written.

Only model-checked: all liveness (`ExitHonoured`, `ZombiesReaped`, `Reconnects`,
`Stops`, `IpcFound`, `IpcLossNoticed`, `LinkForms`), which is out of the proof system's
reach; and the properties of `courier` and `formats`, most of whose modules are built of
RECURSIVE operators, which take the SMT backend away. The type invariants, in turn,
are only proved (`TypeCorrect`): the runs spend their time on other properties.

## Abstractions

* Times are whole seconds kept as ages up to a horizon beyond every comparison.
* A frame is a model value where its bytes do not matter (`TcpClient`, `Control`,
  `Comm`), and bytes where they do (`TcpStream`, `Courier`).
* Control's distances are in tenths. Unlocked
  reads and writes of a double are single steps, as they are on the platforms built for.
* A telemetry frame sent to a descriptor that is being closed is lost; an
  unlocked `client_fd` may be read before or after the close. `TelemetryComplete` speaks of a
  Comm whose connection is open; what the race of close and send (`control_main.cpp:201`)
  costs is that frame: Control has no further socket, and if the number is the log file's
  by then, `send` fails.
* epoll batches in `Comm` hold every watched IPC event; the TCP socket's readiness is
  the station's choice. Adding the reconnected IPC socket to epoll does not fail.
* What makes Control refuse a frame is not in `System`, which lets it happen at any
  time; what a full backlog is made of is not in `Comm`, which lets it be full from the
  start of a Control's acquaintance. View's SIGBUS
  for an object that was not sized is one of its ends.
* `Courier` lets a text have two kinds of numbers, floats and integers, both narrower
  than the machine's; the algorithms are those of `json.hpp` with its constants as
  parameters.

## Not modelled

* Configuration, logging and metrics: read or written once, and no control flow depends
  on them; the values configured are the modules' constants.
* The tests, which were read for what they expect.
* Of `json.hpp`: iterators, conversions to C++ types, comparison, pointers, patches,
  merging, the SAX interface, comments, callbacks, indentation and error handlers other
  than the strict one. The program uses none of them. Its macros for compilers have no
  behaviour.
* The failing paths of `bindAndListen` one by one: each ends Control in the same way.

## Plan

1. Done: Manager with Supervisor; TcpClient; Protocol, TcpStream, FrameChannel; Control;
   Comm; System; the JSON texts and the binary formats; proofs of all safety properties of
   the processes, of their refinements (Manager of Supervisor, TcpStream of FrameChannel,
   Control and Comm of System), and of the way of a JSON string.
2. The sending direction of the TCP stream: partial sends and the framing of what the
   station receives.
3. The heads of CBOR and MessagePack, a number and the bytes it is written in, in modules
   of their own as `JsonString` is one: that each range of the writer's ladder is read with
   the width it was written in, up to the boundaries TLC does not reach.
4. Theorems about `JsonFloat` for every width: that the shortest decimal lies between
   the two midpoints, and is read as the number it was written for.
