# A verification development for smbtatools

smbtatools is the set of client programs of SMB Traffic Analyzer. A Samba VFS module
reports every file operation to a daemon, `smbtad`, which keeps them in a database
and pushes running totals to whoever asked for them. The repository holds the
programs around that daemon. `smbtad` itself, Samba, the database server and the
users are outside it, and external in the modules.

Paths below are relative to the root of the repository (`src/monitor/...`).

## 1. The system

| part | files | state it keeps | operations |
|---|---|---|---|
| framing of the smbtad connection | `src/common/common.c` (`connect_monitor`, `common_receive_data`), `src/monitor/network.c` (`network_handle_data`) | place in the byte stream: flag, header and body positions, announced length | write a query, read a header and a body in any number of pieces |
| smbtamonitor-gen | `src/monitor` | list of monitors, socket of its one client | accept, register twice, relay news as `R:n#`, `W:n#`, clean up on a signal |
| smbtamonitor | `src/monitor-cli` | buffer, process id of its smbtamonitor-gen | spawn it, read lines, print |
| smbtamonitor-qt | `src/monitor-qt` | running flag, child process, sums of the current tick and step, the two curves | start, stop, read lines, tick, draw |
| smbtaquery | `src/query` | command list, filters of the command being run, result handles | parse commands, build SQL, print XML; upgrade a database (`convert.c`) |
| smbtatorture | `src/torture` | file names and sizes, record and replay files | make files, copy between two shares |
| smbtatorturesrv | `src/torture/srv` | connection list, list of the names in use and its end pointer | accept, hand out a free name, forget a client |
| rrddriver | `src/webmon/rrddriver` | monitor list with sums, interval | register, add up news, call rrdtool |
| websmbta | `src/websmbta` | users, saved functions, one temporary file | run smbtaquery and show what it printed |

How they interact:

* Every program that follows live traffic opens one TCP connection to smbtad. A
  frame is a header of 26 bytes with the length of the body in its digits, then the
  body. Answers to queries and news of monitors come over the same connection and
  are not told apart.
* smbtamonitor and smbtamonitor-qt start a smbtamonitor-gen of their own, find its
  unix socket by its process id, and read its lines.
* smbtatorture processes that share a test run get their file names from one
  smbtatorturesrv.
* smbtaquery reads the database smbtad writes; websmbta runs smbtaquery through a
  shell and a file.

What is hard in it:

* streams: TCP and the unix socket cut frames and lines anywhere, and end anywhere;
  the receive loops keep their place by hand;
* answers and pushed news share a connection;
* one thread serves many clients in descriptor order, with hand-made linked lists
  (smbtatorturesrv);
* the conversion of a database is 24 statements without a transaction, and it is a
  program a user interrupts;
* the Qt program runs its event loop inside a handler;
* web requests share a file and check-then-act on the user table.

For each part, what makes it correct:

* framing: frames arrive whole, in order, once; no read past a buffer or into the
  next frame; nothing waits for bytes already taken;
* smbtamonitor-gen: the id in the list is the id of that monitor; every value
  reaches the client once, in order, under the right letter;
* smbtatorturesrv: no name is given out twice while in use; every request is
  answered; clients that come and go do not end the server;
* convert: no row is lost or doubled wherever a run stops; the version tells the
  truth; an interrupted conversion can be completed;
* Qt monitor: the curves add up to the traffic that was reported; one child process
  per running monitor;
* smbtatorture: a file has the size that was drawn; a replay does what was recorded;
* Qt diagram: it is drawn from points there are, inside its frame, under an axis
  that fits it;
* smbtaquery: a function reports on what was named in its line; version numbers are
  ordered as numbers; the document it writes is closed when it ends;
* websmbta: a request shows the output of its own command; there is always a user
  who can log in.

`PROJECT.json` lists the hazards at the line where each bites, with the properties
that cover it.

## 2. The modules

| module | models | built on |
|---|---|---|
| `FrameDelivery` | what the connection promises: messages in order, once | |
| `FrameReceiver` | `connect_monitor` and `network_handle_data`, recv by recv | implements `FrameDelivery` |
| `FrameReceiver_proofs` | theorems about it | `FrameReceiver` |
| `MonitorGen` | smbtamonitor-gen from accept to relay | uses `FrameDelivery` for the connection; the whole program implements `FrameDelivery` again, from smbtad's news to the client's lines |
| `MonitorGen_proofs` | theorems about it | `MonitorGen` |
| `QtTraffic` | how smbtamonitor-qt reads those lines and adds them up to its curves | its writer is MonitorGen's client |
| `QtGraph` | the window of those curves that is shown, its zoom, scale, axis and polygon | its points are QtTraffic's |
| `QtGraph_proofs` | theorems about it | `QtGraph` |
| `QtSession`, `MCQtSession` | start, stop and options of a monitor, its child process and its socket | the child is MonitorGen |
| `QtMonitor_proofs` | theorems about both parts of the program | `QtSession`, `QtTraffic` |
| `TortureSrv` | smbtatorturesrv and the processes that ask it | |
| `TortureRun` | one recorded run of smbtatorture and its replay | asks TortureSrv for its names |
| `MCTorture` | both, for one run | `TortureSrv`, `TortureRun` |
| `Torture_proofs` | theorems about server and run | `TortureSrv`, `TortureRun` |
| `WebFunctions` | the server processes of websmbta and their temporary file | |
| `WebPanels` | the panels of its overview page, the table behind them and the requests between them | its requests are WebFunctions' |
| `MCWeb` | both, for one run | `WebPanels` |
| `WebUsers`, `MCWebUsers` | its accounts and sessions | |
| `Web_proofs` | theorems about the three | `WebUsers`, `WebPanels` |
| `Interpreter`, `MCInterpreter` | smbtaquery's commands, its command file and its document | |
| `Interpreter_proofs` | theorems about it | `Interpreter` |
| `ConvertDatabase` | the upgrade of a database | |
| `ConvertDatabase_proofs` | theorems about it | `ConvertDatabase` |

A definition named "Mutant" in its comment is a plausible bug. It is part of no
specification; put in the place of the definition after it, it makes a property
fail, which shows that the property can tell the difference.

`TypeOK` of a module (`FunctionsTypeOK`, `PanelsTypeOK`, `RunTypeOK`) says what its
variables range over. Where there are proofs it is a theorem of theirs (`TypeCorrect`,
`FunctionsTypes`, `PanelsTypes`, `RunTypes`); no run checks it, the properties the runs
check being about more than types.

### FrameReceiver

`state` is `enum network_send_flags`; `header_position`, `body_position` and
`data_length` are the locals of the two loops; `rpos` and `avail` are offsets into
the stream of bytes, `frames` says where each frame of it starts and how long its
body is. Bytes have no values: `BlockLength` gives the announced length when the 26
bytes just read are a header, and any length when they are not, so a receiver that
is out of step is seen to be. `Recv` returns every amount recv may return. The error
return is added to the count, as the code does (`Rlen`), because it is kept in an
unsigned variable that is only compared with 0; and it is the index of the 0 that is
written behind what was read. `wrote` is what the last call wrote and how large its
buffer is (`Written`).

The actions are the branches of the loop (`BeginHeader`, `ContinueHeader`,
`BeginBody`, `ContinueBody`), the query (`SendQuery`), and `Spin` for the two flags
no branch handles, where select returns at once for ever. The first `Requests`
frames are read by `connect_monitor`, the others by `network_handle_data`.

Runs. `frames`: header of 3 bytes, bodies of 0, 1 and 2 bytes, two queries and three
frames. Three bytes allow a header in one, two and three pieces and every off-by-one
in the resume offset; two bytes do the same for a body; three frames are a frame
before, the frame itself and a frame after. After a reset the "length of the received
data block" is one less than it is, and the 0 goes to the place before the one that was
to be read to (`common.c:273`): into what was read already or, when nothing of the block
has come, in front of the buffer. This is the one exception `BuffersFit` names. Nothing
can be read any more, so that the other properties hold all the same.

Fairness: weak, on the receiver only. Its thread does nothing else than this loop.
smbtad owes nothing.

### MonitorGen

A frame is one message here, because `FrameReceiver` implements `FrameDelivery`. `pc` is
the place in `configuration_parse_cmdline` (accept, register, answer) or the relaying
thread; `monlist` is the list from `monlist_start`; `monitors` is what smbtad has under
each id. `ChangeResults` is `monitor_list_change_results` with its two NULL dereferences
as `crashed` and the SIGPIPE of a client that left as `killed`. `SendClient` does not
return while the client's socket is full: it holds `SocketRoom` lines, and the client
reads when it likes (`ClientRead`). When smbtad is lost or sends an empty frame
(`SmbtadLost`), the loops over the connection turn for ever (`Spin`). The history `news`
keeps, for each value that is not 0, the line it should become.

`PushEarly` says whether smbtad may push news of the first monitor before the second
one is registered. Nothing in this repository forbids it. `monitor` is the run
without: the list is right, no news crashes the program, end to end the program
is a `FrameDelivery` from smbtad's monitors to the client (`RelaySpec`), and every value
is sent to a client that keeps making room in its socket (`EveryNewsRelayed`). One that
stays connected and stops reading blocks the relay for good, and a lost connection leaves
it spinning: both are the property's stated conditions, not something the model rules out.
`monitor_early` is the run with early news: they are taken for the answer, the WRITE
item gets the id of the READ monitor, and the answer itself, when it comes as news,
ends the program. `CrashesOnlyOnLateAnswer` says that nothing else does; it is proved
for early news too.

Bounds: two ids (the program registers two monitors), values 0, 1 and 2 (0 is
treated apart; two others make order visible), five messages: two answers and three
news, room for one line, so that the second one can block. Fairness: the program's
threads, and smbtad answering queries while it is there. Nobody has to connect, read,
leave, push or send a signal.

### QtTraffic

`readfromsocket` and `sendtopoints` are handlers of one event loop and are
`ReadFromSocket` and `SendToPoints`, the latter with all of `dp_receivenumbers`. A
sum (`stack` for `l_readstack` and `l_writestack`, `sum` for `l_read_end` and
`l_write_end`, `curve` for the two lists) says of every line how often it went into it,
so that a line can be followed to its point; the numbers are left out (so
is that `output.chop(1)` cuts off their last digit, the hash having gone already).
A read returns whatever has arrived: whole lines and perhaps the beginning of one
more; `cut` remembers that a beginning was read and dropped.

The run `qt_traffic`: steps of three ticks (a first, a middle and a last one; five in
the code), curves of two points, four lines: enough for a line to reach its point,
be pushed back and leave, while others are in each stage before it. What the comments
say and the code does not do is in the model: a line cut by the socket is lost
(`LeavesAsOldest` says that no other is), and the tick that fills a step counts
twice (`Filled`).

Fairness: the timer ticks; `QtSession` says when it does not. Nobody has to write or
to read.

### TortureSrv

`conns` is the connection list and `fnamelist` what can be reached from
`fnamelist_begin`, both as sets: of the order of their entries only the last place
matters. `fnamelist_end` is the connection whose entry the end pointer points to, or
`NoEntry`: that entry was freed, or `Detached`: the entry is new and hangs on a freed
one. `Select` takes a snapshot of the readable descriptors; `Serve` walks through it in
order, so that a client may ask or leave while the round is served. A recv that fails is
a "wrong format" and ends the server. `accepted` stands for descriptors too: none is
ever closed. A request opens the two lists of names and needs two descriptors for it.

The run `torture` (of the server; of the other program see TortureRun): three clients,
two names, three names in use at a time: every order
of requests, answers and ends among them; three clients are a first, a middle and a
last entry of the list. The process may have two descriptors or five: with five the
limit is out of the way, with two the first request meets it and the third accept
does. Once the client with the last entry of the list leaves before others,
`fnamelist_end` points to freed memory and the next name is lost from the list: it can
then be given out twice, against the comment of `check_if_filename_exists`
(`smbtatorturesrv.c:166`). `SharedOnlyAfterAnEnd` says how far that goes: two connected
clients have one name only after a third has gone, and while none has, the list holds all
that was given and its end pointer points into it, in whatever order requests, accepts
and ends are served.

Fairness: weak, on the server's one thread.

### ConvertDatabase

Every statement of `_1_2_4_to_1_2_5` and `_1_2_5_to_1_2_6` is an action; the 16 that
copy and drop the eight tables are `Copy` and `Drop` at place `k` of `Order`.
`Accepted` says which statements the database accepts: a table must not be there to
be created, and be there to be altered, copied or dropped. `Refused` is
`convert_check_dbi_res`, which exits. `Interrupt` ends a run between two statements.
A run starts with choice 2 (from 1.2.4) or 3 (from 1.2.5).

The run `convert`: one row per table or none, two interruptions: a run that is
stopped, repeated, stopped again and repeated. A run stopped after
`CREATE TABLE data` can never be completed, because that statement is refused ever
after: `HalfConvertedStays`. (Not a matter of steps, and only noted here: the byte
counts of reads and writes land in the column `result`, while totals are
`sum(length)`, `convert.c:321` and `interpreter.c:550`.)

No fairness: what a run does next is never in doubt, and nothing has to happen.

### QtGraph

`wheelEvent` is `ZoomIn` and `ZoomOut`, `sendtopoints`' call of `g_receivelist` is
`ReceiveList`, with all of `g_interpolate` and `g_create_path`. `i_dp_number` is the
size of the window (`i_dp_start` stays 0, so it is `i_dp_end` too), `drawn` the size
the polygon was computed for, `over` the points of it above the frame, `scale` the top
of the frame and `labels` the number written there, both in tenths of a byte. A read
behind the end of the list gives any number (`Reads`) or ends the program
(`ReadNothing`).

The run `qt_graph` takes the offsets and limits of the code but for `i_dp_max`, which
is the length of the curve as in the code, 20 instead of 86400: the window takes the
sizes 8, 12, 16 and 20, two different offsets, the last one point behind the end. Two
points that are not 0, each below the limit of the scale, between those of scale and
labels, or above both, are one that rules the scale and one that leaves the window.
With 86400 points the zoom ends between 86400 and 88799. What the properties allow is
what the code does: the point at `i_dp_end` is not looked at for the scale (line 221)
and is drawn (line 297), so that a peak that leaves the window is drawn over the top
of the frame; and the axis keeps the labels of a stronger curve, so that a weak one is
drawn large under them (`CurveFits` says that they are never below it).

No fairness: a tick makes everything again, so that nothing is left to happen later.

### QtSession

`asked` and `configString` are the form as `cf_readconfig` read it last and the string
it appends to; `frames` is the stack of calls of `startmonitor`, because it runs the
event loop for two seconds and any handler, itself among them, is served inside it;
`child`, `sigterm`, `options` and `files` are the one `QProcess` with its socket
files, `sock` the child the local socket is connected to. `Start`, `Deadline`,
`DismissBox`, `Stop`, `Quit`, `Reap` (the event loop notices the end of the child) and
`Disconnected` are handlers; `ChildBinds`, `ChildListens` and `ChildEnds` what the
child does.

A form is what is filled in: an object, the host, the port and the box of `identify`.
`WithForm` appends the options of the form to the string or, for all objects and for a
dry run, replaces it; `Entry` is the value an option has in the end, the last one given.

The run `qt_session`: three clicks on the start button (a call, one inside it, and one
inside or after), three openings of the page, five forms (`MCQtSession`): an object with
host and port, another with `identify` and nothing else, all objects, a domain, and the
dry run. The properties name the exceptions the code has: a stop inside a start leaves a
monitor without its timer (`RunningIsTimed`); a start whose socket file was not found
leaves timer and child behind (`StoppedIsStill`); a start before the end of the last child
was noticed joins that child, which is ending (`RunningIsNotEnding`); and what a form
leaves blank sticks from the forms before it, host, port, `-I 1`, as does a dry run, until
all objects are asked for (`MonitorsWhatWasAsked`).

Fairness: time passes and the event loop is served, message boxes are read, and a
process that was sent SIGTERM ends. Nobody has to click.

### TortureRun

`left` is `config.size`, from which `generate_files` takes what it draws; `sizes` and
`names` are its lists of sizes and names, `shares` the size of every file on both
shares, `tape` the record file as a sequence of labels and values, `pos` the place the
replay reads next. An interrupted recording leaves any beginning of
its items (`Rerun`), because the file is written through a buffer. The data of the
second file are written to the descriptor of the first, which libsmbclient has given
out again. Either share may refuse to let a file be opened, when it is made (`MakeFile`)
and when it is copied from or to (`Copy`): on the first share that is only reported and
the data of the file go nowhere, on the second, and in a copy, the program exits
(`pc = "failed"`). `refused` remembers what was not written for that when it was made.

The run `torture` (of this program): two files, two copies, two names that may be the
same, sizes that are a multiple of the block of 2 bytes or not. It is seen that a file
whose size is a multiple of the block is a block short, on both shares, that a file
lacks its size otherwise only where it was refused when it was made, and that what a
replay does is what the record file holds, as far as it goes, and all of it if the
number of copies got there. The totals are a byte per file, where the first draw divides
by zero, and twice that.

No fairness: the program is one loop that is counted down. One run checks the two
programs of `src/torture`, which share no state: `MCTorture` is their sum, a behaviour
being one of the server or one of a recording and its replay.

### WebFunctions

A request (`call`) is a place in the handler: its commands one by one (`todo`, of which
`ran` are done), each of them creating `function.html`, writing it in two parts
(`CreateFile`, `WriteFirst`, `WriteSecond`), and the process opening, reading and
deleting it (`Open`, `Read`, `DeleteFile`). `path` is the inode under the name, `body` what
each inode holds. That requests overlap is justified by `websmbta.vhost.conf`: the
application runs under Passenger, which keeps several processes. Which requests come is
left open here: `Start`, `LoadPage` (with any rows), `RefreshFunction`, `PrintView` and
`SaveFunction`.

### WebPanels

What the browser sees of these requests, and the table `Temp`. The script of the page
waits for none of them: a start is saved by the server process (`SaveRow`) some time after
it was asked for, a load reads the rows (`ReadRows`) before or after a removal, and the
answer (`Answer`) comes to whatever the page shows by then, to another page not at all, or
never (`Fail`). `asked` is the request a process serves and who waits for its answer,
`deletes` the requests for `delete_function` under way: `Close` takes the panels away when
it sends one, and a browser that goes to another page may not have sent it (`LoseDelete`).
A panel is known by what its name is the MD5 of: the command, of a panel `temp_functions`
made, or the parameters, of one `start_function` made; rows of one command have one name.
A browser logs out, is closed (`Leave`) or logs in again, as the same user or another,
at any time. `served`, `closed`, `abandoned` and `late` are histories: ids whose removal
was answered, rows closed in a browser, users left without a log-out, and rows saved when
nobody was logged in as their user.

The run `web_functions` is of `MCWeb`, the sum of the two modules: what is in the file
decides neither what a browser asks nor whether it is answered, so that a behaviour is one
of the processes or one of the panels. Two processes, two browsers, two users, a command
that is saved and one that is not, and two rows, which may be of one command and of one
user: the smallest in which two requests meet, for one user or for two, and two panels
have one name. Bound: the second row is saved while one browser only is in use
(`Bounded`); two browsers and one row, and one browser and two rows, are both complete.
The properties say what the code does not prevent. A request that meets another may show
its output, and nothing of that outlives the requests that met (`AloneIsOwn`,
`NothingIsLeft`). A closed panel comes back when the page is loaded before the removal
was answered (`ClosedStaysClosed`), and only then; the other panels of its name disappear
with it and do come back. Rows outlive the log-out when a start was under way, and their
user when the browser was closed or logged in again (`LogOutForgets`). `delete_function`
does not look whose row it removes, and need not for what pages send (`ClosesOwn`).

No fairness: requests may fail and browsers may be closed, so that nothing has to come.

### WebUsers

Every database statement of `users_controller.rb` is a step: `CreateCount` and
`CreateSave`, `UpdateSave`, `DeleteCount` and `Destroy`. `session` is the cookie.

The run `web_users`: two browsers and three accounts ever: enough for two
administrators to remove each other, for one to be removed while its browser is open,
and for two to sign up at once. The table can be emptied, by one whose own account is
gone and whose count is stale; `LastGoesByAStranger` says that both are needed.

### Interpreter

A command is a name and its parameters, and is known by its place in the line; the
conditions of a query (`obj.sql`) are the sets of places `named` and `during` they come
from, so that what a function reports on can be compared with what was said before it
in the line. `slots` is `command_data.arguments`, in which a parameter that was not
given is an uninitialised pointer: `crashed` and going on are both possible. `open` is
the stack of the tags of the document. A function that may end in several ways is a set
of outcomes (`Outcomes`). `ReadLine`, `ReadNothing` and `CloseFile` are the loop over
the file of `-f`, `StartQuery` the line of `-q`.

The run `interpreter`: up to three commands of 32 in a line (an object, one that resets
or another, and a function), two lines in the file. `SelfCheckTells` compares the
comparison of versions with the order of numbers where it is right: parts of one digit,
and none that is larger after one that is smaller. Of the others nothing is claimed.

The run `interpreter_file` expects a violation. "The commands specified in the file will
be run in order given in the file" (`doc/smbta-guide.html:1282`), but the loop takes the
last character off every line: of a last line without an end of line it takes the
semicolon (`CommandsAreRun`), and the program ends with an error instead of running it.
With an end of line there the loop runs once more on what is left of the line, with the
same end, after the commands but before their results are shown. The theorem
`LastLineStops` says how far that goes.

No fairness and no liveness: a command is an action.

## 3. What is proved

TLAPS proves, for every value of the constants:

`FrameReceiver_proofs` (header length, set of body lengths, number of queries and
frames arbitrary; the assumption is `FrameAssumption`, that they are numbers and the
header is not empty):

* `TypeCorrect`, `Fit`, `LostAtTheEnd`; and two invariants that no run checks because
  `DeliverySpec` is stronger, `InOrder` and `Frugal` (no byte of the next frame is taken);
* `Implements`: `Spec => DeliverySpec`.

The invariants are not inductive. `IInv` adds `Layout` (the frames tile the stream
without a gap, nothing beyond them is readable) and `Progress` (in every state the
byte counts say how far into the current frame the receiver has read, unless the
stream is over). `Over` is needed because after a reset the counts are off by one,
but nothing can be read any more; and for `Fit` the last write lies in its buffer unless
the stream is over. There is one lemma per action; the branches of
header and body share `HeaderReadKeepsIInv` and `BodyReadKeepsIInv`. `Implements`
needs the invariant for one fact: a body that completes is the next frame.

`MonitorGen_proofs` (ids, values and number of messages arbitrary; `MonitorAssumption`):

* if smbtad does not push early (a hypothesis of the theorem): `ListIsRight`;
  `RelayImplements`: the program implements `RelaySpec`, end to end;
* whenever it pushes: `TypeCorrect`; `NewsAreSafe` (`CrashesOnlyOnLateAnswer`), without the
  hypothesis; `FirstItemIsRight`, the first item of the list has its
  own id; `OnlyNewsAreRelayed`, what the client is sent are lines of smbtad's news, under
  the right letter, none twice and none out of order. Of the promises of `RelaySpec` early
  news can only break that none is skipped.

`RegistrationMatches` says nothing of messages, so it is not inductive: `PhaseInv`
says for each place of the program what is on its way (nothing, the query, or the
answer followed by news) and which functions smbtad has registered. No news can come
before the second registration is answered because its function is `Free` until
then; this is where the hypothesis is used. `UniqueInv`, that smbtad has no function
twice, is what makes an id of the news be in the list.

The refinement needs two more. `NewsInv` ties each line of the history to the message
it came with. `ClientInv` says that while the program runs the client has had exactly
the lines of the messages the program has taken, and once it has ended a beginning of
all of them; so the line sent next is the first one missing.

Without the hypothesis `PhaseInv` and `ClientInv` are false, and `EarlyInv` takes their
place. `EarlyPlace` says which functions can be registered at each place: none before the
first query, so whatever is taken for its answer has the id of the READ monitor.
`KnownInv` says that the second item then carries the id of one of the two monitors. If
it is the wrong one, both items carry the same id, and the look-up finds the first
(`EarlyLetter`): a value is shown under its own letter or the program ends. `NewsInv` is
the same as before; `RelayedInv` maps the lines sent, in order, to the history.
`NewsAreSafe` needs `LateInv` besides: an id smbtad gave out comes in as an answer before
any news of it do (`AnswerInv`), so that what was taken for the two answers holds the ids
of all news, unless the second of them was news itself.

`Torture_proofs`, of `TortureSrv` (names, limit of descriptors, number of clients and of
names in use arbitrary; `TortureAssumption`):

* `TypeCorrect`, `NamesAreOfTheClients`, `EndsForAReason`,
  `NamesAreSharedLate` (`SharedOnlyAfterAnEnd`).

A request adds an entry for the descriptor it is served on, but the set of the round
was made before others of the round were served: `RoundInv` says that what is left of
a round is connected still, and that accept is only called for a client that is there.
`NamesAreSharedLate` needs, besides, that names are granted to connected clients only
(`GrantsInv`): then a name given twice was not in the list, and by `SharedInv` the list is
complete while nobody has gone.

`Torture_proofs`, of `TortureRun` (totals, number of files and of copies, file names,
seconds to wait and the block arbitrary; `RunAssumption`, that a total is a byte per
file at least):

* `RunTypes`, `ReplaysFollow` (`TapeIsFollowed`), `FilesKeepTheirSize`
  (`FilesHaveTheirSize`), `SizesStayWithin` (`SizesFit`).

`PlayInv` carries them. `Past` counts the items a run has come past at each place of the
program. `PosInv`: the file of a recording is exactly that long, and a replay stands
right behind them, or at the end of what an interruption left. `TapeInv`: which label is
where in the file, and that its value is of the type that is drawn in its place. From
these `FoundIs` concludes that a replay looks for an item exactly where it is, so that
it never takes one label for another and never skips. The endless copying of a replay
that found no number of copies goes on behind the end of such a file, which is why it
needs no case of its own. `FilesKeepTheirSize` needs that sizes are fixed before the
first name is, and `BothInv`: while the program goes on, what one share refused both
lack. `SizesStayWithin` needs `SumInv`: what was drawn adds up to what was taken off,
more is left than files are still to be drawn, and the sizes in the file fit too once
all of them are in it.

`ConvertDatabase_proofs` (rows and interruptions arbitrary):

* `TypeCorrect`, `RowsAreKept`, `RowsAreNotDoubled`, `VersionIsTrue`, `HalfConvertedIsForEver`.

`RowsAreKept` is not inductive because `Drop` is only right when the rows of its
table were copied by the statement before; `RowsAreNotDoubled` because `Copy` is
only right when no earlier run copied the same rows. `PlaceInv` says both: at place
`k` of a run everything from `k` on is untouched by all runs, since a run gets to
its first INSERT only if it made the table `data` itself (`FreshInv`).
`HalfConvertedIsForEver` is the one theorem about the future: `Stuck`, once true, stays.

`QtGraph_proofs` (length of the curve, limits of the window, and traffic arbitrary;
`GraphAssumption`, that a window of `i_dp_min` is larger than the smallest offset and
`i_dp_max` no larger than the curve):

* `WindowStaysOpen` (`WindowIsNeverEmpty`), `PointsInsideTheFrame` (`CurveFits`).

The window is inductive by itself, once `OffsetIsSmall` is known. `CurveFits` needs
that a scale that was kept is never below a point of 1, and the axis that labels are
never made for less than 1024 bytes (`FrameInv`).

`QtMonitor_proofs`, of `QtSession` (names, clicks and forms arbitrary; `SessionAssumption`):

* `TypeCorrect`, `TimerRuns`, `StopIsComplete`, `RunningHasItsChild`
  (`RunningIsNotEnding`), `AsksRight`.

`TimedInv` says what the timer and `running` are while calls of `startmonitor` are on
the stack, `BoxInv` that only the innermost call shows a box, and then only after a
look in vain. `AsksRight` is about the string of options, which only grows: `Made` says
that its last options are of the form that was read last and that a form that replaces the
string (`-g`, `-x`) can only be its first; what an option is in the end follows from the
last form that has it.

`QtMonitor_proofs`, of `QtTraffic` (ticks per point, points of a curve and number of lines
arbitrary; `TrafficAssumption`):

* `PointsAreInOrder` (`PointsInOrder`), `NothingLeavesEarly` (`LeavesAsOldest`, of every step).

`PointsInOrder` is inductive together with the types: it relates stack, sum and curve in
the order in which lines pass them, and lines are read in the order they were written.
The lemmas are about which lines are in a sum of two (`LinesOf` of `Plus`).

`Web_proofs`, of `WebUsers` (browsers and accounts arbitrary):

* `TypeCorrect`, `LastStays`, `AdminStays`, `FirstBecomesAdmin`; and `CookieIsOfOne`, an
  action property no run checks: the cookie of an account that was removed never comes
  to name another one.

`RemovalInv` keeps what `delete` has tested until its statement is reached (not the
browser's own account; a count above one), `SignUpInv` that one who is not to be an
administrator has counted somebody, `CookieInv` that the ids in cookies and requests
have been given out, so that none comes back.

`Web_proofs`, of `WebFunctions` (processes, commands and rows arbitrary;
`FunctionsAssumption`):

* `FunctionsTypes`; `AloneShowsItsOwn` (`AloneIsOwn`), `NothingStays` (`NothingIsLeft`).

`CallIInv` says, with the types, what a process needs where it is: a command that is left
to run, an inode to write or read. `AloneInv`: as long as no other request came between,
the inode of the request is the one under the name and holds the part of its own
command that was written; and a process finds no file only if another one deleted it.
`LeftInv`: as long as only `save_function` is under way what lies about is its system
function, as far as it was written.

`Web_proofs`, of `WebPanels` (browsers, accounts, processes, commands and rows arbitrary;
the run's bound is not in it; `PanelsAssumption`):

* `PanelsTypes`; `ClosedIsClosed` (`ClosedStaysClosed`), `OnlyOwnRowsAreClosed`
  (`ClosesOwn`), `RowsAreForgotten` (`LogOutForgets`).

`PanelsIInv` follows an id on all its ways: `RowInv` in the table, the histories and the
removals under way, `PageInv` on the pages, `AskInv` in the answers that are still to come:
what is shown, or will be, is of the user's own rows and was not closed in that browser. A
removal that was answered leaves no row of its id (`served` and `rows` have none in
common), which is what a later load cannot bring back. `LoadInv`: a page waits for one load at
most, so that no second answer brings what was closed since the first.
`RowsAreForgotten` is inductive by itself.

`Interpreter_proofs` (commands, length of lines and of the file, and versions
arbitrary):

* `DocumentIsWhole`: `OutcomesAreSound` looks at every function once (one that returns
  has closed the tag it began, one that ends the program has not), and `XmlInv` says
  that between commands only the root is open.
* `LastLineStops`: `FileInv` says what is left in the buffer at each place once the end
  of the file was met.
* `SelfCheckIsRight`: all that was told are comparisons of versions (`ToldInv`), and
  `ComparedRight` is about any two of them.
* `ResultsAreInScope` (`ResultIsInScope`): `ScopeInv` says what the object holds while a
  line is interpreted: the places (`Scope`, `Span`) that were named, or gave times, since
  the last "global" or "system", and the last of each as title and range. `SaidScope`
  is how a command changes those places; every command does to the object what it does
  to them (`ObjectIsSaid`).

Only model-checked: the five liveness properties (`EveryFrameDelivered`,
`EveryNewsRelayed`, `EventuallyDrawn`, `StopEndsTheChild`, `EveryRequestAnswered`), which
need fairness and ENABLED, and the two runs that expect a violation, `monitor_early` and
`interpreter_file`.
Every invariant and every action property of the other runs is a theorem.

## 4. What is left out, and why

Not modelled at all:

* smbtamonitor (`src/monitor-cli`): one loop around recv and printf. It prints the
  first of the lines that arrive together, the rest of an earlier one after a short
  read, and the last one for ever once the stream has ended; there is no more state
  than its buffer.
* Encryption: the code decrypts a whole body after it was received; Rijndael is
  third-party.
* Options and configuration files, usage texts, XML and HTML wording, cairo and Qt
  drawing, the look-up that identifies an object.
* rrddriver: its registration reads a text frame as a database result through a
  handle that was never initialised. Its receive loop is a copy of the modelled one.
* vendored code: iniparser, Rijndael, jquery, sqlite. The amalgamation of sqlite and
  its shell are 132000 of the 146000 lines of C under `src/`; the programs of the
  repository itself are about 9000.

Left out of the modelled parts:

* ConvertDatabase: the import of an sqlite database (choice 1), which passes a NULL
  pointer to `sqlite3_prepare` and dereferences it before the first row.
* QtGraph: the sums per minute, everything painted besides curve and labels, rounding.
* QtSession: the line of the object is taken to be filled in; labels; what a child that
  the quit button leaves does afterwards.
* TortureRun: totals smaller than the number of files; a number of the record file cut
  in two by an interruption; a replay with another `-n`; the descriptors it leaks.
* WebFunctions: the text of a command; the files of list and search, which have names
  of their own.
* WebPanels: two pages of one session; the panels of system functions, which have no row;
  functions that differ only in their times, whose panels have one name when started.
* WebUsers: names and passwords; a save is one transaction; ids are never used again
  (AUTOINCREMENT).
* Interpreter: SQL text, rows and their layout; xsltproc; an empty command file, a line
  longer than its buffer, text after the semicolon, names with commas or quotes; that
  "global" and "system" are known by their beginnings.

## 5. Plan

Done: all parts above that have a module, in the order of the table; the proofs of
section 3.

Left, in this order:

1. smbtamonitor, as a reader of MonitorGen's lines besides QtTraffic.
2. The identification of objects (`common_identify`) and the rows of a query, so that
   the lists of smbtaquery can be compared with the database.
