# c11httpd in TLA+

c11httpd is a single-threaded, edge-triggered epoll server library with a pool of
forked worker processes, asynchronous file I/O (POSIX AIO reported by real-time
signals) and a small HTTP layer. This directory models its control logic, checks it
with TLC and proves with TLAPS the invariants of the event loop, of a connection, of the
intrusive lists, of `bind()`, of the worker pool and of HTTP requests and responses.

## 1. Inventory

| part (source) | state it keeps | operations | talks to |
|---|---|---|---|
| event loop (`acceptor.cpp`) | the epoll batch, `aio_conns`, three connection lists and their counters | `run_tcp`, `gc_conn_i`, `add_free_conn_i`, `on_signalled_i`, `loop_send_i` | kernel (epoll, signalfd), handler callbacks, connections, worker pool |
| connection (`conn.cpp`, `conn.h`) | socket, both buffers, send offset, last handler answer, AIO tasks, wait state | `recv`, `send`, `close`, `aio_read`, `aio_write`, `on_aio_completed_i`, `popup_aio_completed` | kernel (the node's address is in the completion signal), the loop's lists |
| worker pool (`worker_pool.cpp`) | set of children, main/worker role | `create`, `on_terminated`, `kill_all` | kernel (fork, SIGCHLD, SIGTERM), event loop |
| intrusive list (`link.h`) | two pointers per node | push, pop, unlink, `for_each`, `clear` | every list above |
| byte buffer (`buf.cpp`) | memory, size, capacity | `back`, `add_size`, `push_back`, `erase_front` | connections, parser, response |
| request parser (`http_request.cpp`) | step, bytes parsed, strings that point into `recv_buf` | `continue_to_parse`, `clear` | `recv_buf`, which may move |
| HTTP processor (`http_processor.cpp`, `http_conn.cpp`) | a request and a response per connection object, cleared when it is pooled | `on_received`, `process_i` | event loop, controllers |
| response (`http_response.cpp`) | positions in `send_buf` of what is patched later | `code`, `<<`, `write`, `attach`, `detach` | `send_buf`, routines |
| listening sockets (`acceptor.cpp` 40-165, `listen.cpp`, `socket.cpp`) | `m_listens` and the descriptors behind it | `bind`, `binds`, `close` | kernel |
| string view (`fast_str.cpp`) | a pointer and a length into somebody else's text | `split`, `trim`, `find_first_of`, `substr`, `getline` | parser, demo programs |
| demo programs (`testtcp/main.cpp`, `testhttp/main.cpp`) | a context per connection | `main`, three handlers, routines | everything above |
| tables of names, system call wrappers, configuration, adapter, controllers' registration | constants or nothing | look up, forwarding | |

What is hard: callbacks that decide the fate of the object they are called on;
events of one batch that refer to objects an earlier event gave up; completion
signals that arrive after their connection has gone; edges that must not be lost;
objects that are used again; a forked child that goes on in its parent's loop;
requests cut anywhere while the buffer below them moves; fields patched in place.
`PROJECT.json` lists these hazards line by line, each with the properties that
watch it or the reason why none does.

## 2. Modules

The groups below abstract each other's detail: `Acceptor` takes a `recv()` or
`send()` loop as one step, `ConnIO` opens it up for one connection; `Acceptor` and
`WorkerPool` share the reading of the signalfd, each with its own signals;
`HttpProcessor` sees the event loop as "new data calls `on_received()` while nothing
is to be sent", which is how `ConnIO` reads. What extends what:

    AcceptorProofs    -> Acceptor, which implements ConnLife
    ServiceProofs     -> Service -> WorkerPool, and Binding, which implements Listeners
    WorkerPoolProofs  -> WorkerPool
    BindingProofs     -> Binding
    TestTcpProofs     -> TestTcp -> ConnIO
    ConnIOProofs      -> ConnIO
    LinkListProofs    -> LinkList
    HttpProofs        -> HttpService -> HttpProcessor -> HttpRequest; instances of HttpResponse, HttpLine

`ServiceProofs` also builds on `WorkerPoolProofs` and `BindingProofs`, and `TestTcpProofs`
on `ConnIOProofs`.

A composition runs its parts' actions: `Service` those of `Binding` and `WorkerPool`,
`HttpService` those of `HttpProcessor`, `HttpResponse` and `HttpLine`, `TestTcp` those of
`ConnIO` with the demo handlers' callbacks beside an arbitrary handler's.

### ConnLife, Acceptor, AcceptorProofs

`ConnLife` is the abstract promise: an object is absent, open, draining or pooled;
one that the kernel still holds tasks for is never pooled, deleted or given to
another client; the pool never outgrows `max_free_connection`. It is not a copy of the
loop: it knows nothing of events, lists or handlers.

`Acceptor` is `run_tcp()`. `pc` says which loop the process is in: `"loop"` (over the
epoll batch), `"aio"` (over `aio_conns`, lines 245-274), `"accept"` (278-352),
`"clean"` (423-448). A conn event carries the mask that epoll returned. `conn[c]` is
the object at address `c`: list, `m_link.linked()`, pending data, last answer, epoll
interest, running and completed tasks, wait state, and a history variable
`session` for the alternation of callbacks. `flight` and `sig` are the kernel's: tasks
in progress, and completion signals in the queue. Each action is one event or one turn
of an inner loop with everything it calls, `gc_conn_i()` included. Between any two, a
client may connect, a task complete, SIGTERM arrive. Action and code:

| action | code |
|---|---|
| `EpollWait`, `EpollFails` | 221-232 |
| `SignalEvent`, `AioStep`, `AioDone` | 237-274, `on_signalled_i`, `on_aio_completed_i`, `popup_aio_completed` |
| `ListenEvent`, `AcceptConn`, `AcceptDropped`, `AcceptAgain`, `AcceptFails` | 275-352 |
| `ConnIn`, `ConnOut` | 353-413, `loop_send_i` |
| `Clean` | 423-448 |

The handler is a set of answers per callback (`ResConnected`, `ResReceived`, `ResMore`,
`ResAio`), free to append data and to start tasks. Assumed of it, because the code
asserts or the documentation asks it: `get_more_data()` that appends nothing does not
answer `result_more_data` (asserted at line 536), and `on_disconnected()` starts no
task. Assumed of the kernel: EPOLL_CTL_MOD on a registered socket does not fail, and an
address with outstanding tasks is not allocated again (only relevant to
`acceptor_early_aio`, where it keeps a dangling task from being taken for a new one).
Readiness is any subset of the registered connections: more than the kernel does.
`MaxAio` and `MaxBacklog` bound the environment, and a client only connects while an
address is left for its object. Neither bounds how many clients come in all: an object
that is given up while its client is accepted is free for the next.

### ConnIO, TestTcp, ConnIOProofs, TestTcpProofs

`ConnIO` is one connection, system call by system call. A byte is its number in its
stream, so "nothing lost, doubled or reordered" is an equation between sequences. The
kernel's queues, its full flag, FIN, reset and the edge are variables; the peer sends,
reads, closes or resets between any two calls. `recv()` returns any prefix, `send()`
takes any prefix that fits, the handler removes any prefix and appends. Bounds: `MaxIn`,
`MaxOut` bytes, `Room` in the send queue, `Unit` for the 1024 of `conn_t::recv()`.

`TestTcp` puts the three handlers of the demo program in the handler's place: `echo`
(a lambda behind the adapter) appends a prefix and what it received; `repeat` takes a
count from what it received and produces its lines one `get_more_data()` at a time,
asking for more with `result_more_data`; `file` opens what a line names and reads it by
`aio_read()` into `send_buf`. "any" keeps the arbitrary handler, so that the properties
of the streams are checked for every handler. The state of the handlers is the
per-connection context of `testtcp/main.cpp`. Bounds: `AnyOut`, `MaxCount` lines,
`MaxFile` bytes of a file.

### Listeners, Binding, WorkerPool, Service, BindingProofs, WorkerPoolProofs, ServiceProofs

`Listeners` says what `bind()` promises: all of the addresses it is asked for, in order,
or none. `Binding` is the code: `bind()` of a list calls `bind()` of an entry, which
calls `bind_ipv4()` and `bind_ipv6()`, each of which makes a socket, binds it, listens
and adds a `listen_t`; any call of the kernel may fail, and two rollbacks (that of an entry
drops its IPv4 half, that of a list all that the list added) undo what is there by then.
The descriptors that are open in the kernel are a variable of their own. Bound:
`MaxCalls` of `bind()`.

`WorkerPool` has the main process and its workers as processes of their own, with
SIGCHLD, SIGTERM, zombies, the epoll instance and the signalfd that a restarted worker
shares with its parent. The header of the module lists the kernel facts it relies on.
The history variable `mishaps` remembers a death before SIGCHLD was blocked and a failed
fork. A worker may crash anywhere, or a system call of its `run_tcp()` may fail: then it
leaves by the same clean-up as the main process, `kill_all()` included, which looks at
`m_main_process` (`mainProcess`, cleared in the child by `create()`). Bounds:
`MaxDeaths` crashes and failures, and one SIGTERM at a time.

`Service` is `main()`: it binds, runs the pool and exits, and `~acceptor_t()` closes the
sockets.

### LinkList, LinkListProofs

`link_t` pointer by pointer, with the list that each head is meant to hold beside it.
The header lists how the callers use it. Popping leaves the node's own pointers as
they are, as the code does.

### HttpRequest, HttpProcessor, HttpResponse, HttpLine, HttpService, HttpProofs

`HttpRequest` is `continue_to_parse()` as operators over a parser record and the
contents of `recv_buf`, a sequence of atoms (a whole first line, a header, CR, LF, NUL).
A `fast_str_t` is a base address, an offset and a length; it is stale when the buffer
has moved. `Whole` is the reference: what a look at the whole text says, written without
the parser's steps. `HttpProcessor` is `on_received()` against a client that sends
scripts of requests which the network cuts anywhere; the call of the routine lasts
(`running`) until it returns or abandons its response, and the connection object is
closed and given to the next client, which must find nothing of the last one.

`HttpResponse` has the operators of the response: a routine calls `code()`, `<<` and
`write()` in any order that the header file permits; `send_buf` is a sequence of cells
with a number in those that are patched. Protected headers are left out, as in a
release build. `HttpLine` is the level of bytes that `HttpRequest` takes for granted:
how `split()`, `trim()` and the decoding of percent signs, which happens in the text that
all views share, make method, URI, variables and header of a line. `LineAsDefined`
compares that with a definition that decodes nothing in place. The loops of both modules
are recursive functions on a number of turns that is large enough: a turn of the header
loop, of `split()` and of the decoder each take a character at least or end the loop, and
the loop over the variables takes one of them each.

`HttpService` is their composition on one connection object: the routine writes its
response inside the call that `on_received()` makes, `send_buf` is empty when `attach()`
is called because the loop reads only when nothing is to be sent, and a routine that
abandons its response has it taken back.
Bounds: `MaxMoves` of `recv_buf`, `MaxCalls` of a routine, `MaxContent` bytes of content,
and `Busy`, the clients whose routines do more than return; the others' routines return
at once, since what they write does not depend on how the request was cut.

## 3. Runs

Instances are in the `MC*` modules. Passing runs:

| run | checks | states |
|---|---|---|
| `acceptor_any` | a handler that may answer anything, two objects, a pool of one, two tasks each, assertions compiled in: lists and counters (`CountsMatch`), sessions (`SessionPairs`), no event for an object that was given up (`BatchFresh`), epoll interest (`PendingArmed`), tasks pin their object (`AioPinsConn`), nothing is left in the pool (`FreeIsClean`), and `ConnLife` is implemented (`LifeSpec`) | 136k |
| `acceptor_disciplined` | a handler that asks for a disconnect in `on_received()` only: completed tasks are delivered, disconnects carried out, and SIGTERM ends the loop unless it is kept in its loop over `accept()` for ever, which takes clients that connect for ever (`StopsOnTerm`) | 19k |
| `pool` | a program (`Service`) that binds its sockets, with system calls that fail anywhere, and runs two workers: three that crash or fail, early or late, failing forks, SIGTERM at any time. `bind()` adds all or nothing and leaks no descriptor (`BindsAllOrNothing`, the refinement of `Listeners`); `m_workers` is the set of children; a main process that returns has told every worker that lives to stop, and has woken those with an epoll instance of their own (`AllAreTold`: a restarted one may still never read its SIGTERM); each death is replaced once unless `fork()` fails (`PoolFull`); one worker that crashes or fails is replaced and takes no sibling with it (`RestoredOnce`); SIGTERM stops everything until a restarted worker has joined the main process's epoll instance (`StopsUnlessRestarted`) | 336k |
| `connio` | with any handler and with those of `testtcp`: both streams, no lost edge, the end of the stream; everything either side sent arrives unless the connection ends (`AllDelivered`); a handler that asks for more is called again (`MoreAsked`); `echo` returns all of it; `repeat` answers with all the lines it was asked for before it takes the next request (`LinesAsAsked`) | 261k |
| `link_lists` | pointers represent lists, no node is on two, iteration under callbacks that delete or unlink, its end | 34k |
| `http` | clients one after the other on one pooled connection object: pairs of requests, refused or not, and every text of up to five of seven atoms, cut anywhere, pipelined or not, abandoned or not, with one move of `recv_buf`. While the buffer stays, the resumed parser agrees with `Whole`, each routine sees its own client's request and a patient client is answered; the parser never counts more than there is; URI and version survive the move; with up to four calls of the routine in any order, what is sent is what it asked for, with the right length and nothing older touched (`SentAsAsked`), and an abandoned response leaves nothing (`NothingAbandoned`). Some 50k lines mean to the parser what they are defined to mean (`LineAsDefined`) | 723k |

Why the bounds are enough to be of use. Two objects and a pool of one make the pool
full, empty and contended; two tasks let one complete before and one after the
connection is gone; two events per batch let one event disturb the next. Three bytes
with a unit of two and room for one make every buffer fill exactly, overflow by one,
and drain; with a unit of two a file name, a file and an echo each span two calls. Two
workers and three pids let a pid be free, dying and used again, and one `bind()` after
another finds its ports taken; the lists are those of the demo programs, one port, an
address whose wildcard is in use, and an empty one. Three
nodes on two lists give the first, inner and last position. The texts hold every
combination of line ends around every kind of line, and the scripts a request whose
content looks like a header. The lines have every mix of separators, percent signs,
hexadecimal digits and blanks at the places where the parser looks for them.

Runs that show a disagreement with what the repository says of itself; `PROJECT.json`
quotes the lines:

| run | what it shows |
|---|---|
| `acceptor_aio_disconnect` | `break` at `acceptor.cpp:263` leaves the loop over `aio_conns` before `gc_conn_i()`: the connection stays open |
| `acceptor_reuse_assert` | a popped node still says `linked()`, so that the assertion at `acceptor.cpp:505` fails when a pooled object's new client is lost at once |
| `acceptor_early_aio` | a task that is started while the client is accepted does not pin its object |
| `pool_respawn` | a second restart adds the listening sockets to the same epoll instance again (EEXIST), and restarted workers take the main process's wake-ups |
| `testtcp_file` | `testtcp`'s file handler (`testtcp/main.cpp:337`) reads the next file to the end of `send_buf` while the previous one is still being sent; when that is out the buffer is cleared, and the bytes are not where `on_aio_completed()` counts them in |
| `http_stale` | headers, host name and variables are not rebased when `recv_buf` moves inside the header |

Fairness. `Acceptor`: the loop takes its steps (WF); a pending signal is reported if the
loop keeps returning to `epoll_wait()` (SF: the kernel's ready list is a queue). Nothing
is assumed about the loop over `accept()`: clients may connect between any two of its
turns, and `StopsOnTerm` names this as the one way in which SIGTERM is never read. `TestTcp`: the loop
runs, the peer reads and a task of the file handler completes. `WorkerPool` and
`Service`: every process is scheduled. `LinkList`: an iteration that has begun goes on.
No run assumes that a client sends, that an arbitrary handler's task completes, that a
worker survives, or that anybody sends SIGTERM. The HTTP modules have safety properties only:
`on_received()` is called once for what has arrived, and `AllAnswered` says that
nothing it could have answered is left behind.

Deadlock is checked in `Acceptor`, `TestTcp` and `LinkList`. In HTTP a client whose script
is done and bounds that are used up leave no further step. In the pool the processes may
really wait for ever: a restarted worker may have taken the edge that was meant for the
main process, after which nobody can take a step (`pool_respawn`).

Read in the code, without a run of their own:

- `acceptor.cpp:263`: the same `break` leaves the other connections of `aio_conns` with
  completed tasks until another of their tasks completes.
- `acceptor.cpp:325-343`: a handler that sends a greeting and asks for a disconnect in
  `on_connected()` stays connected when the greeting went out at once. This is why
  `acceptor_disciplined` gives `on_connected()` no answers.
- `acceptor.cpp:250`: an object in the AIO-wait list has its completed nodes deleted, so
  `popup_aio_completed()` returns nothing, `gc_conn_i()` is not called, and lines
  659-672 are never reached.
- `acceptor.cpp:382`: `result_more_data` with nothing appended is not followed by
  `get_more_data()`, against `conn_event.h:35-36`. `MoreAsked` speaks of answers with data.
- `acceptor.cpp:377`: what `on_received()` appended is dropped when the peer has shut
  down its sending side.
- `acceptor.cpp:278`: the loop over `accept()` looks at nothing else until the backlog is
  empty. While clients keep connecting and are turned away or lost, SIGTERM is not read,
  against README.md:87 of the repository. `StopsOnTerm` is false without that exemption.
- `acceptor.cpp:633`: a restarted worker waits on the epoll instance of the main process.
  It may take the edge of the main process's SIGTERM, and none is raised there for its own,
  so that the service may not quit (README.md:87). `StopsUnlessRestarted` is false without
  its last part.
- `acceptor.cpp:636`: after a restart the main process accepts clients too
  (`config.h:51-53` says that it does not).
- `acceptor.cpp:181-196` and `631`: a worker that dies before SIGCHLD is blocked, or
  whose replacement cannot be forked, is not replaced.
- `http_processor.cpp:64`: a second request in the same packet waits for the next one
  (`AllAnswered` speaks of patient clients only). The file handler of `testtcp` does the
  same with a second file name.
- `http_processor.cpp:78`: the first routine of the first controller serves every URI.
- `http_response.cpp:178`: a content of 10^8 bytes or more is announced as 0 (the run
  `http` stays at or below the longest length that fits).
- `testtcp/main.cpp:72` and `101`: the loops that skip blanks ask for a byte that is a space
  and a tab at once, and never skip; `:267` announces three worker processes and sets none.
- `http_header.cpp:109`: a missing comma joins `Retry-After` and `Server` in the table of
  names, which nothing in the library looks up.

## 4. Proofs

### The event loop

`AcceptorProofs` proves, for any set of objects, any bounds, any handler answers and
either build, under the one assumption `~EarlyAio`:

`TypeCorrect`, `CountsCorrect`, `SessionsCorrect`, `BatchCorrect`, `ArmedCorrect`,
`PinsCorrect`, `PoolCorrect` (each `Spec => []P` for the property that `acceptor_any`
checks) and `LifeRefined` (`Spec => LifeSpec`); and, for handlers that `acceptor_disciplined`
runs, `AioIsDelivered` (`AioDelivered`) and `DisconnectIsHonoured` (`DisconnectHonoured`).

`~EarlyAio` says that the handler starts no task before its client is accepted. It is
needed: `acceptor_early_aio` refutes `AioPinsConn` without it.

The properties are not inductive one by one. The inductive invariant `IInv` is
`Locals /\ Objects`: `Locals` says where in the loop which local variable is live and
bounds the counters; `Objects` is, for every object, `Shape` (what an object in each
list looks like, e.g. that a waiting object has no interest and a pooled one is
`Pooled`), `Pinned` (the object's counter is what the kernel holds), `BatchFresh`,
`OutPending` (an object that waits for writability has data), and `CountsMatch`. Why
each is needed: a connection leaves the used list through `gc_conn_i()` only, and
which branch it takes depends on `running`, so `Pinned` and `Shape` are needed for
`CountsMatch`; an event of the batch may be handled after others gave objects up, so
`BatchFresh` is needed to know that `gc_conn_i()` is called on a used object; `ConnIn`
and `ConnOut` disagree about what is pending, hence `OutPending`. The step is proved
action by action (one lemma each), with cardinality lemmas for an object that moves
between lists. `LifeRefined` maps each action to a `Run`, `Stop` or stutter of `ConnLife`
from the same invariant.

The last two theorems have a hypothesis on the handler, because `run_tcp()` honours
`result_disconnect` in some places only (`acceptor.cpp:263` leaves the loop over `aio_conns`
instead of giving the connection up, and lines 325-343 look at it before the greeting is
sent only). `AioIsDelivered` assumes `AioStays` (`on_aio_completed()` never answers it):
its invariant `Delivered` says that completed tasks wait only for the turns of that loop
that are still due. `DisconnectIsHonoured` assumes `Disciplined`: neither do
`on_connected()` and `get_more_data()`; the property is then inductive on top of `IInv`.
`acceptor_aio_disconnect` refutes `DisconnectHonoured` for a handler that answers it in
`on_aio_completed()`.

### A connection

`ConnIOProofs` proves, for any amount of data, room in the kernel and unit of reading, any peer and any handler
that `conn_event_t` allows: `TypeCorrect` (`TypeOK`), `StreamInIntact` (`StreamIn`),
`StreamOutIntact` (`StreamOut`), `NoWakeupIsLost` (`NoLostWakeup`) and `CloseIsReal`
(`PeerClosedIsReal`). The assumptions are those that the module makes of its constants.

The inductive invariant is `IInv`, a conjunction that says, besides the types: where each
byte is (`InOrder`, `OutOrder`: bytes are numbers, so a received byte is the one at its
place of the stream, and the properties follow as equations between sequences); that a
call of `recv()` has room and the end of the stream was seen only when the peer made one (`Space`); and what
makes edge-triggered epoll sound (`Armed`: which events are registered at each place of the loop; `Edges`: a socket that is
ready for them has its edge, and a full one will raise one, in `epoll_wait()` and already
where the loop is about to go back to it). `NoLostWakeup` speaks of `epoll_wait()` only and
is not inductive: it needs `Edges` at the places before, and `Armed` to know which of the two
readinesses counts there.

`TestTcpProofs` proves that the handlers of the demo programs are handlers of `ConnIO`
(`TcpImplementsConnIO`: `TcpSpec => Spec`), so that the above holds of them
(`TcpStreams`); that their contexts keep their types (`TcpTypeCorrect`); and that `repeat`
answers with all the lines it was asked for (`LinesAreAsAsked`). `TInv` adds to `IInv` one
part per handler: `EchoInv` (each byte it sent has an origin, at most two for one that was received),
`RepeatInv` (lines are left exactly while `result_more_data` is on, and then the loop is on
its way to `get_more_data()`, `Underway`), `FileInv` (one task while a file is open). Each part also bounds what a
handler can produce by what it received, so that the bounds of `ConnIO` suffice for it; the
assumption `TestTcpBounds` is about these bounds only.

### The intrusive lists

`LinkListProofs` proves, for any nodes and any heads: `LinkTypeCorrect` (`TypeOK`),
`PointersRepresent` (`Represents`) and `VisitsAreInOrder` (`VisitsInOrder`). `LInv` is
inductive: `Apart` (no node is in two lists or twice in one), `Loose` (what is listed is
allocated, and a node in no list is linked to itself unless it was popped), `Linkage` (the
ring of every head, in both directions, except from the head of one that is being iterated), `Visiting`
(`for_each()` is at the first node that is left, which hangs on the head or on a node that
was deleted). Push, pop and unlink
are all shown to be an insertion or a removal at a place of a ring.

### The worker pool

`WorkerPoolProofs` proves, for any number of workers, any set of process ids, any number
of crashes, with or without failing forks and early deaths: `PoolTypeCorrect`
(`Spec => []TypeOK`), `WorkersCorrect` (`WorkersAreChildren`), `AllAreToldCorrect`
(`AllAreTold`) and `PoolFullCorrect` (`PoolFull`). The only assumption is that of the
module `WorkerPool` (`N` is positive, and the main process is none of the workers).
`AllAreTold` does not say that a worker that was restarted reads its SIGTERM, which it may
not: nothing raises an edge for it in the epoll instance that it waits on.

The inductive invariant `IInv` is `Types /\ OneMain /\ Children /\ Counted /\ AllAreTold`. `OneMain`
says that `m_main_process` is set in the main process only, so that the `kill_all()` of a
worker that ends reaches nobody (`WhoKills`). `Children`
says that `m_workers` is the set of children while the main process lives, and that it has
signalled nobody yet; without it neither of the other two can be proved: `Counted`, because the number
of forks that are due is counted by looking the dead up in `m_workers`, and `AllAreTold`,
because `kill_all()` reaches those in `m_workers` only. `Counted` says that workers and due
forks are `N` in every state of the main process, not only back in its loop, and that the
set is finite. `Types` keeps `toFork` between 0 and `N`, which needs `Counted` in turn.
There is one lemma per action (the two ways in which a worker ends share `VanishStep`), and two about cardinalities (a child is added, the dead
are taken out).

`ServiceProofs` shows that a program on `acceptor_t` implements `WorkerPool`
(`ServiceRunsPool`: `ServiceSpec => Spec`): binding and exiting do not touch the pool. So
everything above holds of the program too, of which `ServiceTellsAll` is an instance.

### Listening sockets

`BindingProofs` proves, for any set of argument lists and any failure of a system call,
that `Binding` implements `Listeners` (`BindingImplementsListeners`), and
`BindTypeCorrect`. The assumption `BindingAssumption` says that the arguments are sequences
and the bound a number. The inductive invariant `BInv` is `BTypes /\ Listening /\ Accounted
/\ Making /\ Exclusive /\ Progress`: every `listen_t` has a listening socket of its own
(`Listening`), the kernel has nothing else open but the socket that is being made
(`Accounted`, `Making`), no two addresses exclude each other (`Exclusive`), and what a
call has added so far is what it was asked for up to where it is (`Progress`: this is what
the two rollbacks, which count entries of `m_listens`, rely on). `Listeners` asks for the
addresses of a whole list by flattening the lists of its entries, an operator that is
defined by recursion. What is needed of it (the flattened prefix grows by an entry at a
time, `AskedGrows`) is proved from the definition with the library's theorem that a
non-empty set of numbers has a least element (`LeastIsThere`), which takes the place of
induction.

`ServiceProofs` carries this over to the program with its exit (`ServiceBinds`,
`ServiceTypeCorrect`).

### HTTP

`HttpProofs` proves, for any scripts of requests over any alphabet, any cuts, any moves of
`recv_buf`, any routine that keeps to the order of `http_response.h` and any lines,
every safety property that the run `http` checks, two of them (`EachSeen`, `SentAsAsked`)
under hypotheses that are stated below. There is one inductive invariant for each
question that is asked of the processor, each on top of the one before, one for the
response and one for the line.

*Within the buffer.* `PInv` (`ProcessorInvariant`) says of the processor that its parser is
`Within` the buffer: every member has its type, no header is empty and the bytes it has done
are there. `ServiceRunsProcessor` (`ServiceSpec => Spec`) carries what is proved of
`HttpProcessor` over to the service. The step that is not immediate is the header loop
(`HeaderLinesAre`). It is a recursive function, so that it exists at all (`TurnsAreThere`)
and that every turn keeps `Within` have to be argued from the least turn at which they would
fail (`LeastIsThere`), in place of induction. `ParsedIsInBuffer`, the assertion of
`http_request.cpp:73`, follows. It does not depend on where stale pointers lead: whatever is
read through them, the parser counts only lines that it found in the buffer.

*Resumed or whole.* `WholeInv` (`WholeInvariant`) adds that a parser that waits for more is
`Resumable`: it is at the start (`AtStart`); or it has read the first line and some
headers, at the end of a line, without a mistake so far, and its headers are the header lines of the
text before that place (`InHeader`); or it has read the empty line and remembers the length
that the text says (`PastHeader`). This is what a look at the whole text would have found
on its way, so the next call goes on where that look does, whatever has been appended.
`ResumedIsAsWhole` follows. `Whole` is defined by quantifying over positions and the
parser by a loop, which is why the argument is about what a text says up to a place (`CleanTo`,
`AreHeaders`, `NoEnd`) and how that grows by a line.

*Answered.* `PatientInv` relates the requests that a patient client has asked to those that
were answered, and says that nothing is left in the buffer that a call could still answer once all
that was sent has been received. `PatientAreAnswered` follows. It rests on two facts of the
environment: no request is empty (`HttpProcessorAssumption`; an empty one would be waiting for
an answer that nobody owes) and a patient client sends only while no routine runs and nothing is
pending.

*Seen.* `SeenInv` says what lies in the buffer and on the wire (`Stream`): the requests that
were sent and not yet answered, one behind the other (`InARow` from `Current` on), or what
came behind the last one (`Leftover`); and that every routine so far has seen its request
(`SeenSoFar`). Two lemmas connect it to the parser: `ReadIsSeen` (the headers that were read
from the buffer are those that the request alone has) and `WholeIsKept` (a complete request
stays one, and as long, when more is appended). `EachIsSeen` has the hypothesis
`ScriptsAreFramed`: a request that is followed by another is complete and has nothing behind
it, and the last one may be anything that does not hold a second request. It is needed, since
otherwise one request's bytes are the next one's header; TLC checks it of the scripts of the runs (`MCFramed`). The theorem speaks
of the time until `recv_buf` moves: after that the header strings are stale, and what is read through them
is junk (`http_stale`), a content length among it, so that later requests may be cut at the wrong place.

*What a line says.* `LinesAreUnderstood` (`LineAsDefined`) holds for lines of any length and any bytes. Its
invariant (`LineInv`) is trivial, as a line is read once; the work is in two lemmas
about operators, `HeaderLineSays` and `FirstLineSays`. `split()` is shown to take the
longest parts between delimiters, which the definition lists by counting (`SplitBy`: the items so far
are those that begin before the place where the loop is; `SplitIs`). The decoder has read a part of its
view and written no more than it has read, so that it never overwrites what it has yet to
read; what it has written are the bytes that stand for themselves or begin an escape (`DecodedBy`,
`DecodeIs`), and it changes the text within its own view only (`SameBut`). Views that have
nothing in common with that one are as before (`Apart`, `SameRead`), which carries the name
and value of each variable over the decoding of all others (`VarsUpto`), and URI and version over both.
As everywhere in this module, the least counterexample takes the place of induction over the turns of a loop.

*The response.* `RInv` (`ResponseInvariant`) says how far a response has come while its routine runs
(`Making`): nothing is there (`Fresh`); or the status line and the routine's headers in
order (`Heading`); or these with the automatic headers, a length of 0, the empty line and
the content so far (`Filling`). In the last two the positions kept in `http_response_t` are
those of the cells that are patched later. Each call takes one of the three forms to
another (`CodeMakes`, `HeaderMakes`, `WriteMakes`). The lemmas under them are
about patching: `PatchedFirst` and `LengthPatched` say that patching a status line or a
length leaves what follows it, so a code may change at any time. From `RInv` follow
`ServiceTypeCorrect`, `NothingAbandonedHolds` and `SentIsAsked`. The last one assumes
`MaxContent <= LongestLength`: eight characters have to be enough for the length, without
which the code announces 0 (see the list under "Runs").

`HttpServiceAssumption` says that 200 is among the codes, that the bounds are numbers, and
that a line is a sequence of bytes of one of the two kinds; `HttpProcessorAssumption` that
scripts are sequences of requests, none of them empty. Neither bounds anything.

### Model-checked only

All liveness, which is out of the prover's reach: `StopsOnTerm`, `AllDelivered`,
`MoreAsked`, `EchoReturns`, `IterationEnds`, `RestoredOnce` and `StopsUnlessRestarted`.
Every safety property that a passing run checks is proved. One theorem says less than its
run: `EachIsSeen` stops where `recv_buf` moves, while TLC follows the requests of the run
beyond it (their number, URI and version).

## 5. Not modelled

The tables of header names and status words, date formatting, `to_number()`, `after()` and
`cmp()` of the string view as functions of their own, the sorting of URI variables and headers
that precedes a look-up by name (`http_request.cpp:166`; variables are compared in the order
they have in the line), controllers' registration, the
routines of `testhttp` and what the demo programs print, the socket options (what
`accept()`, `nonblock()`, `recv()`, `send()` and `read_nonblock()` report is in the actions
that call them), configuration values other than as constants, and the adapter of
functions to handlers except for its defaults in `TestTcp`. The arithmetic of size and
capacity in `buf_t` is not modelled beyond what `ConnIO` and `HttpResponse` use.
`conn_t::aio_cancel()` and `worker_pool_t::kill(pid)` are not modelled either: the first
changes no state of the connection, the second has no caller. A full queue of real-time
signals, a failing EPOLL_CTL_MOD, and memory that runs out are left out; the hazards
list says so at their lines.

## 6. Plan

Order of work, the most important behaviour first. Done:

1. `ConnLife`, `Acceptor`: event loop and object life, refinement.
2. `AcceptorProofs`: type correctness, safety, refinement for all constants.
3. `WorkerPool`: processes and signals.
4. `ConnIO`: streams and edges of one connection.
5. `LinkList`: pointers.
6. `HttpRequest`, `HttpProcessor`: parser and dispatch.
7. `HttpResponse`: patched output.
8. Runs for the disagreements that the other runs' conditions rest on.
9. `Listeners`, `Binding`: `bind()` against "all or nothing"; `Service` on top of it.
10. `HttpLine`: lines byte by byte; `HttpService`: the composition of the HTTP modules.
11. `TestTcp`: the demo handlers on `ConnIO`.
12. `WorkerPoolProofs`, `ServiceProofs`: the pool for all constants.
13. `ConnIOProofs`, `TestTcpProofs`: a connection and the demo handlers for all constants.
14. `LinkListProofs`: the pointers for any nodes and heads.
15. `BindingProofs`: `bind()` for any lists; `ServiceProofs` extended to it.
16. `HttpProofs`: the parser within its buffer, the resumed parser against the whole text,
    answers, what routines see, the lines, and the response as it was asked for.

Next:

17. `Buf`: size and capacity as numbers of fixed width, refining a byte sequence.
18. A bounded signal queue in `Acceptor`, and EPOLL_CTL_MOD that may fail.
19. A composition of `Acceptor` and `LinkList`: the three lists as rings.
