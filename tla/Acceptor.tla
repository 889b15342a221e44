------------------------------ MODULE Acceptor ------------------------------
(***************************************************************************)
(* The event loop of one process: acceptor_t::run_tcp (acceptor.cpp), the  *)
(* connection objects it owns (conn.cpp) and the three lists it keeps them *)
(* in (used, AIO-wait, free).                                              *)
(*                                                                         *)
(* A step of the loop is the handling of one event of the batch that       *)
(* epoll_wait() returned, or one turn of the two inner loops (completed    *)
(* AIO tasks, accepted sockets).  Between any two steps the environment    *)
(* may act: a client connects, the kernel completes an AIO task, somebody  *)
(* sends SIGTERM.  A conn event carries the mask captured when             *)
(* epoll_wait() returned, not the interest at the time it is handled.      *)
(*                                                                         *)
(* The handler (conn_event_t) is a set of allowed answers per callback, a  *)
(* free choice whether it appends data to the send buffer, and a free      *)
(* choice how many AIO tasks it starts.  It is assumed to keep to its own  *)
(* documented contract: get_more_data() that appends nothing does not      *)
(* return result_more_data (acceptor.cpp:536), and on_disconnected()       *)
(* starts no AIO task.                                                     *)
(***************************************************************************)
EXTENDS Integers, FiniteSets

CONSTANTS
  Conn,             \* addresses at which conn_t objects are allocated
  MaxFree,          \* config_t::max_free_connection()
  MaxEvents,        \* config_t::max_epoll_events()
  Debug,            \* TRUE: assert() is compiled in (Makefile, CPPFLAGS_DEBUG)
  ResConnected,     \* what on_connected() may return
  ResReceived,      \* what on_received() may return
  ResMore,          \* what get_more_data() may return
  ResAio,           \* what on_aio_completed() may return
  EarlyAio,         \* TRUE: the handler may start AIO tasks while its client is
                    \* accepted (in on_connected() or the first get_more_data())
  MaxAio,           \* bound: AIO tasks of one connection not yet handed over
  MaxBacklog        \* bound: sockets waiting in the listen backlog

Flags == {"disconnect", "more"}   \* conn_event_t::result_*

ASSUME ConstantsAssumption ==
  /\ IsFiniteSet(Conn)
  /\ MaxFree \in Nat
  /\ MaxEvents \in Nat \ {0}
  /\ Debug \in BOOLEAN
  /\ EarlyAio \in BOOLEAN
  /\ ResConnected \subseteq SUBSET Flags
  /\ ResReceived \subseteq SUBSET Flags
  /\ ResMore \subseteq SUBSET Flags
  /\ ResAio \subseteq SUBSET Flags
  /\ MaxAio \in Nat
  /\ MaxBacklog \in Nat

VARIABLES
  pc,         \* where run_tcp() is
  events,     \* conn events of the batch still to be handled, with their mask
  fds,        \* signal and listen events of the batch still to be handled
  aioConns,   \* the local set aio_conns
  conn,       \* the conn_t objects
  usedCount, waitCount, freeCount,   \* counters of running_t
  flight,     \* AIO tasks the kernel still works on
  sig,        \* AIO completion signals queued for the process
  backlog,    \* sockets accept() would return
  term        \* SIGTERM or SIGINT is pending

counts == <<usedCount, waitCount, freeCount>>
vars == <<pc, events, fds, aioConns, conn, counts, flight, sig, backlog, term>>

-----------------------------------------------------------------------------
(* conn_t *)

Masks == {"none", "IN", "OUT"}

ConnRecord ==
  [ list      : {"none", "used", "wait", "free"},  \* "none": not allocated
    linked    : BOOLEAN,      \* m_link.linked()
    pend      : BOOLEAN,      \* pending_send_size() > 0
    result    : SUBSET Flags, \* m_last_event_result
    interest  : Masks,        \* mask registered with epoll
    running   : Int,          \* m_aio_running_count
    completed : Nat,          \* m_aio_completed_count
    waiting   : BOOLEAN,      \* m_aio_wait_state
    \* history: between on_connected() and on_disconnected(); "bad" once a
    \* callback was made outside its session
    session   : {"idle", "open", "bad"} ]

Absent ==
  [ list |-> "none", linked |-> FALSE, pend |-> FALSE, result |-> {},
    interest |-> "none", running |-> 0, completed |-> 0, waiting |-> FALSE,
    session |-> "idle" ]

(* What a connection leaves in the free list. *)
Pooled ==
  [ list |-> "free", linked |-> TRUE, pend |-> FALSE, result |-> {},
    interest |-> "none", running |-> 0, completed |-> 0, waiting |-> FALSE,
    session |-> "idle" ]

Connected(k) ==
  [k EXCEPT !.session = IF @ = "idle" THEN "open" ELSE "bad"]

Disconnected(k) ==
  [k EXCEPT !.session = IF @ = "open" THEN "idle" ELSE "bad"]

Called(k) ==
  [k EXCEPT !.session = IF @ = "open" THEN "open" ELSE "bad"]

(* A callback answered r, left data to send, and started n AIO tasks. *)
Answer(k, r, adds, n) ==
  [k EXCEPT !.result = r, !.pend = @ \/ adds, !.running = @ + n]

Room(k) == MaxAio - k.running - k.completed

Answers(k, Res) ==
  { Answer(k, r, adds, n) : r \in Res, adds \in BOOLEAN, n \in 0 .. Room(k) }

(* Mutants of Close: the running tasks are forgotten too; the last answer *)
(* of the handler stays.                                                  *)
CloseForgetsTasks(k) ==
  [k EXCEPT !.pend = FALSE, !.result = {}, !.interest = "none",
            !.completed = 0, !.running = 0]
CloseKeepsResult(k) ==
  [k EXCEPT !.pend = FALSE, !.interest = "none", !.completed = 0]

(* conn_t::close(): the socket leaves epoll, buffers and completed tasks go, *)
(* running tasks and the link stay.                                         *)
Close(k) ==
  [k EXCEPT !.pend = FALSE, !.result = {}, !.interest = "none",
            !.completed = 0]

(* Mutants of OnAioCompleted: the wait state is not looked at; the counter *)
(* of completed tasks goes the wrong way.                                  *)
CompletedWhileWaiting(k, n) ==
  [k EXCEPT !.running = @ - n, !.completed = @ + n]
CompletedMiscounted(k, n) ==
  [k EXCEPT !.running = @ - n, !.completed = @ - n]

(* conn_t::on_aio_completed_i() for n tasks: a connection in wait state *)
(* deletes the nodes, any other keeps them for the handler.             *)
OnAioCompleted(k, n) ==
  IF k.waiting THEN [k EXCEPT !.running = @ - n]
               ELSE [k EXCEPT !.running = @ - n, !.completed = @ + n]

(* loop_send_i(): the states in which a send() is tried, and those in which *)
(* everything was sent and the handler has no more.                         *)
Tried(k) ==
  {k} \cup (IF "more" \in k.result
            THEN { a \in Answers(Called(k), ResMore) : a.pend } ELSE {})

Sent(k) ==
  { [t EXCEPT !.pend = FALSE] : t \in {u \in Tried(k) : "more" \notin u.result} }

(* Mutant: the answer is compared with, not tested for, the flag. *)
QuitsOnExactResult(k) == ~k.pend /\ k.result = {"disconnect"}

(* The handler wants the connection closed and nothing is left to send. *)
Quits(k) == ~k.pend /\ "disconnect" \in k.result

(* Mutant: EPOLL_CTL_MOD is forgotten. *)
NotArmed(k) == k

(* Data to send switches the connection to waiting for writability. *)
ArmForSending(k) == IF k.pend THEN [k EXCEPT !.interest = "OUT"] ELSE k

-----------------------------------------------------------------------------
(* Garbage collection of connection objects *)

(* add_free_conn_i() when the free count is n: pool the object or delete it. *)
AddFree(c, k, n) ==
  /\ conn' = [conn EXCEPT ![c] =
       IF n < MaxFree THEN [k EXCEPT !.list = "free", !.linked = TRUE]
                      ELSE [Absent EXCEPT !.session = k.session]]
  /\ freeCount' = IF n < MaxFree THEN n + 1 ELSE n

(* gc_conn_i() with new_conn = true. *)
GcNewConn(c, k, n) ==
  /\ AddFree(c, Close(Disconnected(k)), n)
  /\ UNCHANGED <<usedCount, waitCount>>

(* Mutant: running tasks are not looked at. *)
NeverDrains(k) == FALSE

Drains(k) == k.running > 0

(* gc_conn_i() with new_conn = false. *)
GcConn(c, k) ==
  IF k.waiting
  THEN IF k.running = 0
       THEN /\ AddFree(c, Close([k EXCEPT !.linked = FALSE, !.waiting = FALSE]),
                       freeCount)
            /\ waitCount' = waitCount - 1
            /\ UNCHANGED usedCount
       ELSE conn' = [conn EXCEPT ![c] = k] /\ UNCHANGED counts
  ELSE /\ usedCount' = usedCount - 1
       /\ IF Drains(k)
          THEN /\ conn' = [conn EXCEPT ![c] =
                    [Close(Disconnected(k)) EXCEPT
                       !.list = "wait", !.linked = TRUE, !.waiting = TRUE]]
               /\ waitCount' = waitCount + 1
               /\ UNCHANGED freeCount
          ELSE /\ AddFree(c, Close([Disconnected(k) EXCEPT !.linked = FALSE]),
                          freeCount)
               /\ UNCHANGED waitCount

(* The loop keeps the connection in state k. *)
KeepConn(c, k) == conn' = [conn EXCEPT ![c] = k] /\ UNCHANGED counts

(* The tasks the handler started while the object went from conn[c] to k. *)
Launch(c, k) ==
  flight' = [flight EXCEPT ![c] = @ + (k.running - conn[c].running)]

-----------------------------------------------------------------------------
(* The loop *)

Init ==
  /\ pc = "loop"
  /\ events = [c \in Conn |-> "none"]
  /\ fds = {}
  /\ aioConns = {}
  /\ conn = [c \in Conn |-> Absent]
  /\ usedCount = 0 /\ waitCount = 0 /\ freeCount = 0
  /\ flight = [c \in Conn |-> 0]
  /\ sig = [c \in Conn |-> 0]
  /\ backlog = 0
  /\ term = FALSE

Registered == {c \in Conn : conn[c].interest # "none"}

Raised ==
  (IF term \/ \E c \in Conn : sig[c] > 0 THEN {"signal"} ELSE {})
    \cup (IF backlog > 0 THEN {"listen"} ELSE {})

BatchDone == fds = {} /\ \A c \in Conn : events[c] = "none"

(* epoll_wait() returns some of the ready descriptors, at most MaxEvents. *)
EpollWait ==
  /\ pc = "loop" /\ BatchDone
  /\ \E cs \in SUBSET Registered, fs \in SUBSET Raised :
       /\ Cardinality(cs) + Cardinality(fs) \in 1 .. MaxEvents
       /\ events' = [c \in Conn |-> IF c \in cs THEN conn[c].interest ELSE "none"]
       /\ fds' = fs
  /\ UNCHANGED <<pc, aioConns, conn, counts, flight, sig, backlog, term>>

(* epoll_wait() fails with something other than EINTR. *)
EpollFails ==
  /\ pc = "loop" /\ BatchDone
  /\ pc' = "clean"
  /\ UNCHANGED <<events, fds, aioConns, conn, counts, flight, sig, backlog, term>>

(* Mutant: the exit flag is only seen when no AIO task completed as well. *)
StopsWhenQuiet == term /\ \A c \in Conn : sig[c] = 0

StopRequested == term

(* on_signalled_i() reads every queued signal and moves the completed tasks *)
(* to their connections.  The loop stops on SIGTERM/SIGINT or when the read *)
(* fails.  A completed task whose conn_t was deleted is a use after free.   *)
SignalEvent ==
  /\ pc = "loop" /\ "signal" \in fds
  /\ fds' = fds \ {"signal"}
  /\ conn' = [c \in Conn |-> OnAioCompleted(conn[c], sig[c])]
  /\ aioConns' = {c \in Conn : sig[c] > 0}
  /\ sig' = [c \in Conn |-> 0]
  /\ term' = FALSE
  /\ \E ok \in BOOLEAN :
       pc' = IF \E c \in Conn : sig[c] > 0 /\ conn[c].list = "none" THEN "abort"
             ELSE IF StopRequested \/ ~ok THEN "clean" ELSE "aio"
  /\ UNCHANGED <<events, counts, flight, backlog>>

(* Mutant: the connection is given up right here, in the middle of a batch. *)
AioAnsweredGc(c, k) ==
  /\ aioConns' = aioConns \ {c}
  /\ IF Quits(k) THEN GcConn(c, k) ELSE KeepConn(c, ArmForSending(k))
  /\ UNCHANGED pc

(* What follows on_aio_completed().  A connection that is to be closed      *)
(* leaves the loop (break) before gc_conn_i() is reached.                   *)
AioAnswered(c, k) ==
  /\ IF Quits(k) THEN pc' = "loop" /\ aioConns' = {}
                 ELSE aioConns' = aioConns \ {c} /\ UNCHANGED pc
  /\ KeepConn(c, ArmForSending(k))

(* conn_t::popup_aio_completed(): the handler gets every completed task. *)
PopCompleted(k) == [k EXCEPT !.completed = 0]

(* One turn of the loop over aio_conns. *)
AioStep(c) ==
  /\ pc = "aio" /\ c \in aioConns
  /\ IF conn[c].completed = 0
     THEN /\ aioConns' = aioConns \ {c}
          /\ UNCHANGED <<pc, conn, counts, flight>>
     ELSE \E k \in Answers(Called(PopCompleted(conn[c])), ResAio) :
            /\ Launch(c, k)
            /\ AioAnswered(c, k)
  /\ UNCHANGED <<events, fds, sig, backlog, term>>

(* Mutant: only the first connection is served. *)
AioDoneEarly ==
  /\ pc = "aio"
  /\ pc' = "loop" /\ aioConns' = {}
  /\ UNCHANGED <<events, fds, conn, counts, flight, sig, backlog, term>>

AioDone ==
  /\ pc = "aio" /\ aioConns = {}
  /\ pc' = "loop"
  /\ UNCHANGED <<events, fds, aioConns, conn, counts, flight, sig, backlog, term>>

ListenEvent ==
  /\ pc = "loop" /\ "listen" \in fds
  /\ fds' = fds \ {"listen"}
  /\ pc' = "accept"
  /\ UNCHANGED <<events, aioConns, conn, counts, flight, sig, backlog, term>>

(* The object for a new client: from the free list while it has any, else  *)
(* freshly allocated.  pop_front() does not reset the popped node's link.  *)
(* An address with tasks outstanding is not allocated again, so that a     *)
(* dangling task is not mistaken for one of the new object.                *)
NewConn(c) ==
  IF freeCount > 0 THEN conn[c].list = "free"
                   ELSE conn[c].list = "none" /\ flight[c] + sig[c] = 0

Taken(c) == IF freeCount > 0 THEN [conn[c] EXCEPT !.list = "none"] ELSE Absent

(* Mutant: m_free_count is not decremented. *)
FreeNotCounted == freeCount

FreeLeft == IF freeCount > 0 THEN freeCount - 1 ELSE freeCount

(* on_connected(), the first send and EPOLL_CTL_ADD, for one socket.  *)
(* "lost" stands for a send that failed and for an EPOLL_CTL_ADD that *)
(* failed; both end in gc_conn_i() with new_conn = true.              *)
AcceptConn(c) ==
  /\ pc = "accept" /\ backlog > 0 /\ NewConn(c)
  /\ backlog' = backlog - 1
  /\ \E k \in Answers(Connected(Taken(c)), ResConnected), lost \in BOOLEAN :
       \E t \in IF k.pend THEN Tried(k) \cup Sent(k) ELSE {k} :
         /\ EarlyAio \/ t.running = Taken(c).running
         /\ Launch(c, t)
         /\ IF lost \/ Quits(k)
            THEN /\ GcNewConn(c, t, FreeLeft)
                 /\ pc' = IF Debug /\ t.linked THEN "abort" ELSE pc
            ELSE /\ conn' = [conn EXCEPT ![c] =
                      [t EXCEPT !.list = "used", !.linked = TRUE,
                                !.interest = IF t.pend THEN "OUT" ELSE "IN"]]
                 /\ usedCount' = usedCount + 1
                 /\ freeCount' = FreeLeft
                 /\ UNCHANGED <<pc, waitCount>>
  /\ UNCHANGED <<events, fds, aioConns, sig, term>>

(* The accepted socket cannot be made non-blocking and is closed. *)
AcceptDropped ==
  /\ pc = "accept" /\ backlog > 0
  /\ backlog' = backlog - 1
  /\ UNCHANGED <<pc, events, fds, aioConns, conn, counts, flight, sig, term>>

(* accept() says EAGAIN: the backlog is empty. *)
AcceptAgain ==
  /\ pc = "accept" /\ backlog = 0
  /\ pc' = "loop"
  /\ UNCHANGED <<events, fds, aioConns, conn, counts, flight, sig, backlog, term>>

(* accept() fails in another way (EMFILE, ECONNABORTED...): the loop stops. *)
AcceptFails ==
  /\ pc = "accept"
  /\ pc' = "clean"
  /\ UNCHANGED <<events, fds, aioConns, conn, counts, flight, sig, backlog, term>>

(* A readable connection: recv() until EAGAIN, on_received() if there were  *)
(* bytes.  The connection is given up when recv() failed, the peer closed,  *)
(* or the last answer was result_disconnect and nothing is left to send.    *)
ConnIn(c) ==
  /\ pc = "loop" /\ events[c] = "IN"
  /\ events' = [events EXCEPT ![c] = "none"]
  /\ \E k \in {conn[c]} \cup Answers(Called(conn[c]), ResReceived),
        closed \in BOOLEAN :
       /\ Launch(c, k)
       /\ IF closed \/ Quits(k) THEN GcConn(c, k)
                               ELSE KeepConn(c, ArmForSending(k))
  /\ UNCHANGED <<pc, fds, aioConns, sig, backlog, term>>

(* A writable connection: loop_send_i() meets an error, or EAGAIN, or sends *)
(* everything; in the last case the connection ends or goes back to reading.*)
ConnOut(c) ==
  /\ pc = "loop" /\ events[c] = "OUT"
  /\ events' = [events EXCEPT ![c] = "none"]
  /\ \/ \E k \in Tried(conn[c]), failed \in BOOLEAN :
          /\ Launch(c, k)
          /\ IF failed THEN GcConn(c, k) ELSE KeepConn(c, k)
     \/ \E k \in Sent(conn[c]) :
          /\ Launch(c, k)
          /\ IF Quits(k) THEN GcConn(c, k)
                         ELSE KeepConn(c, [k EXCEPT !.interest = "IN"])
  /\ UNCHANGED <<pc, fds, aioConns, sig, backlog, term>>

(* The end of run_tcp(): used connections are told, everything is deleted. *)
Clean ==
  /\ pc = "clean"
  /\ pc' = "done"
  /\ conn' = [c \in Conn |-> [Absent EXCEPT !.session =
       IF conn[c].list = "used" THEN Disconnected(conn[c]).session
                                ELSE conn[c].session]]
  /\ usedCount' = 0 /\ waitCount' = 0 /\ freeCount' = 0
  /\ events' = [c \in Conn |-> "none"] /\ fds' = {} /\ aioConns' = {}
  /\ UNCHANGED <<flight, sig, backlog, term>>

-----------------------------------------------------------------------------
(* The environment *)

Running == pc \notin {"done", "abort"}

(* A client connects.  Bounds: MaxBacklog, and one object per address. *)
ClientConnects ==
  /\ Running /\ backlog < MaxBacklog
  /\ backlog < Cardinality({c \in Conn : /\ conn[c].list \in {"none", "free"}
                                         /\ flight[c] + sig[c] = 0})
  /\ backlog' = backlog + 1
  /\ UNCHANGED <<pc, events, fds, aioConns, conn, counts, flight, sig, term>>

AioCompletes(c) ==
  /\ Running /\ flight[c] > 0
  /\ flight' = [flight EXCEPT ![c] = @ - 1]
  /\ sig' = [sig EXCEPT ![c] = @ + 1]
  /\ UNCHANGED <<pc, events, fds, aioConns, conn, counts, backlog, term>>

(* acceptor_t::stop(), or a user's kill. *)
SendTerm ==
  /\ Running /\ ~term
  /\ term' = TRUE
  /\ UNCHANGED <<pc, events, fds, aioConns, conn, counts, flight, sig, backlog>>

Terminated == ~Running /\ UNCHANGED vars

-----------------------------------------------------------------------------
LoopStep ==
  \/ SignalEvent \/ AioDone \/ ListenEvent \/ AcceptAgain \/ Clean
  \/ \E c \in Conn : AioStep(c) \/ AcceptConn(c) \/ ConnIn(c) \/ ConnOut(c)

Environment ==
  ClientConnects \/ SendTerm \/ \E c \in Conn : AioCompletes(c)

Next ==
  \/ LoopStep \/ EpollWait \/ EpollFails
  \/ AcceptDropped \/ AcceptFails
  \/ Environment \/ Terminated

Spec == Init /\ [][Next]_vars

(* The process keeps running: an event that was reported is handled.  The  *)
(* kernel's ready list is a queue, so a pending signal is reported if the  *)
(* loop keeps coming back to epoll_wait().  That the loop over accept()    *)
(* ends is not assumed.                                                    *)
FairSpec ==
  /\ Spec
  /\ WF_vars(LoopStep)
  /\ SF_vars(EpollWait /\ "signal" \in fds')

-----------------------------------------------------------------------------
(* Properties *)

InList(l) == {c \in Conn : conn[c].list = l}

(* Every value has its type, and the loop's locals are used where they are *)
(* live.                                                                   *)
TypeOK ==
  /\ pc \in {"loop", "aio", "accept", "clean", "done", "abort"}
  /\ events \in [Conn -> Masks]
  /\ fds \subseteq {"signal", "listen"}
  /\ aioConns \subseteq Conn
  /\ conn \in [Conn -> ConnRecord]
  /\ usedCount \in Int /\ waitCount \in Int /\ freeCount \in Int
  /\ flight \in [Conn -> Nat]
  /\ sig \in [Conn -> Nat]
  /\ backlog \in Nat
  /\ term \in BOOLEAN

(* The counters of running_t are the lengths of the three lists, through   *)
(* every path of gc_conn_i() and accept; run_tcp() pops the free list      *)
(* whenever the counter is positive (acceptor.cpp:299-302), so a counter   *)
(* that is ahead of its list is a null pointer.                            *)
CountsMatch ==
  /\ usedCount = Cardinality(InList("used"))
  /\ waitCount = Cardinality(InList("wait"))
  /\ freeCount = Cardinality(InList("free"))
  /\ freeCount <= MaxFree

(* on_connected() and on_disconnected() come in pairs (conn_event.h:46,62) *)
(* and no callback is made outside a pair: a connection is in the used     *)
(* list exactly while its handler believes it connected.                   *)
SessionPairs ==
  \A c \in Conn : conn[c].session =
    IF conn[c].list = "used" THEN "open" ELSE "idle"

(* No event that is left in the batch points to an object that an earlier  *)
(* event of the same batch gave up: the loop would call back into, or read *)
(* from, a pooled or deleted conn_t.                                       *)
BatchFresh ==
  \A c \in Conn : events[c] # "none" => conn[c].list = "used"

(* A connection waits for writability exactly while it has data to send;   *)
(* otherwise data would stay unsent, or received data unread, for ever.    *)
PendingArmed ==
  \A c \in Conn : conn[c].list = "used" =>
    conn[c].interest = IF conn[c].pend THEN "OUT" ELSE "IN"

(* An object that the kernel will still report an AIO task for is in the   *)
(* used or in the AIO-wait list and its counter says so: it can neither be *)
(* deleted nor serve another client meanwhile.                             *)
AioPinsConn ==
  Running => \A c \in Conn :
    /\ conn[c].running = flight[c] + sig[c]
    /\ conn[c].running > 0 => conn[c].list \in {"used", "wait"}

(* What a client's session leaves behind is gone before the object can     *)
(* serve the next client.                                                  *)
FreeIsClean ==
  \A c \in InList("free") : conn[c] = Pooled

(* When the loop goes back to epoll_wait(), every completed task that was  *)
(* read from the signal queue has been handed to the handler.              *)
AioDelivered ==
  pc = "loop" => \A c \in Conn : conn[c].completed = 0

(* A connection whose handler answered result_disconnect and that has      *)
(* nothing left to send is closed (conn_event.h:27-30).                    *)
DisconnectHonoured ==
  \A c \in InList("used") :
    "disconnect" \in conn[c].result => conn[c].pend

(* assert(!conn->link_node()->linked()) never fails (acceptor.cpp:505). *)
NoAssertFailure == pc # "abort"

(* SIGTERM ends the loop, unless run_tcp() stays in its loop over accept()  *)
(* (acceptor.cpp:278-352) for ever; and there it stays only if clients go   *)
(* on connecting for ever.  Then it may stay: "If Linux signal SIGINT or    *)
(* SIGTERM is recevied, the service will quit" (README.md:87) is too much.  *)
StopsOnTerm ==
  /\ term ~> (~Running \/ [](pc = "accept"))
  /\ <>[](pc = "accept") => []<><<ClientConnects>>_vars

-----------------------------------------------------------------------------
(* The life of the objects, as ConnLife promises it. *)
ObjectLife(k) ==
  CASE k.list = "none" -> "absent"
    [] k.list = "used" -> "open"
    [] k.list = "wait" -> "draining"
    [] k.list = "free" -> "pooled"

Life ==
  INSTANCE ConnLife WITH
    up    <- Running,
    life  <- [c \in Conn |-> ObjectLife(conn[c])],
    tasks <- [c \in Conn |-> flight[c] + sig[c]]

(* No object the kernel holds is pooled, deleted or handed to a client, and *)
(* the pool never outgrows max_free_connection (gc_conn_i, add_free_conn_i).*)
LifeSpec == Life!Spec
=============================================================================
