--------------------------- MODULE AcceptorProofs ---------------------------
(***************************************************************************)
(* Theorems about Acceptor.tla for every number of connections, every      *)
(* bound and every handler that starts no AIO task while its client is     *)
(* still being accepted (~EarlyAio; without that condition AioPinsConn is  *)
(* false, see the run acceptor_early_aio).                                 *)
(*                                                                         *)
(* The inductive invariant describes each connection object by the list it *)
(* is in (Shape), ties its task counter to the kernel (Pinned), and adds   *)
(* that batch events point to used objects and that counters count lists.  *)
(*                                                                         *)
(* The last two theorems are about handlers that do not answer             *)
(* result_disconnect where run_tcp() does not look at it.                  *)
(***************************************************************************)
EXTENDS Acceptor, FiniteSetTheorems, TLAPS

(* What a connection object looks like in each of the lists. *)
Shape(k) ==
  /\ k.list = "none" => k = Absent
  /\ k.list = "free" => k = Pooled
  /\ k.list = "used" =>
       /\ k.session = "open" /\ ~k.waiting
       /\ k.interest = IF k.pend THEN "OUT" ELSE "IN"
  /\ k.list = "wait" =>
       /\ k.session = "idle" /\ k.waiting
       /\ k.completed = 0 /\ k.interest = "none"

(* The object counts n running tasks, and n > 0 pins it. *)
Pinned(k, n) ==
  /\ k.running = n
  /\ n > 0 => k.list \in {"used", "wait"}

(* A writable event that is still to be handled finds data to send. *)
OutPending == \A c \in Conn : events[c] = "OUT" => conn[c].pend

(* The objects, what the kernel and the batch know of them, the counters. *)
Objects ==
  /\ conn \in [Conn -> ConnRecord]
  /\ flight \in [Conn -> Nat] /\ sig \in [Conn -> Nat]
  /\ events \in [Conn -> Masks]
  /\ usedCount \in Int /\ waitCount \in Int /\ freeCount \in Int
  /\ \A c \in Conn : Shape(conn[c])
  /\ Running => \A c \in Conn : Pinned(conn[c], flight[c] + sig[c])
  /\ BatchFresh
  /\ OutPending
  /\ CountsMatch

(* The locals of run_tcp() and the rest of the environment. *)
Locals ==
  /\ pc \in {"loop", "aio", "accept", "clean", "done", "abort"}
  /\ fds \subseteq {"signal", "listen"}
  /\ aioConns \subseteq Conn
  /\ backlog \in Nat
  /\ term \in BOOLEAN

IInv == Locals /\ Objects

LEMMA IInvType == IInv => TypeOK
  BY DEF IInv, Locals, Objects, TypeOK

-----------------------------------------------------------------------------
(* Connection records *)

LEMMA AbsentType == Absent \in ConnRecord /\ Pooled \in ConnRecord
  BY DEF Absent, Pooled, ConnRecord, Masks

LEMMA RecordsEqual ==
  ASSUME NEW a \in ConnRecord, NEW b \in ConnRecord,
         a.list = b.list, a.linked = b.linked, a.pend = b.pend,
         a.result = b.result, a.interest = b.interest,
         a.running = b.running, a.completed = b.completed,
         a.waiting = b.waiting, a.session = b.session
  PROVE  a = b
  BY DEF ConnRecord

(* What a callback changes: it makes the object no less typed and only     *)
(* adds running tasks.                                                     *)
LEMMA AnswerType ==
  ASSUME NEW k \in ConnRecord, NEW r \in SUBSET Flags, NEW a \in BOOLEAN,
         NEW n \in Nat
  PROVE  /\ Answer(k, r, a, n) \in ConnRecord
         /\ Answer(k, r, a, n).list = k.list
         /\ Answer(k, r, a, n).session = k.session
         /\ Answer(k, r, a, n).waiting = k.waiting
         /\ Answer(k, r, a, n).completed = k.completed
         /\ Answer(k, r, a, n).interest = k.interest
         /\ Answer(k, r, a, n).running = k.running + n
         /\ Answer(k, r, a, n).pend = (k.pend \/ a)
<1>1. \A p \in BOOLEAN, m \in Int :
        [k EXCEPT !.result = r, !.pend = p, !.running = m] \in ConnRecord
  BY DEF ConnRecord
<1>2. (k.pend \/ a) \in BOOLEAN
  OBVIOUS
<1>3. k.running + n \in Int
  BY DEF ConnRecord
<1>4. Answer(k, r, a, n) \in ConnRecord
  BY <1>1, <1>2, <1>3, Zenon DEF Answer
<1>5. /\ Answer(k, r, a, n).list = k.list
      /\ Answer(k, r, a, n).session = k.session
      /\ Answer(k, r, a, n).waiting = k.waiting
      /\ Answer(k, r, a, n).completed = k.completed
      /\ Answer(k, r, a, n).interest = k.interest
      /\ Answer(k, r, a, n).running = k.running + n
  BY DEF Answer, ConnRecord
<1>6. Answer(k, r, a, n).pend = (k.pend \/ a)
  BY DEF Answer, ConnRecord
<1> QED
  BY <1>4, <1>5, <1>6

(* k2 is k1 after callbacks and sends: same list and session, no fewer     *)
(* running tasks.                                                          *)
Served(k1, k2) ==
  /\ k2 \in ConnRecord
  /\ k2.list = k1.list /\ k2.session = k1.session
  /\ k2.waiting = k1.waiting /\ k2.completed = k1.completed
  /\ k2.interest = k1.interest
  /\ k2.running - k1.running \in Nat

LEMMA CalledType ==
  ASSUME NEW k \in ConnRecord, k.session = "open"
  PROVE  Called(k) = k
  BY DEF Called, ConnRecord

LEMMA AnswersServed ==
  ASSUME NEW k \in ConnRecord, NEW Res \in SUBSET SUBSET Flags,
         NEW a \in Answers(k, Res)
  PROVE  Served(k, a)
<1>1. PICK r \in Res, adds \in BOOLEAN, n \in 0 .. Room(k) :
        a = Answer(k, r, adds, n)
  BY DEF Answers
<1>2. Room(k) \in Int
  BY ConstantsAssumption DEF Room, ConnRecord
<1>3. n \in Nat /\ r \in SUBSET Flags
  BY <1>2
<1>4. k.running \in Int
  BY DEF ConnRecord
<1> QED
  BY <1>1, <1>3, <1>4, AnswerType DEF Served

LEMMA AnswersKeepPending ==
  ASSUME NEW k \in ConnRecord, NEW Res, NEW a \in Answers(k, Res)
  PROVE  k.pend => a.pend
<1>1. PICK r \in Res, adds \in BOOLEAN, n \in 0 .. Room(k) :
        a = Answer(k, r, adds, n)
  BY DEF Answers
<1>2. a.pend = (k.pend \/ adds)
  BY <1>1 DEF Answer, ConnRecord
<1> QED
  BY <1>2

(* A send is tried in the state the event left, or after get_more_data(). *)
LEMMA TriedServed ==
  ASSUME NEW k \in ConnRecord, k.session = "open", NEW t \in Tried(k)
  PROVE  Served(k, t) /\ (k.pend => t.pend)
<1>1. CASE t = k
  BY <1>1 DEF Served, ConnRecord
<1>2. CASE t \in Answers(k, ResMore) /\ t.pend
  <2>1. ResMore \in SUBSET SUBSET Flags
    BY ConstantsAssumption
  <2> QED
    BY <1>2, <2>1, AnswersServed
<1>3. Called(k) = k
  BY CalledType
<1>4. t = k \/ (t \in Answers(Called(k), ResMore) /\ t.pend)
  BY DEF Tried
<1> QED
  BY <1>1, <1>2, <1>3, <1>4

LEMMA SentServed ==
  ASSUME NEW k \in ConnRecord, k.session = "open", NEW s \in Sent(k)
  PROVE  Served(k, s) /\ ~s.pend
<1>1. PICK t \in Tried(k) : s = [t EXCEPT !.pend = FALSE]
  BY DEF Sent
<1>2. Served(k, t)
  BY TriedServed
<1> QED
  BY <1>1, <1>2 DEF Served, ConnRecord

-----------------------------------------------------------------------------
(* Counting: one object moves from its list to that of its new record *)

LEMMA CountsMove ==
  ASSUME conn \in [Conn -> ConnRecord], NEW c \in Conn, NEW k \in ConnRecord,
         conn' = [conn EXCEPT ![c] = k], NEW l
  PROVE  /\ Cardinality(InList(l)) \in Nat
         /\ conn[c].list = l /\ k.list # l =>
              Cardinality(InList(l)') = Cardinality(InList(l)) - 1
         /\ conn[c].list # l /\ k.list = l =>
              Cardinality(InList(l)') = Cardinality(InList(l)) + 1
         /\ (conn[c].list = l <=> k.list = l) =>
              Cardinality(InList(l)') = Cardinality(InList(l))
<1>1. IsFiniteSet(InList(l))
  BY FS_Subset, ConstantsAssumption DEF InList
<1>2. Cardinality(InList(l)) \in Nat
  BY <1>1, FS_CardinalityType
<1>3. InList(l)' = {d \in Conn : IF d = c THEN k.list = l ELSE conn[d].list = l}
  BY DEF InList
<1>4. ASSUME conn[c].list = l, k.list # l
      PROVE  Cardinality(InList(l)') = Cardinality(InList(l)) - 1
  <2>1. InList(l)' = InList(l) \ {c} /\ c \in InList(l)
    BY <1>3, <1>4 DEF InList
  <2> QED
    BY <2>1, <1>1, FS_RemoveElement
<1>5. ASSUME conn[c].list # l, k.list = l
      PROVE  Cardinality(InList(l)') = Cardinality(InList(l)) + 1
  <2>1. InList(l)' = InList(l) \cup {c} /\ c \notin InList(l)
    BY <1>3, <1>5 DEF InList
  <2> QED
    BY <2>1, <1>1, FS_AddElement
<1>6. ASSUME conn[c].list = l <=> k.list = l
      PROVE  InList(l)' = InList(l)
  BY <1>3, <1>6 DEF InList
<1> QED
  BY <1>2, <1>4, <1>5, <1>6

(* A counter that is positive has a member in its list. *)
LEMMA CountPositive ==
  ASSUME NEW c \in Conn, NEW l, conn[c].list = l
  PROVE  Cardinality(InList(l)) > 0
<1>1. IsFiniteSet(InList(l)) /\ c \in InList(l)
  BY FS_Subset, ConstantsAssumption DEF InList
<1>2. Cardinality(InList(l)) \in Nat /\ Cardinality(InList(l)) # 0
  BY <1>1, FS_CardinalityType, FS_EmptySet
<1> QED
  BY <1>2
In(k, l) == IF k.list = l THEN 1 ELSE 0

(* CountsMatch is kept when the counters follow the one object that moves. *)
LEMMA CountsStep ==
  ASSUME TypeOK, CountsMatch, NEW c \in Conn, NEW k \in ConnRecord,
         conn' = [conn EXCEPT ![c] = k],
         usedCount' = usedCount + In(k, "used") - In(conn[c], "used"),
         waitCount' = waitCount + In(k, "wait") - In(conn[c], "wait"),
         freeCount' = freeCount + In(k, "free") - In(conn[c], "free"),
         freeCount' <= MaxFree
  PROVE  CountsMatch'
<1>1. conn \in [Conn -> ConnRecord]
  BY DEF TypeOK
<1>2. ASSUME NEW l
      PROVE  Cardinality(InList(l)') =
               Cardinality(InList(l)) + In(k, l) - In(conn[c], l)
  <2>1. Cardinality(InList(l)) \in Nat
    BY <1>1, CountsMove
  <2>2. CASE conn[c].list = l /\ k.list # l
    <3>1. In(k, l) = 0 /\ In(conn[c], l) = 1
      BY <2>2 DEF In
    <3>2. Cardinality(InList(l)') = Cardinality(InList(l)) - 1
      BY <1>1, <2>2, CountsMove
    <3> QED
      BY <3>1, <3>2, <2>1
  <2>3. CASE conn[c].list # l /\ k.list = l
    <3>1. In(k, l) = 1 /\ In(conn[c], l) = 0
      BY <2>3 DEF In
    <3>2. Cardinality(InList(l)') = Cardinality(InList(l)) + 1
      BY <1>1, <2>3, CountsMove
    <3> QED
      BY <3>1, <3>2, <2>1
  <2>4. CASE conn[c].list = l <=> k.list = l
    <3>1. In(k, l) = In(conn[c], l) /\ In(k, l) \in {0, 1}
      BY <2>4 DEF In
    <3>2. Cardinality(InList(l)') = Cardinality(InList(l)) 
      BY <1>1, <2>4, CountsMove
    <3> QED
      BY <3>1, <3>2, <2>1
  <2> QED
    BY <2>2, <2>3, <2>4
<1> QED
  BY <1>2 DEF CountsMatch

-----------------------------------------------------------------------------
(* Giving up an object *)

LEMMA Recycled ==
  ASSUME NEW d \in ConnRecord, d.session = "idle", d.running = 0, ~d.waiting
  PROVE  /\ [Close(d) EXCEPT !.list = "free", !.linked = TRUE] = Pooled
         /\ [Absent EXCEPT !.session = d.session] = Absent
<1>1. [Absent EXCEPT !.session = d.session] = Absent
  BY DEF Absent
<1> DEFINE e == Close(d)
           p == [e EXCEPT !.list = "free", !.linked = TRUE]
<1>2. /\ e \in ConnRecord
      /\ e.pend = FALSE /\ e.result = {} /\ e.interest = "none"
      /\ e.completed = 0 /\ e.running = 0 /\ e.waiting = FALSE
      /\ e.session = "idle"
  BY DEF Close, ConnRecord, Masks
<1> HIDE DEF e
<1>3. /\ p \in ConnRecord
      /\ p.list = "free" /\ p.linked = TRUE /\ p.pend = FALSE
      /\ p.result = {} /\ p.interest = "none" /\ p.completed = 0
      /\ p.running = 0 /\ p.waiting = FALSE /\ p.session = "idle"
  BY <1>2 DEF ConnRecord
<1> HIDE DEF p
<1>4. p = Pooled
  BY <1>3, RecordsEqual, AbsentType DEF Pooled
<1> QED
  BY <1>1, <1>4 DEF p, e

LEMMA DisconnectedType ==
  ASSUME NEW k \in ConnRecord, k.session = "open"
  PROVE  /\ Disconnected(k) \in ConnRecord
         /\ Disconnected(k).session = "idle"
         /\ Disconnected(k).running = k.running
         /\ Disconnected(k).waiting = k.waiting
  BY DEF Disconnected, ConnRecord

(* add_free_conn_i() leaves a clean pooled object or none. *)
LEMMA AddFreeResult ==
  ASSUME NEW c \in Conn, NEW d \in ConnRecord, NEW n \in Int, n <= MaxFree,
         d.session = "idle", d.running = 0, ~d.waiting,
         AddFree(c, Close(d), n)
  PROVE  \E r \in {Absent, Pooled} :
           /\ conn' = [conn EXCEPT ![c] = r]
           /\ freeCount' = n + In(r, "free")
           /\ freeCount' <= MaxFree
<1>1. Absent.list = "none" /\ Pooled.list = "free"
  BY DEF Absent, Pooled
<1>2. Close(d).session = d.session
  BY DEF Close, ConnRecord
<1>3. CASE n < MaxFree
  <2>1. conn' = [conn EXCEPT ![c] = Pooled] /\ freeCount' = n + 1
    BY <1>3, Recycled DEF AddFree
  <2>2. In(Pooled, "free") = 1
    BY <1>1 DEF In
  <2> QED
    BY <2>1, <2>2, <1>3, ConstantsAssumption
<1>4. CASE ~(n < MaxFree)
  <2>1. conn' = [conn EXCEPT ![c] = Absent] /\ freeCount' = n
    BY <1>2, <1>4, Recycled DEF AddFree
  <2>2. In(Absent, "free") = 0
    BY <1>1 DEF In
  <2> QED
    BY <2>1, <2>2
<1> QED
  BY <1>3, <1>4
(* A connection in use, after the callbacks of an event. *)
InUse(k) ==
  /\ k \in ConnRecord
  /\ k.list = "used" /\ k.session = "open" /\ ~k.waiting

(* gc_conn_i() parks an object with running tasks and recycles any other; *)
(* the counters follow.                                                   *)
LEMMA GcResult ==
  ASSUME TypeOK, freeCount <= MaxFree, NEW c \in Conn, NEW k, InUse(k),
         k.running \in Nat, GcConn(c, k)
  PROVE  \E r \in ConnRecord :
           /\ conn' = [conn EXCEPT ![c] = r]
           /\ Shape(r) /\ r.list # "used"
           /\ r.list = "wait" => k.running > 0
           /\ Pinned(r, k.running)
           /\ usedCount' = usedCount - 1
           /\ waitCount' = waitCount + In(r, "wait")
           /\ freeCount' = freeCount + In(r, "free")
           /\ freeCount' <= MaxFree
<1>1. CASE k.running > 0
  <2> DEFINE d == Close(Disconnected(k))
             r == [d EXCEPT !.list = "wait", !.linked = TRUE, !.waiting = TRUE]
  <2>1. conn' = [conn EXCEPT ![c] = r]
    BY <1>1 DEF GcConn, Drains, InUse
  <2>2. /\ usedCount' = usedCount - 1
        /\ waitCount' = waitCount + 1
        /\ freeCount' = freeCount
    BY <1>1 DEF GcConn, Drains, InUse
  <2>3. /\ d \in ConnRecord
        /\ d.session = "idle" /\ d.completed = 0 /\ d.interest = "none"
        /\ d.running = k.running
    <3> DEFINE e == Disconnected(k)
    <3>1. e \in ConnRecord /\ e.session = "idle" /\ e.running = k.running
      BY DisconnectedType DEF InUse
    <3> HIDE DEF e
    <3>2. /\ Close(e) \in ConnRecord
          /\ Close(e).session = "idle" /\ Close(e).completed = 0
          /\ Close(e).interest = "none" /\ Close(e).running = k.running
      BY <3>1 DEF Close, ConnRecord, Masks
    <3> QED
      BY <3>2 DEF e
  <2> HIDE DEF d
  <2>4. /\ r \in ConnRecord
        /\ r.list = "wait" /\ r.waiting = TRUE /\ r.session = "idle"
        /\ r.completed = 0 /\ r.interest = "none" /\ r.running = k.running
    BY <2>3 DEF ConnRecord
  <2> HIDE DEF r
  <2>5. In(r, "wait") = 1 /\ In(r, "free") = 0
    BY <2>4 DEF In
  <2>6. Shape(r) /\ Pinned(r, k.running)
    BY <2>4 DEF Shape, Pinned
  <2>7. freeCount' = freeCount + 0
    BY <2>2 DEF TypeOK
  <2> QED
    BY <1>1, <2>1, <2>2, <2>4, <2>5, <2>6, <2>7
<1>2. CASE k.running = 0
  <2> DEFINE e == Disconnected(k)
             d == [e EXCEPT !.linked = FALSE]
  <2>1. /\ AddFree(c, Close(d), freeCount)
        /\ usedCount' = usedCount - 1
        /\ waitCount' = waitCount
    BY <1>2 DEF GcConn, Drains, InUse
  <2>2. e \in ConnRecord /\ e.session = "idle" /\ e.running = 0 /\ ~e.waiting
    BY <1>2, DisconnectedType DEF InUse
  <2> HIDE DEF e
  <2>3. d \in ConnRecord /\ d.session = "idle" /\ d.running = 0 /\ ~d.waiting
    BY <2>2 DEF ConnRecord
  <2> HIDE DEF d
  <2>4. freeCount \in Int
    BY DEF TypeOK
  <2>5. PICK r \in {Absent, Pooled} :
          /\ conn' = [conn EXCEPT ![c] = r]
          /\ freeCount' = freeCount + In(r, "free")
          /\ freeCount' <= MaxFree
    BY <2>1, <2>3, <2>4, AddFreeResult
  <2>6. r \in ConnRecord /\ r.list \in {"none", "free"} /\ r.running = 0
    <3>1. CASE r = Absent
      BY <3>1, AbsentType DEF Absent
    <3>2. CASE r = Pooled
      BY <3>2, AbsentType DEF Pooled
    <3> QED
      BY <3>1, <3>2
  <2>7. Shape(r)
    BY DEF Shape, Absent, Pooled
  <2>8. In(r, "wait") = 0 /\ Pinned(r, k.running)
    BY <1>2, <2>6 DEF In, Pinned
  <2>9. waitCount' = waitCount + 0
    BY <2>1 DEF TypeOK
  <2> QED
    BY <2>1, <2>5, <2>6, <2>7, <2>8, <2>9
<1> QED
  BY <1>1, <1>2
-----------------------------------------------------------------------------
(* One object changes *)

(* What the refinement of ConnLife needs to know of such a step. *)
OneMoves(c) ==
  /\ \A d \in Conn \ {c} : /\ conn'[d] = conn[d]
                           /\ flight'[d] = flight[d] /\ sig'[d] = sig[d]
  /\ Pinned(conn'[c], flight'[c] + sig'[c])
  /\ conn[c].list \in {"used", "none", "free"}
  /\ conn'[c].list = "wait" =>
       conn[c].list = "used" /\ conn'[c].running > 0

LEMMA ObjectStep ==
  ASSUME IInv, Running, NEW c \in Conn, NEW k \in ConnRecord, NEW m \in Nat,
         conn' = [conn EXCEPT ![c] = k], Shape(k),
         flight' = [flight EXCEPT ![c] = m], sig' = sig,
         Pinned(k, m + sig[c]),
         events' \in [Conn -> Masks],
         \A d \in Conn : events'[d] \in {"none", events[d]},
         events'[c] # "none" => k.list = "used",
         events'[c] = "OUT" => k.pend,
         usedCount' = usedCount + In(k, "used") - In(conn[c], "used"),
         waitCount' = waitCount + In(k, "wait") - In(conn[c], "wait"),
         freeCount' = freeCount + In(k, "free") - In(conn[c], "free"),
         freeCount' <= MaxFree,
         conn[c].list \in {"used", "none", "free"},
         k.list = "wait" => conn[c].list = "used" /\ k.running > 0
  PROVE  Objects' /\ OneMoves(c)
<1> USE DEF IInv, Objects
<1>1. conn' \in [Conn -> ConnRecord] /\ flight' \in [Conn -> Nat]
      /\ sig' \in [Conn -> Nat]
  OBVIOUS
<1>2. usedCount' \in Int /\ waitCount' \in Int /\ freeCount' \in Int
  BY DEF In
<1>3. ASSUME NEW d \in Conn
      PROVE  Shape(conn'[d]) /\ Pinned(conn'[d], flight'[d] + sig'[d])
  <2>1. CASE d = c
    BY <2>1
  <2>2. CASE d # c
    <3>1. conn'[d] = conn[d] /\ flight'[d] = flight[d] /\ sig'[d] = sig[d]
      BY <2>2
    <3>2. Shape(conn[d]) /\ Pinned(conn[d], flight[d] + sig[d])
      OBVIOUS
    <3> QED
      BY <3>1, <3>2
  <2> QED
    BY <2>1, <2>2
<1>4. BatchFresh' /\ OutPending'
  <2>1. ASSUME NEW d \in Conn
        PROVE  /\ events'[d] # "none" => conn'[d].list = "used"
               /\ events'[d] = "OUT" => conn'[d].pend
    <3>1. CASE d = c
      BY <3>1
    <3>2. CASE d # c
      BY <3>2 DEF BatchFresh, OutPending
    <3> QED
      BY <3>1, <3>2
  <2> QED
    BY <2>1 DEF BatchFresh, OutPending
<1>5. CountsMatch'
  BY CountsStep, IInvType
<1>6. OneMoves(c)
  BY <1>3 DEF OneMoves
<1> QED
  BY <1>1, <1>2, <1>3, <1>4, <1>5, <1>6

(* The tasks in flight after Launch, when the object's counter was right. *)
LEMMA LaunchResult ==
  ASSUME IInv, Running, NEW c \in Conn, NEW k \in ConnRecord,
         k.running - conn[c].running \in Nat, Launch(c, k)
  PROVE  \E m \in Nat : /\ flight' = [flight EXCEPT ![c] = m]
                        /\ m + sig[c] = k.running
                        /\ k.running \in Nat
<1> DEFINE m == flight[c] + (k.running - conn[c].running)
<1>1. flight[c] \in Nat /\ sig[c] \in Nat /\ k.running \in Int
      /\ conn[c].running = flight[c] + sig[c]
  BY DEF IInv, Objects, Pinned, ConnRecord
<1>2. m \in Nat /\ m + sig[c] = k.running /\ k.running \in Nat
  BY <1>1
<1>3. flight' = [flight EXCEPT ![c] = m]
  BY DEF Launch
<1> QED
  BY <1>2, <1>3

(* A connection in use stays in use, armed for what it waits for. *)
LEMMA KeepStep ==
  ASSUME IInv, Running, NEW c \in Conn, conn[c].list = "used",
         NEW k, InUse(k), k.running - conn[c].running \in Nat, Launch(c, k),
         k.interest = IF k.pend THEN "OUT" ELSE "IN",
         KeepConn(c, k), sig' = sig,
         events' \in [Conn -> Masks],
         \A d \in Conn : events'[d] \in {"none", events[d]},
         events'[c] = "OUT" => k.pend
  PROVE  Objects' /\ OneMoves(c)
<1>1. k \in ConnRecord /\ k.list = "used"
  BY DEF InUse
<1>2. PICK m \in Nat : /\ flight' = [flight EXCEPT ![c] = m]
                       /\ m + sig[c] = k.running
                       /\ k.running \in Nat
  BY <1>1, LaunchResult
<1>3. Shape(k) /\ Pinned(k, m + sig[c])
  BY <1>1, <1>2 DEF Shape, Pinned, InUse
<1>4. /\ conn' = [conn EXCEPT ![c] = k]
      /\ usedCount' = usedCount /\ waitCount' = waitCount
      /\ freeCount' = freeCount
  BY DEF KeepConn, counts
<1>5. In(k, "used") = In(conn[c], "used") /\ In(k, "wait") = In(conn[c], "wait")
      /\ In(k, "free") = In(conn[c], "free") /\ In(k, "used") \in Int
      /\ In(k, "wait") \in Int /\ In(k, "free") \in Int
  BY <1>1 DEF In
<1>6. /\ usedCount' = usedCount + In(k, "used") - In(conn[c], "used")
      /\ waitCount' = waitCount + In(k, "wait") - In(conn[c], "wait")
      /\ freeCount' = freeCount + In(k, "free") - In(conn[c], "free")
      /\ freeCount' <= MaxFree
  BY <1>4, <1>5 DEF IInv, Objects, CountsMatch
<1> QED
  BY <1>1, <1>2, <1>3, <1>4, <1>6, ObjectStep

(* A connection in use is given up. *)
LEMMA GcStep ==
  ASSUME IInv, Running, NEW c \in Conn, conn[c].list = "used",
         NEW k, InUse(k), k.running - conn[c].running \in Nat, Launch(c, k),
         GcConn(c, k), sig' = sig,
         events' \in [Conn -> Masks], events'[c] = "none",
         \A d \in Conn : events'[d] \in {"none", events[d]}
  PROVE  Objects' /\ OneMoves(c)
<1>1. k \in ConnRecord
  BY DEF InUse
<1>2. PICK m \in Nat : /\ flight' = [flight EXCEPT ![c] = m]
                       /\ m + sig[c] = k.running
                       /\ k.running \in Nat
  BY <1>1, LaunchResult
<1>3. TypeOK /\ freeCount <= MaxFree
  BY IInvType DEF IInv, Objects, CountsMatch
<1>4. PICK r \in ConnRecord :
           /\ conn' = [conn EXCEPT ![c] = r]
           /\ Shape(r) /\ r.list # "used"
           /\ r.list = "wait" => k.running > 0
           /\ Pinned(r, k.running)
           /\ usedCount' = usedCount - 1
           /\ waitCount' = waitCount + In(r, "wait")
           /\ freeCount' = freeCount + In(r, "free")
           /\ freeCount' <= MaxFree
  BY <1>2, <1>3, GcResult
<1>5. /\ In(r, "used") = 0 /\ In(r, "wait") \in Int /\ In(r, "free") \in Int
      /\ In(conn[c], "used") = 1 /\ In(conn[c], "wait") = 0
      /\ In(conn[c], "free") = 0
  BY <1>4 DEF In
<1>6. /\ usedCount' = usedCount + In(r, "used") - In(conn[c], "used")
      /\ waitCount' = waitCount + In(r, "wait") - In(conn[c], "wait")
      /\ freeCount' = freeCount + In(r, "free") - In(conn[c], "free")
  BY <1>3, <1>4, <1>5 DEF TypeOK
<1>7. Pinned(r, m + sig[c]) /\ (r.list = "wait" => r.running > 0)
  BY <1>2, <1>4 DEF Pinned
<1> QED
  BY <1>2, <1>4, <1>6, <1>7, ObjectStep
-----------------------------------------------------------------------------
(* The actions *)

(* An open connection satisfies what the lemmas above ask of one in use. *)
LEMMA UsedInUse ==
  ASSUME IInv, NEW c \in Conn, conn[c].list = "used"
  PROVE  InUse(conn[c]) /\ Called(conn[c]) = conn[c]
  BY CalledType DEF IInv, Objects, Shape, InUse

LEMMA ServedInUse ==
  ASSUME NEW k, InUse(k), NEW t, Served(k, t)
  PROVE  InUse(t) /\ t.running - k.running \in Nat
  BY DEF InUse, Served

LEMMA ArmedInUse ==
  ASSUME NEW k, InUse(k), ~k.pend => k.interest = "IN"
  PROVE  LET a == ArmForSending(k)
         IN  InUse(a) /\ a.running = k.running
             /\ a.interest = IF a.pend THEN "OUT" ELSE "IN"
<1>1. CASE k.pend
  BY <1>1 DEF ArmForSending, InUse, ConnRecord, Masks
<1>2. CASE ~k.pend
  BY <1>2 DEF ArmForSending, InUse, ConnRecord, Masks
<1> QED
  BY <1>1, <1>2

LEMMA LaunchSame ==
  ASSUME NEW c, NEW k, NEW t, k.running = t.running, Launch(c, k)
  PROVE  Launch(c, t)
  BY DEF Launch

LEMMA ConnInStep ==
  ASSUME IInv, NEW c \in Conn, ConnIn(c)
  PROVE  Objects' /\ OneMoves(c)
<1>1. Running /\ conn[c].list = "used" /\ conn[c] \in ConnRecord
  BY DEF IInv, Objects, BatchFresh, ConnIn, Running
<1>2. /\ events' \in [Conn -> Masks] /\ events'[c] = "none"
      /\ \A d \in Conn : events'[d] \in {"none", events[d]}
      /\ sig' = sig
  BY DEF ConnIn, IInv, Objects, Masks
<1>3. InUse(conn[c]) /\ Called(conn[c]) = conn[c]
  BY <1>1, UsedInUse
<1>4. ASSUME NEW k \in {conn[c]} \cup Answers(Called(conn[c]), ResReceived)
      PROVE  InUse(k) /\ k.running - conn[c].running \in Nat
             /\ (conn[c].interest = k.interest) /\ (conn[c].pend => k.pend)
  <2>1. CASE k = conn[c]
    BY <2>1, <1>3 DEF InUse, ConnRecord
  <2>2. CASE k \in Answers(conn[c], ResReceived)
    <3>1. Served(conn[c], k)
      BY <2>2, <1>1, AnswersServed, ConstantsAssumption
    <3>2. conn[c].pend => k.pend
      BY <2>2, <1>1, AnswersKeepPending
    <3> QED
      BY <3>1, <3>2, <1>3, ServedInUse DEF Served
  <2> QED
    BY <2>1, <2>2, <1>3
<1>5. ASSUME NEW k \in {conn[c]} \cup Answers(Called(conn[c]), ResReceived),
             Launch(c, k), GcConn(c, k)
      PROVE  Objects' /\ OneMoves(c)
  BY <1>1, <1>2, <1>4, <1>5, GcStep
<1>6. ASSUME NEW k \in {conn[c]} \cup Answers(Called(conn[c]), ResReceived),
             Launch(c, k), KeepConn(c, ArmForSending(k))
      PROVE  Objects' /\ OneMoves(c)
  <2> DEFINE a == ArmForSending(k)
  <2>1. InUse(k) /\ k.running - conn[c].running \in Nat
    BY <1>4
  <2>2. ~k.pend => k.interest = "IN"
    BY <1>1, <1>4 DEF IInv, Objects, Shape
  <2>3. InUse(a) /\ a.running = k.running
        /\ a.interest = IF a.pend THEN "OUT" ELSE "IN"
    BY <2>1, <2>2, ArmedInUse
  <2>4. Launch(c, a) /\ KeepConn(c, a)
    BY <1>6, <2>3, LaunchSame
  <2> HIDE DEF a
  <2> QED
    BY <1>1, <1>2, <2>1, <2>3, <2>4, KeepStep
<1> QED
  BY <1>5, <1>6 DEF ConnIn
LEMMA ConnOutStep ==
  ASSUME IInv, NEW c \in Conn, ConnOut(c)
  PROVE  Objects' /\ OneMoves(c)
<1>1. Running /\ conn[c].list = "used" /\ conn[c] \in ConnRecord
  BY DEF IInv, Objects, BatchFresh, ConnOut, Running
<1>2. /\ events' \in [Conn -> Masks] /\ events'[c] = "none"
      /\ \A d \in Conn : events'[d] \in {"none", events[d]}
      /\ sig' = sig
  BY DEF ConnOut, IInv, Objects, Masks
<1>3. InUse(conn[c])
  BY <1>1, UsedInUse
<1>4. ASSUME NEW k \in Tried(conn[c])
      PROVE  /\ InUse(k) /\ k.running - conn[c].running \in Nat
             /\ conn[c].interest = k.interest /\ (conn[c].pend => k.pend)
  BY <1>1, <1>3, TriedServed, ServedInUse DEF InUse, Served
<1>5. ASSUME NEW k \in Sent(conn[c])
      PROVE  InUse(k) /\ k.running - conn[c].running \in Nat /\ ~k.pend
  BY <1>1, <1>3, SentServed, ServedInUse DEF InUse
<1>6. ASSUME NEW k \in Tried(conn[c]) \cup Sent(conn[c]), Launch(c, k), GcConn(c, k)
      PROVE  Objects' /\ OneMoves(c)
  BY <1>1, <1>2, <1>4, <1>5, <1>6, GcStep
<1>7. ASSUME NEW k \in Tried(conn[c]), Launch(c, k), KeepConn(c, k)
      PROVE  Objects' /\ OneMoves(c)
  <2>1. k.interest = IF k.pend THEN "OUT" ELSE "IN"
    <3>1. conn[c].interest = IF conn[c].pend THEN "OUT" ELSE "IN"
      BY <1>1 DEF IInv, Objects, Shape
    <3>2. conn[c].pend
      BY DEF ConnOut, IInv, Objects, OutPending
    <3> QED
      BY <3>1, <3>2, <1>4
  <2> QED
    BY <1>1, <1>2, <1>4, <1>7, <2>1, KeepStep
<1>8. ASSUME NEW k \in Sent(conn[c]), Launch(c, k),
             KeepConn(c, [k EXCEPT !.interest = "IN"])
      PROVE  Objects' /\ OneMoves(c)
  <2> DEFINE a == [k EXCEPT !.interest = "IN"]
  <2>1. InUse(k) /\ k.running - conn[c].running \in Nat /\ ~k.pend
    BY <1>5
  <2>2. InUse(a) /\ a.running = k.running /\ a.interest = "IN" /\ ~a.pend
    BY <2>1 DEF InUse, ConnRecord, Masks
  <2>3. Launch(c, a) /\ KeepConn(c, a)
    BY <1>8, <2>2, LaunchSame
  <2> HIDE DEF a
  <2> QED
    BY <1>1, <1>2, <2>1, <2>2, <2>3, KeepStep
<1> QED
  BY <1>6, <1>7, <1>8 DEF ConnOut
LEMMA AioStepStep ==
  ASSUME IInv, NEW c \in Conn, AioStep(c)
  PROVE  Objects' /\ (OneMoves(c) \/ UNCHANGED <<conn, flight, sig>>)
<1>1. Running /\ conn[c] \in ConnRecord
  BY DEF IInv, Objects, AioStep, Running
<1>2. /\ events' = events /\ sig' = sig /\ events \in [Conn -> Masks]
      /\ events[c] = "OUT" => conn[c].pend
  BY DEF AioStep, IInv, Objects, OutPending
<1>3. CASE conn[c].completed = 0
  <2>1. UNCHANGED <<conn, counts, flight, pc>>
    BY <1>3 DEF AioStep
  <2> QED
    BY <1>2, <2>1 DEF IInv, Objects, counts, Running, BatchFresh, OutPending,
                      CountsMatch, InList
<1>4. CASE conn[c].completed # 0
  <2> DEFINE p == PopCompleted(conn[c])
  <2>1. conn[c].list = "used"
    BY <1>1, <1>4 DEF IInv, Objects, Shape, Absent, Pooled, ConnRecord
  <2>2. InUse(conn[c])
    BY <2>1, UsedInUse
  <2>3. /\ InUse(p) /\ p.running = conn[c].running /\ p.pend = conn[c].pend
        /\ p.interest = conn[c].interest
    BY <2>2 DEF InUse, ConnRecord, PopCompleted
  <2>4. PICK k \in Answers(Called(p), ResAio) : Launch(c, k) /\ AioAnswered(c, k)
    BY <1>4 DEF AioStep
  <2> HIDE DEF p
  <2>5. Called(p) = p
    BY <2>3, CalledType DEF InUse
  <2>6. Served(p, k) /\ (p.pend => k.pend)
    BY <2>3, <2>4, <2>5, AnswersServed, AnswersKeepPending,
       ConstantsAssumption DEF InUse
  <2>7. InUse(k) /\ k.running - conn[c].running \in Nat
    BY <2>3, <2>6, ServedInUse
  <2>8. ~k.pend => k.interest = "IN"
    BY <2>1, <2>3, <2>6 DEF IInv, Objects, Shape, Served
  <2> DEFINE a == ArmForSending(k)
  <2>9. InUse(a) /\ a.running = k.running
        /\ a.interest = IF a.pend THEN "OUT" ELSE "IN"
    BY <2>7, <2>8, ArmedInUse
  <2>10. a.pend = k.pend
    BY <2>7 DEF ArmForSending, InUse, ConnRecord
  <2>11. Launch(c, a) /\ KeepConn(c, a)
    BY <2>4, <2>9, LaunchSame DEF AioAnswered
  <2> HIDE DEF a
  <2>12. events'[c] = "OUT" => a.pend
    BY <1>2, <2>3, <2>6, <2>10
  <2>13. /\ events' \in [Conn -> Masks]
         /\ \A d \in Conn : events'[d] \in {"none", events[d]}
    BY <1>2
  <2> QED
    BY <1>1, <1>2, <2>1, <2>7, <2>9, <2>11, <2>12, <2>13, KeepStep
<1> QED
  BY <1>3, <1>4

(* The object a new client gets is as good as a new one. *)
LEMMA TakenClean ==
  ASSUME IInv, NEW c \in Conn, NewConn(c)
  PROVE  /\ Taken(c) \in ConnRecord
         /\ Taken(c).list = "none" /\ Taken(c).session = "idle"
         /\ Taken(c).running = 0 /\ ~Taken(c).waiting
         /\ conn[c].running = 0 /\ conn[c].list \in {"none", "free"}
         /\ FreeLeft \in Int /\ FreeLeft <= MaxFree
         /\ FreeLeft = freeCount - In(conn[c], "free")
<1>1. /\ freeCount \in Int /\ freeCount <= MaxFree
      /\ conn[c].list = "none" => conn[c] = Absent
      /\ conn[c].list = "free" => conn[c] = Pooled
  BY DEF IInv, Objects, CountsMatch, Shape
<1>2. CASE freeCount > 0
  <2>1. conn[c] = Pooled /\ Taken(c) = [Pooled EXCEPT !.list = "none"]
    BY <1>1, <1>2 DEF NewConn, Taken
  <2>2. FreeLeft = freeCount - 1
    BY <1>2 DEF FreeLeft
  <2>3. In(conn[c], "free") = 1 /\ conn[c].running = 0 /\ conn[c].list = "free"
    BY <2>1 DEF In, Pooled
  <2>4. /\ Taken(c) \in ConnRecord
        /\ Taken(c).list = "none" /\ Taken(c).session = "idle"
        /\ Taken(c).running = 0 /\ ~Taken(c).waiting
    <3> DEFINE p == Pooled
    <3>1. /\ p \in ConnRecord /\ p.session = "idle" /\ p.running = 0
          /\ ~p.waiting
      BY AbsentType DEF Pooled
    <3>2. Taken(c) = [p EXCEPT !.list = "none"]
      BY <2>1
    <3> HIDE DEF p
    <3> QED
      BY <3>1, <3>2 DEF ConnRecord
  <2> QED
    BY <1>1, <2>2, <2>3, <2>4, ConstantsAssumption
<1>3. CASE ~(freeCount > 0)
  <2>1. conn[c] = Absent /\ Taken(c) = Absent /\ FreeLeft = freeCount
    BY <1>1, <1>3 DEF NewConn, Taken, FreeLeft
  <2>2. In(conn[c], "free") = 0 /\ conn[c].running = 0 /\ conn[c].list = "none"
    BY <2>1 DEF In, Absent
  <2>3. /\ Taken(c) \in ConnRecord
        /\ Taken(c).list = "none" /\ Taken(c).session = "idle"
        /\ Taken(c).running = 0 /\ ~Taken(c).waiting
    BY <2>1, AbsentType DEF Absent
  <2> QED
    BY <1>1, <2>1, <2>2, <2>3
<1> QED
  BY <1>2, <1>3

LEMMA ConnectedType ==
  ASSUME NEW k \in ConnRecord, k.session = "idle"
  PROVE  /\ Connected(k) \in ConnRecord
         /\ Connected(k).session = "open"
         /\ Connected(k).list = k.list
         /\ Connected(k).running = k.running
         /\ Connected(k).waiting = k.waiting
  BY DEF Connected, ConnRecord
LEMMA AcceptConnStep ==
  ASSUME IInv, ~EarlyAio, NEW c \in Conn, AcceptConn(c)
  PROVE  Objects' /\ OneMoves(c) /\ pc' \in {"accept", "abort"}
<1>1. /\ pc = "accept" /\ Running /\ NewConn(c)
      /\ events' = events /\ sig' = sig
  BY DEF AcceptConn, Running
<1>2. conn[c].list \in {"none", "free"} /\ conn[c].running = 0
  BY <1>1, TakenClean
<1>3. /\ events' \in [Conn -> Masks] /\ events'[c] = "none"
      /\ \A d \in Conn : events'[d] \in {"none", events[d]}
  BY <1>1, <1>2 DEF IInv, Objects, BatchFresh
<1>4. PICK k \in Answers(Connected(Taken(c)), ResConnected), lost \in BOOLEAN :
        \E t \in IF k.pend THEN Tried(k) \cup Sent(k) ELSE {k} :
         /\ EarlyAio \/ t.running = Taken(c).running
         /\ Launch(c, t)
         /\ IF lost \/ Quits(k)
            THEN /\ GcNewConn(c, t, FreeLeft)
                 /\ pc' = IF Debug /\ t.linked THEN "abort" ELSE pc
            ELSE /\ conn' = [conn EXCEPT ![c] =
                      [t EXCEPT !.list = "used", !.linked = TRUE,
                                !.interest = IF t.pend THEN "OUT" ELSE "IN"]]
                 /\ usedCount' = usedCount + 1
                 /\ freeCount' = FreeLeft
                 /\ UNCHANGED <<pc, waitCount>>
  BY DEF AcceptConn
<1>5. PICK t \in IF k.pend THEN Tried(k) \cup Sent(k) ELSE {k} :
         /\ t.running = Taken(c).running
         /\ Launch(c, t)
         /\ IF lost \/ Quits(k)
            THEN /\ GcNewConn(c, t, FreeLeft)
                 /\ pc' = IF Debug /\ t.linked THEN "abort" ELSE pc
            ELSE /\ conn' = [conn EXCEPT ![c] =
                      [t EXCEPT !.list = "used", !.linked = TRUE,
                                !.interest = IF t.pend THEN "OUT" ELSE "IN"]]
                 /\ usedCount' = usedCount + 1
                 /\ freeCount' = FreeLeft
                 /\ UNCHANGED <<pc, waitCount>>
  BY <1>4
<1>6. Served(Connected(Taken(c)), k) /\ k \in ConnRecord /\ k.session = "open"
  <2>1. /\ Connected(Taken(c)) \in ConnRecord
        /\ Connected(Taken(c)).session = "open"
    BY <1>1, TakenClean, ConnectedType
  <2>2. Served(Connected(Taken(c)), k)
    BY <2>1, AnswersServed, ConstantsAssumption
  <2> QED
    BY <2>1, <2>2 DEF Served
<1>7. Served(k, t)
  <2>1. CASE t = k
    BY <1>6, <2>1 DEF Served, ConnRecord
  <2>2. CASE t \in Tried(k) \cup Sent(k)
    BY <1>6, <2>2, TriedServed, SentServed
  <2> QED
    BY <2>1, <2>2
<1>8. /\ t \in ConnRecord /\ t.session = "open" /\ t.list = "none"
      /\ t.running = 0 /\ ~t.waiting
  BY <1>1, <1>5, <1>6, <1>7, TakenClean, ConnectedType DEF Served
<1>9. PICK m \in Nat : /\ flight' = [flight EXCEPT ![c] = m]
                       /\ m + sig[c] = t.running
  BY <1>1, <1>2, <1>5, <1>8, LaunchResult
<1>10. /\ FreeLeft \in Int /\ FreeLeft <= MaxFree
       /\ FreeLeft = freeCount - In(conn[c], "free")
       /\ In(conn[c], "used") = 0 /\ In(conn[c], "wait") = 0
       /\ In(conn[c], "free") \in Int
       /\ usedCount \in Int /\ waitCount \in Int /\ freeCount \in Int
  BY <1>1, <1>2, TakenClean DEF In, IInv, Objects
<1>11. CASE lost \/ Quits(k)
  <2> DEFINE d == Disconnected(t)
  <2>1. /\ AddFree(c, Close(d), FreeLeft)
        /\ usedCount' = usedCount /\ waitCount' = waitCount
    BY <1>5, <1>11 DEF GcNewConn
  <2>2. d \in ConnRecord /\ d.session = "idle" /\ d.running = 0 /\ ~d.waiting
    BY <1>8, DisconnectedType
  <2> HIDE DEF d
  <2>3. PICK r \in {Absent, Pooled} :
          /\ conn' = [conn EXCEPT ![c] = r]
          /\ freeCount' = FreeLeft + In(r, "free")
          /\ freeCount' <= MaxFree
    BY <2>1, <2>2, <1>10, AddFreeResult
  <2>4. /\ r \in ConnRecord /\ r.list \in {"none", "free"} /\ r.running = 0
        /\ Shape(r)
    <3>1. CASE r = Absent
      BY <3>1, AbsentType DEF Absent, Shape
    <3>2. CASE r = Pooled
      BY <3>2, AbsentType DEF Pooled, Shape
    <3> QED
      BY <3>1, <3>2
  <2>5. Pinned(r, m + sig[c])
    BY <1>8, <1>9, <2>4 DEF Pinned
  <2>6. In(r, "used") = 0 /\ In(r, "wait") = 0 /\ In(r, "free") \in Int
    BY <2>4 DEF In
  <2>7. /\ usedCount' = usedCount + In(r, "used") - In(conn[c], "used")
        /\ waitCount' = waitCount + In(r, "wait") - In(conn[c], "wait")
        /\ freeCount' = freeCount + In(r, "free") - In(conn[c], "free")
    BY <1>10, <2>1, <2>3, <2>6
  <2>8. Objects' /\ OneMoves(c)
    BY <1>1, <1>2, <1>3, <1>9, <2>3, <2>4, <2>5, <2>7, ObjectStep
  <2> QED
    BY <1>1, <1>5, <1>11, <2>8
<1>12. CASE ~(lost \/ Quits(k))
  <2> DEFINE u == [t EXCEPT !.list = "used", !.linked = TRUE,
                            !.interest = IF t.pend THEN "OUT" ELSE "IN"]
  <2>1. /\ conn' = [conn EXCEPT ![c] = u] /\ usedCount' = usedCount + 1
        /\ freeCount' = FreeLeft /\ waitCount' = waitCount /\ pc' = pc
    BY <1>5, <1>12
  <2>2. /\ u \in ConnRecord /\ u.list = "used" /\ u.session = "open"
        /\ ~u.waiting /\ u.running = 0
        /\ u.interest = IF u.pend THEN "OUT" ELSE "IN"
    BY <1>8 DEF ConnRecord, Masks
  <2> HIDE DEF u
  <2>3. Shape(u) /\ Pinned(u, m + sig[c])
    BY <1>8, <1>9, <2>2 DEF Shape, Pinned
  <2>4. In(u, "used") = 1 /\ In(u, "wait") = 0 /\ In(u, "free") = 0
    BY <2>2 DEF In
  <2>5. /\ usedCount' = usedCount + In(u, "used") - In(conn[c], "used")
        /\ waitCount' = waitCount + In(u, "wait") - In(conn[c], "wait")
        /\ freeCount' = freeCount + In(u, "free") - In(conn[c], "free")
        /\ freeCount' <= MaxFree
    BY <1>10, <2>1, <2>4
  <2>6. Objects' /\ OneMoves(c)
    BY <1>1, <1>2, <1>3, <1>9, <2>1, <2>2, <2>3, <2>5, ObjectStep
  <2> QED
    BY <1>1, <2>1, <2>6
<1> QED
  BY <1>11, <1>12
LEMMA CompletedType ==
  ASSUME NEW k \in ConnRecord, NEW n \in Nat, Shape(k), n > 0 => k.list \in {"used", "wait"}
  PROVE  LET r == OnAioCompleted(k, n)
         IN  /\ r \in ConnRecord /\ Shape(r)
             /\ r.list = k.list /\ r.running = k.running - n /\ r.pend = k.pend
<1> DEFINE r == OnAioCompleted(k, n)
<1>1. /\ r \in ConnRecord
      /\ r.list = k.list /\ r.running = k.running - n /\ r.pend = k.pend
      /\ r.linked = k.linked /\ r.result = k.result /\ r.interest = k.interest
      /\ r.waiting = k.waiting /\ r.session = k.session
      /\ r.completed = IF k.waiting THEN k.completed ELSE k.completed + n
  <2> DEFINE run == k.running - n
             done == k.completed + n
  <2>1. run \in Int /\ done \in Nat
    BY DEF ConnRecord
  <2>2. OnAioCompleted(k, n) =
          IF k.waiting THEN [k EXCEPT !.running = run]
                       ELSE [k EXCEPT !.running = run, !.completed = done]
    BY DEF OnAioCompleted
  <2> HIDE DEF run, done
  <2>3. CASE k.waiting
    <3>1. r = [k EXCEPT !.running = run]
      BY <2>2, <2>3
    <3> QED
      BY <2>1, <2>3, <3>1 DEF ConnRecord, run
  <2>4. CASE ~k.waiting
    <3>1. r = [k EXCEPT !.running = run, !.completed = done]
      BY <2>2, <2>4
    <3> QED
      BY <2>1, <2>4, <3>1 DEF ConnRecord, run, done
  <2> QED
    BY <2>3, <2>4
<1> HIDE DEF r
<1>2. CASE k.list \in {"used", "wait"}
  <2>1. Shape(r)
    BY <1>1, <1>2 DEF Shape
  <2> QED
    BY <1>1, <2>1 DEF r
<1>3. CASE k.list \in {"none", "free"}
  <2>1. n = 0
    BY <1>3
  <2>2. k.completed \in Nat /\ k.running \in Int
    BY DEF ConnRecord
  <2>3. r.completed = k.completed /\ r.running = k.running
    BY <1>1, <2>1, <2>2
  <2>4. r = k
    BY <1>1, <2>3, RecordsEqual
  <2>5. Shape(r)
    BY <2>4
  <2> QED
    BY <1>1, <2>5 DEF r
<1> QED
  BY <1>2, <1>3 DEF ConnRecord

LEMMA SignalEventStep ==
  ASSUME IInv, SignalEvent
  PROVE  Objects'
<1> USE DEF IInv, Objects
<1>1. Running
  BY DEF SignalEvent, Running
<1>2. ASSUME NEW c \in Conn
      PROVE  /\ conn'[c] \in ConnRecord /\ Shape(conn'[c])
             /\ conn'[c].list = conn[c].list /\ conn'[c].pend = conn[c].pend
             /\ conn'[c].running = flight[c]
             /\ flight[c] > 0 => conn[c].list \in {"used", "wait"}
  <2>1. conn'[c] = OnAioCompleted(conn[c], sig[c])
    BY DEF SignalEvent
  <2>2. /\ conn[c] \in ConnRecord /\ Shape(conn[c])
        /\ sig[c] \in Nat /\ flight[c] \in Nat
        /\ conn[c].running = flight[c] + sig[c]
        /\ flight[c] + sig[c] > 0 => conn[c].list \in {"used", "wait"}
    BY <1>1 DEF Pinned
  <2>3. sig[c] > 0 => conn[c].list \in {"used", "wait"}
    BY <2>2
  <2>4. conn[c].running - sig[c] = flight[c]
    BY <2>2
  <2> QED
    BY <2>1, <2>2, <2>3, <2>4, CompletedType
<1>3. /\ sig' = [c \in Conn |-> 0] /\ flight' = flight /\ events' = events
      /\ usedCount' = usedCount /\ waitCount' = waitCount
      /\ freeCount' = freeCount /\ conn' = [c \in Conn |-> conn'[c]]
  BY DEF SignalEvent, counts
<1>4. \A l : InList(l)' = InList(l)
  BY <1>2 DEF InList
<1>5. CountsMatch'
  BY <1>3, <1>4 DEF CountsMatch
<1>6. \A c \in Conn : Pinned(conn'[c], flight'[c] + sig'[c])
  BY <1>2, <1>3 DEF Pinned
<1>7. BatchFresh' /\ OutPending'
  BY <1>2, <1>3 DEF BatchFresh, OutPending
<1>8. conn' \in [Conn -> ConnRecord] /\ sig' \in [Conn -> Nat]
  BY <1>2, <1>3
<1> QED
  BY <1>2, <1>3, <1>5, <1>6, <1>7, <1>8

LEMMA EpollWaitStep ==
  ASSUME IInv, EpollWait
  PROVE  Objects'
<1> USE DEF IInv, Objects
<1>1. PICK cs \in SUBSET Registered :
        events' = [c \in Conn |-> IF c \in cs THEN conn[c].interest ELSE "none"]
  BY DEF EpollWait
<1>2. UNCHANGED <<conn, usedCount, waitCount, freeCount, flight, sig, pc>>
  BY DEF EpollWait, counts
<1>3. ASSUME NEW c \in Conn
      PROVE  /\ events'[c] \in Masks
             /\ events'[c] # "none" => conn[c].list = "used"
             /\ events'[c] = "OUT" => conn[c].pend
  <2>1. conn[c] \in ConnRecord /\ Shape(conn[c])
    OBVIOUS
  <2>2. conn[c].interest # "none" => conn[c].list = "used"
    BY <2>1 DEF Shape, Absent, Pooled, ConnRecord
  <2>3. conn[c].interest = "OUT" => conn[c].pend
    BY <2>1, <2>2 DEF Shape
  <2> QED
    BY <1>1, <2>1, <2>2, <2>3 DEF ConnRecord, Masks
<1>4. events' \in [Conn -> Masks]
  BY <1>1, <1>3
<1>5. BatchFresh' /\ OutPending'
  BY <1>2, <1>3 DEF BatchFresh, OutPending
<1>6. CountsMatch'
  BY <1>2 DEF CountsMatch, InList
<1> QED
  BY <1>2, <1>4, <1>5, <1>6 DEF Running

LEMMA CleanStep ==
  ASSUME IInv, Clean
  PROVE  Objects'
<1> USE DEF IInv, Objects
<1>1. ASSUME NEW c \in Conn
      PROVE  conn'[c] = Absent
  <2>1. conn'[c] = [Absent EXCEPT !.session =
           IF conn[c].list = "used" THEN Disconnected(conn[c]).session
                                    ELSE conn[c].session]
    BY DEF Clean
  <2>2. Shape(conn[c]) /\ conn[c] \in ConnRecord
    OBVIOUS
  <2>3. conn[c].list = "used" => Disconnected(conn[c]).session = "idle"
    BY <2>2, DisconnectedType DEF Shape
  <2>4. conn[c].list # "used" => conn[c].session = "idle"
    BY <2>2 DEF Shape, Absent, Pooled, ConnRecord
  <2>5. [Absent EXCEPT !.session = "idle"] = Absent
    BY DEF Absent
  <2> QED
    BY <2>1, <2>3, <2>4, <2>5
<1>2. conn' = [c \in Conn |-> conn'[c]]
  BY DEF Clean
<1>3. conn' \in [Conn -> ConnRecord] /\ \A c \in Conn : Shape(conn'[c])
  <2>1. Shape(Absent) /\ Absent \in ConnRecord
    BY AbsentType DEF Shape, Absent
  <2> QED
    BY <1>1, <1>2, <2>1
<1>4. InList("used")' = {} /\ InList("wait")' = {} /\ InList("free")' = {}
  BY <1>1 DEF InList, Absent
<1>5. CountsMatch'
  <2>1. usedCount' = 0 /\ waitCount' = 0 /\ freeCount' = 0 /\ 0 <= MaxFree
    BY ConstantsAssumption DEF Clean
  <2>2. /\ Cardinality(InList("used")') = 0 /\ Cardinality(InList("wait")') = 0
        /\ Cardinality(InList("free")') = 0
    BY <1>4, FS_EmptySet
  <2> QED
    BY <2>1, <2>2 DEF CountsMatch
<1>6. ~Running'
  BY DEF Clean, Running
<1>7. events' \in [Conn -> Masks] /\ \A c \in Conn : events'[c] = "none"
  BY DEF Clean, Masks
<1>8. BatchFresh' /\ OutPending'
  BY <1>7 DEF BatchFresh, OutPending
<1> QED
  BY <1>3, <1>5, <1>6, <1>7, <1>8 DEF Clean
LEMMA AioCompletesStep ==
  ASSUME IInv, NEW c \in Conn, AioCompletes(c)
  PROVE  Objects'
<1> USE DEF IInv, Objects
<1>1. UNCHANGED <<conn, usedCount, waitCount, freeCount, events, pc>>
  BY DEF AioCompletes, counts
<1>2. flight' \in [Conn -> Nat] /\ sig' \in [Conn -> Nat]
  BY DEF AioCompletes
<1>3. \A d \in Conn : flight'[d] + sig'[d] = flight[d] + sig[d]
  BY DEF AioCompletes
<1>4. CountsMatch' /\ BatchFresh' /\ OutPending'
  BY <1>1 DEF CountsMatch, InList, BatchFresh, OutPending
<1> QED
  BY <1>1, <1>2, <1>3, <1>4 DEF Running

(* Everything else leaves the objects alone. *)
LEMMA ObjectsKept ==
  ASSUME IInv, Running' => Running,
         UNCHANGED <<conn, usedCount, waitCount, freeCount, events, flight, sig>>
  PROVE  Objects'
  BY DEF IInv, Objects, CountsMatch, InList, BatchFresh, OutPending

LEMMA InitIInv == Init => IInv
<1> SUFFICES ASSUME Init PROVE IInv
  OBVIOUS
<1> USE DEF Init
<1>1. Locals
  BY DEF Locals
<1>2. Shape(Absent) /\ Absent \in ConnRecord /\ Pinned(Absent, 0)
      /\ Absent.list = "none"
  BY AbsentType DEF Shape, Absent, Pinned
<1>3. InList("used") = {} /\ InList("wait") = {} /\ InList("free") = {}
  BY <1>2 DEF InList
<1>4. CountsMatch
  <2>1. Cardinality({}) = 0 /\ 0 <= MaxFree
    BY FS_EmptySet, ConstantsAssumption
  <2> QED
    BY <1>3, <2>1 DEF CountsMatch
<1>5. BatchFresh /\ OutPending
  BY DEF BatchFresh, OutPending
<1>6. Objects
  BY <1>2, <1>4, <1>5 DEF Objects, Masks
<1> QED
  BY <1>1, <1>6 DEF IInv

LEMMA NextIInv ==
  ASSUME ~EarlyAio, IInv, [Next]_vars
  PROVE  IInv'
<1>1. CASE SignalEvent
  <2>1. Locals'
    BY <1>1 DEF SignalEvent, IInv, Locals
  <2> QED
    BY <1>1, <2>1, SignalEventStep DEF IInv
<1>2. CASE AioDone \/ ListenEvent \/ EpollFails \/ AcceptDropped \/ AcceptAgain
             \/ AcceptFails \/ ClientConnects \/ SendTerm \/ Terminated
             \/ UNCHANGED vars
  <2>1. Locals'
    <3> USE DEF IInv, Locals
    <3>1. CASE AioDone \/ ListenEvent \/ EpollFails \/ AcceptAgain \/ AcceptFails
      BY <3>1 DEF AioDone, ListenEvent, EpollFails, AcceptAgain, AcceptFails
    <3>2. CASE AcceptDropped
      BY <3>2 DEF AcceptDropped
    <3>3. CASE ClientConnects
      BY <3>3 DEF ClientConnects
    <3>4. CASE SendTerm
      BY <3>4 DEF SendTerm
    <3>5. CASE Terminated \/ UNCHANGED vars
      BY <3>5 DEF Terminated, vars
    <3> QED
      BY <1>2, <3>1, <3>2, <3>3, <3>4, <3>5
  <2>2. UNCHANGED <<conn, usedCount, waitCount, freeCount, events, flight, sig>>
    BY <1>2 DEF AioDone, ListenEvent, EpollFails, AcceptDropped, AcceptAgain,
       AcceptFails, ClientConnects, SendTerm, Terminated, vars, counts
  <2>3. Running' => Running
    BY <1>2 DEF AioDone, ListenEvent, EpollFails, AcceptDropped, AcceptAgain,
       AcceptFails, ClientConnects, SendTerm, Terminated, vars, Running
  <2> QED
    BY <2>1, <2>2, <2>3, ObjectsKept DEF IInv
<1>3. CASE Clean
  <2>1. Locals'
    BY <1>3 DEF Clean, IInv, Locals
  <2> QED
    BY <1>3, <2>1, CleanStep DEF IInv
<1>4. CASE EpollWait
  <2>1. Locals'
    BY <1>4 DEF EpollWait, Raised, IInv, Locals
  <2> QED
    BY <1>4, <2>1, EpollWaitStep DEF IInv
<1>5. ASSUME NEW c \in Conn, AioStep(c)
      PROVE  IInv'
  <2>1. Locals'
    BY <1>5 DEF AioStep, AioAnswered, IInv, Locals
  <2> QED
    BY <1>5, <2>1, AioStepStep DEF IInv
<1>6. ASSUME NEW c \in Conn, AcceptConn(c)
      PROVE  IInv'
  <2>1. Objects' /\ pc' \in {"accept", "abort"}
    BY <1>6, AcceptConnStep
  <2>2. Locals'
    BY <1>6, <2>1 DEF AcceptConn, IInv, Locals
  <2> QED
    BY <2>1, <2>2 DEF IInv
<1>7. ASSUME NEW c \in Conn, ConnIn(c)
      PROVE  IInv'
  <2>1. Locals'
    BY <1>7 DEF ConnIn, IInv, Locals
  <2> QED
    BY <1>7, <2>1, ConnInStep DEF IInv
<1>8. ASSUME NEW c \in Conn, ConnOut(c)
      PROVE  IInv'
  <2>1. Locals'
    BY <1>8 DEF ConnOut, IInv, Locals
  <2> QED
    BY <1>8, <2>1, ConnOutStep DEF IInv
<1>9. ASSUME NEW c \in Conn, AioCompletes(c)
      PROVE  IInv'
  <2>1. Locals'
    BY <1>9 DEF AioCompletes, IInv, Locals
  <2> QED
    BY <1>9, <2>1, AioCompletesStep DEF IInv
<1> QED
  BY <1>1, <1>2, <1>3, <1>4, <1>5, <1>6, <1>7, <1>8, <1>9
     DEF Next, LoopStep, Environment

LEMMA Inductive == ASSUME ~EarlyAio PROVE Spec => []IInv
<1>1. Init => IInv
  BY InitIInv
<1>2. IInv /\ [Next]_vars => IInv'
  BY NextIInv
<1> QED
  BY <1>1, <1>2, PTL DEF Spec

-----------------------------------------------------------------------------
(* The theorems *)

(* Every variable keeps its type. *)
THEOREM TypeCorrect == ASSUME ~EarlyAio PROVE Spec => []TypeOK
<1>1. IInv => TypeOK
  BY IInvType
<1> QED
  BY <1>1, Inductive, PTL

(* The counters of running_t are the lengths of its lists. *)
THEOREM CountsCorrect == ASSUME ~EarlyAio PROVE Spec => []CountsMatch
<1>1. IInv => CountsMatch
  BY DEF IInv, Objects
<1> QED
  BY <1>1, Inductive, PTL

(* Callbacks come in on_connected()/on_disconnected() pairs. *)
THEOREM SessionsCorrect == ASSUME ~EarlyAio PROVE Spec => []SessionPairs
<1>1. IInv => SessionPairs
  BY DEF IInv, Objects, Shape, Absent, Pooled, SessionPairs, ConnRecord
<1> QED
  BY <1>1, Inductive, PTL

(* The batch never holds an event of an object that was given up. *)
THEOREM BatchCorrect == ASSUME ~EarlyAio PROVE Spec => []BatchFresh
<1>1. IInv => BatchFresh
  BY DEF IInv, Objects
<1> QED
  BY <1>1, Inductive, PTL

(* A connection waits for writability exactly while it has data to send. *)
THEOREM ArmedCorrect == ASSUME ~EarlyAio PROVE Spec => []PendingArmed
<1>1. IInv => PendingArmed
  BY DEF IInv, Objects, Shape, PendingArmed
<1> QED
  BY <1>1, Inductive, PTL

(* An object the kernel still works for is neither pooled nor deleted. *)
THEOREM PinsCorrect == ASSUME ~EarlyAio PROVE Spec => []AioPinsConn
<1>1. IInv => AioPinsConn
  BY DEF IInv, Objects, Pinned, AioPinsConn
<1> QED
  BY <1>1, Inductive, PTL

(* Nothing of a session is left in a pooled object. *)
THEOREM PoolCorrect == ASSUME ~EarlyAio PROVE Spec => []FreeIsClean
<1>1. IInv => FreeIsClean
  BY DEF IInv, Objects, Shape, FreeIsClean, InList
<1> QED
  BY <1>1, Inductive, PTL
-----------------------------------------------------------------------------
(* Acceptor implements ConnLife *)

Tasks(c) == flight[c] + sig[c]

LEMMA LifeOfList ==
  ASSUME NEW k \in ConnRecord
  PROVE  /\ ObjectLife(k) \in Life!Lives
         /\ k.list = "none" => ObjectLife(k) = "absent"
         /\ k.list = "used" => ObjectLife(k) = "open"
         /\ k.list = "wait" => ObjectLife(k) = "draining"
         /\ k.list = "free" => ObjectLife(k) = "pooled"
  BY DEF ObjectLife, Life!Lives, ConnRecord

(* What one object may do in a step, in terms of the list it is in. *)
MayMove(c) ==
  \/ conn[c].list = "used" /\ conn'[c].list = "used"
  \/ /\ conn[c].list # "used" /\ conn'[c].list = conn[c].list
     /\ Tasks(c)' <= Tasks(c)
  \/ /\ conn[c].list \in {"none", "free"} /\ Tasks(c) = 0
     /\ conn'[c].list = "used"
  \/ conn[c].list = "used" /\ conn'[c].list = "wait" /\ Tasks(c)' > 0
  \/ conn'[c].list \in {"none", "free"} /\ Tasks(c)' = 0

(* The Cardinality that ConnLife extends is the one this module extends. *)
LEMMA SameCardinality ==
  ASSUME NEW S
  PROVE  Life!Cardinality(S) = Cardinality(S)
  BY DEF Life!Cardinality, Cardinality

(* Objects that each move as they may make a step of ConnLife. *)
LEMMA LifeRun ==
  ASSUME IInv, Running, Objects', \A c \in Conn : MayMove(c)
  PROVE  Life!Next
<1> DEFINE life == [c \in Conn |-> ObjectLife(conn[c])]
           tasks == [c \in Conn |-> flight[c] + sig[c]]
<1>1. conn \in [Conn -> ConnRecord] /\ conn' \in [Conn -> ConnRecord]
  BY DEF IInv, Objects
<1>2. life' \in [Conn -> Life!Lives] /\ tasks' \in [Conn -> Nat]
  BY <1>1, LifeOfList DEF Objects
<1>3. \A c \in Conn : tasks[c] = Tasks(c) /\ tasks'[c] = Tasks(c)'
  BY DEF Tasks
<1>4. ASSUME NEW c \in Conn
      PROVE  \/ Life!Open(c) \/ Life!Serve(c) \/ Life!Keep(c)
             \/ Life!Drain(c) \/ Life!Release(c)
  <2>1. life[c] = ObjectLife(conn[c]) /\ life'[c] = ObjectLife(conn'[c])
    OBVIOUS
  <2>2. conn[c] \in ConnRecord /\ conn'[c] \in ConnRecord
    BY <1>1
  <2>3. MayMove(c) /\ tasks[c] = Tasks(c) /\ tasks'[c] = Tasks(c)'
    BY <1>3
  <2>4. conn[c].list \in {"none", "used", "wait", "free"}
    BY <2>2 DEF ConnRecord
  <2> HIDE DEF life, tasks
  <2>5. CASE conn[c].list = "used" /\ conn'[c].list = "used"
    <3>1. life[c] = "open" /\ life'[c] = "open"
      BY <2>1, <2>2, <2>5, LifeOfList
    <3>2. Life!Serve(c)
      BY <3>1 DEF Life!Serve, life
    <3> QED
      BY <3>2
  <2>6. CASE /\ conn[c].list # "used" /\ conn'[c].list = conn[c].list
             /\ Tasks(c)' <= Tasks(c)
    <3>1. life[c] # "open" /\ life'[c] = life[c] /\ tasks'[c] <= tasks[c]
      BY <2>1, <2>2, <2>3, <2>4, <2>6, LifeOfList
    <3>2. Life!Keep(c)
      BY <3>1 DEF Life!Keep, life, tasks
    <3> QED
      BY <3>2
  <2>7. CASE /\ conn[c].list \in {"none", "free"} /\ Tasks(c) = 0
             /\ conn'[c].list = "used"
    <3>1. life[c] \in {"absent", "pooled"} /\ tasks[c] = 0 /\ life'[c] = "open"
      BY <2>1, <2>2, <2>3, <2>7, LifeOfList
    <3>2. Life!Open(c)
      BY <3>1 DEF Life!Open, life, tasks
    <3> QED
      BY <3>2
  <2>8. CASE conn[c].list = "used" /\ conn'[c].list = "wait" /\ Tasks(c)' > 0
    <3>1. life[c] = "open" /\ life'[c] = "draining" /\ tasks'[c] > 0
      BY <2>1, <2>2, <2>3, <2>8, LifeOfList
    <3>2. Life!Drain(c)
      BY <3>1 DEF Life!Drain, life, tasks
    <3> QED
      BY <3>2
  <2>9. CASE conn'[c].list \in {"none", "free"} /\ Tasks(c)' = 0
    <3>1. life'[c] \in {"pooled", "absent"} /\ tasks'[c] = 0
      BY <2>1, <2>2, <2>3, <2>9, LifeOfList
    <3>2. Life!Release(c)
      BY <3>1 DEF Life!Release, life, tasks
    <3> QED
      BY <3>2
  <2> QED
    BY <2>3, <2>5, <2>6, <2>7, <2>8, <2>9 DEF MayMove
<1>5. Cardinality({c \in Conn : life'[c] = "pooled"}) <= MaxFree
  <2>1. \A c \in Conn : conn'[c].list \in {"none", "used", "wait", "free"}
    BY <1>1 DEF ConnRecord
  <2>2. \A c \in Conn : life'[c] = "pooled" <=> conn'[c].list = "free"
    BY <1>1, <2>1, LifeOfList
  <2>3. {c \in Conn : life'[c] = "pooled"} = InList("free")'
    BY <2>2 DEF InList
  <2> QED
    BY <2>3 DEF Objects, CountsMatch
<1>6. Running' \in BOOLEAN
  BY DEF Running
<1>7. Life!Run
  <2>1. [c \in Conn |-> ObjectLife(conn[c])]' \in [Conn -> Life!Lives]
    BY <1>2
  <2>2. [c \in Conn |-> flight[c] + sig[c]]' \in [Conn -> Nat]
    BY <1>2
  <2>3. Cardinality({c \in Conn :
          [d \in Conn |-> ObjectLife(conn[d])]'[c] = "pooled"}) <= MaxFree
    BY <1>5
  <2>4. Life!Cardinality({c \in Conn :
          [d \in Conn |-> ObjectLife(conn[d])]'[c] = "pooled"}) <= MaxFree
    BY <2>3, SameCardinality
  <2> QED
    BY <2>1, <2>2, <2>4, <1>4, <1>6 DEF Life!Run
<1> QED
  BY <1>7 DEF Life!Next

(* A step that changes one object in a way OneMoves allows. *)
LEMMA OneMayMove ==
  ASSUME IInv, Running, Objects', NEW c \in Conn, OneMoves(c)
  PROVE  \A d \in Conn : MayMove(d)
<1>1. ASSUME NEW d \in Conn
      PROVE  /\ conn[d] \in ConnRecord /\ conn'[d] \in ConnRecord
             /\ Tasks(d) \in Nat /\ Tasks(d)' \in Nat
             /\ Pinned(conn[d], Tasks(d))
  BY DEF IInv, Objects, Tasks
<1>2. ASSUME NEW d \in Conn \ {c}
      PROVE  MayMove(d)
  <2>1. conn'[d] = conn[d] /\ Tasks(d)' = Tasks(d)
    BY DEF OneMoves, Tasks
  <2> QED
    BY <1>1, <2>1 DEF MayMove
<1>3. MayMove(c)
  <2>1. Pinned(conn'[c], Tasks(c)')
    BY DEF OneMoves, Tasks
  <2>2. conn'[c].list \in {"none", "used", "wait", "free"}
    BY <1>1 DEF ConnRecord
  <2>3. CASE conn'[c].list = "used"
    BY <1>1, <2>3 DEF MayMove, OneMoves, Pinned
  <2>4. CASE conn'[c].list = "wait"
    BY <1>1, <2>1, <2>4 DEF MayMove, OneMoves, Pinned
  <2>5. CASE conn'[c].list \in {"none", "free"}
    BY <1>1, <2>1, <2>5 DEF MayMove, Pinned
  <2> QED
    BY <2>2, <2>3, <2>4, <2>5
<1> QED
  BY <1>2, <1>3

(* A step in which no object changes its list and no task is added. *)
LEMMA NoneMoves ==
  ASSUME IInv, \A c \in Conn : conn'[c].list = conn[c].list,
         \A c \in Conn : Tasks(c)' <= Tasks(c)
  PROVE  \A c \in Conn : MayMove(c)
  BY DEF MayMove
LEMMA CleanStops ==
  ASSUME Clean
  PROVE  Life!Next
<1>1. \A c \in Conn : conn'[c].list = "none"
  BY DEF Clean, Absent
<1>2. [c \in Conn |-> ObjectLife(conn[c])]' = [c \in Conn |-> "absent"]
  BY <1>1 DEF ObjectLife
<1>3. Running /\ Running' = FALSE
  BY DEF Clean, Running
<1>4. [c \in Conn |-> flight[c] + sig[c]]' = [c \in Conn |-> flight[c] + sig[c]]
  BY DEF Clean
<1>5. Life!Stop
  BY <1>2, <1>3, <1>4 DEF Life!Stop
<1> QED
  BY <1>3, <1>5 DEF Life!Next

LEMMA LifeStep ==
  ASSUME ~EarlyAio, IInv, IInv', [Next]_vars
  PROVE  [Life!Next]_(Life!vars)
<1>1. Objects'
  BY DEF IInv
<1>2. ASSUME NEW c \in Conn,
             AioStep(c) \/ AcceptConn(c) \/ ConnIn(c) \/ ConnOut(c)
      PROVE  [Life!Next]_(Life!vars)
  <2>1. Running
    BY <1>2 DEF AioStep, AcceptConn, ConnIn, ConnOut, Running
  <2>2. OneMoves(c) \/ UNCHANGED <<conn, flight, sig>>
    BY <1>2, AioStepStep, AcceptConnStep, ConnInStep, ConnOutStep
  <2>3. CASE OneMoves(c)
    BY <1>1, <2>1, <2>3, OneMayMove, LifeRun
  <2>4. CASE UNCHANGED <<conn, flight, sig>>
    <3>1. \A d \in Conn : Tasks(d) \in Nat /\ Tasks(d)' = Tasks(d)
      BY <2>4 DEF Tasks, IInv, Objects
    <3>2. \A d \in Conn : MayMove(d)
      BY <2>4, <3>1, NoneMoves
    <3> QED
      BY <1>1, <2>1, <3>2, LifeRun
  <2> QED
    BY <2>2, <2>3, <2>4
<1>3. CASE SignalEvent
  <2>1. Running
    BY <1>3 DEF SignalEvent, Running
  <2>2. ASSUME NEW c \in Conn
        PROVE  conn'[c].list = conn[c].list /\ Tasks(c)' <= Tasks(c)
    <3>1. /\ conn[c] \in ConnRecord /\ flight[c] \in Nat /\ sig[c] \in Nat
      BY DEF IInv, Objects
    <3>2. conn'[c].list = conn[c].list
      BY <1>3, <3>1 DEF SignalEvent, OnAioCompleted, ConnRecord
    <3>3. flight'[c] = flight[c] /\ sig'[c] = 0
      BY <1>3 DEF SignalEvent
    <3> QED
      BY <3>1, <3>2, <3>3 DEF Tasks
  <2>3. \A c \in Conn : MayMove(c)
    BY <2>2, NoneMoves
  <2> QED
    BY <1>1, <2>1, <2>3, LifeRun
<1>4. CASE Clean
  BY <1>4, CleanStops
<1>5. ASSUME NEW c \in Conn, AioCompletes(c)
      PROVE  [Life!Next]_(Life!vars)
  <2>1. Running
    BY <1>5 DEF AioCompletes, Running
  <2>2. ASSUME NEW d \in Conn
        PROVE  conn'[d].list = conn[d].list /\ Tasks(d)' <= Tasks(d)
    <3>1. /\ flight \in [Conn -> Nat] /\ sig \in [Conn -> Nat]
      BY DEF IInv, Objects
    <3> QED
      BY <1>5, <3>1 DEF AioCompletes, Tasks
  <2>3. \A d \in Conn : MayMove(d)
    BY <2>2, NoneMoves
  <2> QED
    BY <1>1, <2>1, <2>3, LifeRun
<1>6. CASE EpollWait \/ AioDone \/ ListenEvent \/ EpollFails \/ AcceptDropped
             \/ AcceptAgain \/ AcceptFails \/ ClientConnects \/ SendTerm
             \/ Terminated \/ UNCHANGED vars
  <2>1. UNCHANGED <<conn, flight, sig>> /\ Running' = Running
    BY <1>6 DEF EpollWait, AioDone, ListenEvent, EpollFails, AcceptDropped,
       AcceptAgain, AcceptFails, ClientConnects, SendTerm, Terminated, vars,
       Running
  <2> QED
    BY <2>1 DEF Life!vars
<1> QED
  BY <1>2, <1>3, <1>4, <1>5, <1>6 DEF Next, LoopStep, Environment

LEMMA LifeInit ==
  ASSUME Init
  PROVE  Life!Init
<1>1. [c \in Conn |-> ObjectLife(conn[c])] = [c \in Conn |-> "absent"]
  BY DEF Init, ObjectLife, Absent
<1>2. [c \in Conn |-> flight[c] + sig[c]] = [c \in Conn |-> 0]
  BY DEF Init
<1>3. Running = TRUE
  BY DEF Init, Running
<1> QED
  BY <1>1, <1>2, <1>3 DEF Life!Init

(* The acceptor implements the life cycle it promises for its objects. *)
THEOREM LifeRefined == ASSUME ~EarlyAio PROVE Spec => LifeSpec
<1>1. Init => Life!Init
  BY LifeInit
<1>2. IInv /\ IInv' /\ [Next]_vars => [Life!Next]_(Life!vars)
  BY LifeStep
<1>3. Spec => []IInv
  BY Inductive
<1> QED
  BY <1>1, <1>2, <1>3, PTL DEF Spec, LifeSpec, Life!Spec
-----------------------------------------------------------------------------
(* Handlers that do not answer result_disconnect where run_tcp() misses it *)

(* on_aio_completed() never answers result_disconnect. *)
AioStays == \A r \in ResAio : "disconnect" \notin r

(* Nor do on_connected() and get_more_data(). *)
Disciplined == AioStays /\ \A r \in ResConnected \cup ResMore : "disconnect" \notin r

(* Completed tasks wait only for the turns of the loop over aio_conns that  *)
(* are still due.                                                          *)
Delivered ==
  /\ pc \in {"loop", "accept"} => \A c \in Conn : conn[c].completed = 0
  /\ pc = "aio" => \A c \in Conn \ aioConns : conn[c].completed = 0

LEMMA AnswersResult ==
  ASSUME NEW k \in ConnRecord, NEW Res, NEW a \in Answers(k, Res)
  PROVE  a.result \in Res
<1>1. PICK r \in Res, adds \in BOOLEAN, n \in 0 .. Room(k) :
        a = Answer(k, r, adds, n)
  BY DEF Answers
<1>2. a.result = r
  BY <1>1 DEF Answer, ConnRecord
<1> QED
  BY <1>2

(* Only a connection in use has completed tasks. *)
LEMMA CompletedInUse ==
  ASSUME Objects, NEW c \in Conn, conn[c].list # "used"
  PROVE  conn[c].completed = 0
  BY DEF Objects, Shape, Absent, Pooled, ConnRecord

(* A step that changes one object, which has no completed task after it.    *)
LEMMA DeliveredStep ==
  ASSUME Objects', Delivered, NEW c \in Conn, OneMoves(c), pc' \in {pc, "abort"},
         aioConns' = aioConns \/ aioConns' = aioConns \ {c},
         conn'[c].list = "used" => conn'[c].completed = 0
  PROVE  Delivered'
<1>1. conn'[c].completed = 0
  BY DEF Objects, Shape, Absent, Pooled, ConnRecord
<1> QED
  BY <1>1 DEF Delivered, OneMoves

(* gc_conn_i() takes the object out of the used list.                       *)
LEMMA GivenUp ==
  ASSUME IInv, Running, NEW c \in Conn, NEW k, InUse(k),
         k.running - conn[c].running \in Nat, Launch(c, k), GcConn(c, k)
  PROVE  conn'[c].list # "used"
<1>1. TypeOK /\ freeCount <= MaxFree /\ conn \in [Conn -> ConnRecord]
  BY IInvType DEF IInv, Objects, CountsMatch
<1>2. k.running \in Nat
  BY LaunchResult DEF InUse
<1>3. PICK r \in ConnRecord : conn' = [conn EXCEPT ![c] = r] /\ r.list # "used"
  BY <1>1, <1>2, GcResult
<1> QED
  BY <1>1, <1>3

(* ConnIn(c) gives the connection up or keeps it as the handler left it.    *)
LEMMA ConnInResult ==
  ASSUME IInv, NEW c \in Conn, ConnIn(c), conn'[c].list = "used"
  PROVE  /\ conn'[c].completed = conn[c].completed
         /\ "disconnect" \in conn'[c].result => conn'[c].pend
<1>1. Running /\ conn[c].list = "used" /\ conn \in [Conn -> ConnRecord]
  BY DEF IInv, Objects, BatchFresh, ConnIn, Running
<1>2. InUse(conn[c]) /\ Called(conn[c]) = conn[c]
  BY <1>1, UsedInUse
<1>3. PICK k \in {conn[c]} \cup Answers(conn[c], ResReceived), closed \in BOOLEAN :
        /\ Launch(c, k)
        /\ IF closed \/ Quits(k) THEN GcConn(c, k) ELSE KeepConn(c, ArmForSending(k))
  BY <1>2 DEF ConnIn
<1>4. Served(conn[c], k)
  <2>1. CASE k = conn[c]
    BY <1>2, <2>1 DEF Served, InUse, ConnRecord
  <2>2. CASE k \in Answers(conn[c], ResReceived)
    BY <1>1, <2>2, AnswersServed, ConstantsAssumption
  <2> QED
    BY <2>1, <2>2
<1>5. InUse(k) /\ k.running - conn[c].running \in Nat
  BY <1>2, <1>4, ServedInUse
<1>6. ~(closed \/ Quits(k))
  BY <1>1, <1>3, <1>5, GivenUp
<1>7. conn'[c] = ArmForSending(k)
  BY <1>1, <1>3, <1>6 DEF KeepConn
<1>8. /\ ArmForSending(k).completed = k.completed
      /\ ArmForSending(k).result = k.result /\ ArmForSending(k).pend = k.pend
  BY <1>5 DEF ArmForSending, InUse, ConnRecord
<1>9. "disconnect" \in k.result => k.pend
  BY <1>6 DEF Quits
<1> QED
  BY <1>4, <1>7, <1>8, <1>9 DEF Served

LEMMA ConnOutResult ==
  ASSUME IInv, NEW c \in Conn, ConnOut(c), conn'[c].list = "used"
  PROVE  /\ conn'[c].completed = conn[c].completed
         /\ "disconnect" \in conn'[c].result => conn'[c].pend
<1>1. Running /\ conn[c].list = "used" /\ conn \in [Conn -> ConnRecord] /\ conn[c].pend
  BY DEF IInv, Objects, BatchFresh, OutPending, ConnOut, Running
<1>2. InUse(conn[c]) /\ conn[c].session = "open" /\ conn[c] \in ConnRecord
  BY <1>1, UsedInUse DEF InUse
<1>3. ASSUME NEW k \in Tried(conn[c]) \cup Sent(conn[c])
      PROVE  Served(conn[c], k) /\ InUse(k) /\ k.running - conn[c].running \in Nat
  BY <1>2, TriedServed, SentServed, ServedInUse
<1>4. ASSUME NEW k \in Tried(conn[c]), NEW failed \in BOOLEAN, Launch(c, k),
             IF failed THEN GcConn(c, k) ELSE KeepConn(c, k)
      PROVE  conn'[c].completed = conn[c].completed /\ conn'[c].pend
  <2>1. ~failed
    BY <1>1, <1>3, <1>4, GivenUp
  <2>2. conn'[c] = k
    BY <1>1, <1>4, <2>1 DEF KeepConn
  <2>3. k.pend
    BY <1>1, <1>2, TriedServed
  <2> QED
    BY <1>3, <2>2, <2>3 DEF Served
<1>5. ASSUME NEW k \in Sent(conn[c]), Launch(c, k),
             IF Quits(k) THEN GcConn(c, k) ELSE KeepConn(c, [k EXCEPT !.interest = "IN"])
      PROVE  conn'[c].completed = conn[c].completed /\ "disconnect" \notin conn'[c].result
  <2>1. ~Quits(k)
    BY <1>1, <1>3, <1>5, GivenUp
  <2>2. conn'[c] = [k EXCEPT !.interest = "IN"]
    BY <1>1, <1>5, <2>1 DEF KeepConn
  <2>3. conn'[c].completed = k.completed /\ conn'[c].result = k.result
    BY <1>3, <2>2 DEF InUse, ConnRecord
  <2>4. ~k.pend
    BY <1>2, SentServed
  <2> QED
    BY <1>3, <2>1, <2>3, <2>4 DEF Served, Quits
<1> QED
  BY <1>4, <1>5 DEF ConnOut

(* A new client starts without completed tasks, and without an answer that  *)
(* would end it.                                                           *)
LEMMA AcceptResult ==
  ASSUME IInv, ~EarlyAio, NEW c \in Conn, AcceptConn(c), conn'[c].list = "used"
  PROVE  /\ conn'[c].completed = 0
         /\ Disciplined => "disconnect" \notin conn'[c].result
<1>1. NewConn(c) /\ conn \in [Conn -> ConnRecord] /\ conn[c].list \in {"none", "free"}
  BY TakenClean DEF AcceptConn, IInv, Objects
<1> DEFINE n == Connected(Taken(c))
<1>2. n \in ConnRecord /\ n.session = "open" /\ n.completed = 0
  <2>1. Taken(c) \in ConnRecord /\ Taken(c).session = "idle"
    BY <1>1, TakenClean
  <2>2. Taken(c).completed = 0
    <3>1. conn[c] = Absent \/ conn[c] = Pooled
      BY <1>1 DEF IInv, Objects, Shape
    <3> QED
      BY <3>1 DEF Taken, Absent, Pooled
  <2>3. Connected(Taken(c)).completed = Taken(c).completed
    BY <2>1 DEF Connected, ConnRecord
  <2> QED
    BY <2>1, <2>2, <2>3, ConnectedType
<1> HIDE DEF n
<1>3. PICK k \in Answers(n, ResConnected), lost \in BOOLEAN :
        \E t \in IF k.pend THEN Tried(k) \cup Sent(k) ELSE {k} :
          IF lost \/ Quits(k)
          THEN GcNewConn(c, t, FreeLeft)
          ELSE conn' = [conn EXCEPT ![c] =
                 [t EXCEPT !.list = "used", !.linked = TRUE,
                           !.interest = IF t.pend THEN "OUT" ELSE "IN"]]
  BY DEF AcceptConn, n
<1>4. PICK t \in IF k.pend THEN Tried(k) \cup Sent(k) ELSE {k} :
          IF lost \/ Quits(k)
          THEN GcNewConn(c, t, FreeLeft)
          ELSE conn' = [conn EXCEPT ![c] =
                 [t EXCEPT !.list = "used", !.linked = TRUE,
                           !.interest = IF t.pend THEN "OUT" ELSE "IN"]]
  BY <1>3
<1>5. k \in ConnRecord /\ k.session = "open" /\ k.completed = 0
  BY <1>2, <1>3, AnswersServed, ConstantsAssumption DEF Served
<1>6. t \in ConnRecord /\ t.completed = 0
  <2>1. CASE t = k
    BY <1>5, <2>1
  <2>2. CASE t \in Tried(k) \cup Sent(k)
    BY <1>5, <2>2, TriedServed, SentServed DEF Served
  <2> QED
    BY <2>1, <2>2
<1>7. ~(lost \/ Quits(k))
  <2> SUFFICES ASSUME GcNewConn(c, t, FreeLeft) PROVE conn'[c].list # "used"
    BY <1>4
  <2> QED
    BY <1>1 DEF GcNewConn, AddFree, Absent
<1>8. /\ conn'[c].completed = t.completed
      /\ conn'[c].result = t.result
  <2> DEFINE m == IF t.pend THEN "OUT" ELSE "IN"
  <2>1. conn'[c] = [t EXCEPT !.list = "used", !.linked = TRUE, !.interest = m]
    BY <1>1, <1>4, <1>7
  <2> HIDE DEF m
  <2> QED
    BY <1>6, <2>1 DEF ConnRecord
<1>9. Disciplined => "disconnect" \notin t.result
  <2> SUFFICES ASSUME Disciplined PROVE "disconnect" \notin t.result
    OBVIOUS
  <2>2. "disconnect" \notin k.result
    BY <1>2, <1>3, AnswersResult DEF Disciplined
  <2>3. ASSUME NEW u \in Tried(k) PROVE u \in ConnRecord /\ "disconnect" \notin u.result
    <3>1. Called(k) = k
      BY <1>5, CalledType
    <3>2. u = k \/ u \in Answers(k, ResMore)
      BY <3>1 DEF Tried
    <3>3. u \in ConnRecord
      BY <1>5, TriedServed DEF Served
    <3> QED
      BY <1>5, <2>2, <3>2, <3>3, AnswersResult DEF Disciplined
  <2>4. ASSUME NEW u \in Sent(k) PROVE "disconnect" \notin u.result
    BY <2>3 DEF Sent, ConnRecord
  <2> QED
    BY <2>2, <2>3, <2>4
<1> QED
  BY <1>6, <1>8, <1>9

(* One turn of the loop over aio_conns, when it is not left.                *)
LEMMA AioStepResult ==
  ASSUME IInv, AioStays, NEW c \in Conn, AioStep(c)
  PROVE  /\ pc' = pc /\ aioConns' = aioConns \ {c}
         /\ conn'[c].completed = 0
         /\ conn'[c] = conn[c] \/ "disconnect" \notin conn'[c].result
<1>1. conn \in [Conn -> ConnRecord]
  BY DEF IInv, Objects
<1>2. CASE conn[c].completed = 0
  BY <1>2 DEF AioStep
<1>3. CASE conn[c].completed # 0
  <2> DEFINE p == PopCompleted(conn[c])
  <2>1. conn[c].list = "used"
    BY <1>3, CompletedInUse DEF IInv
  <2>2. p \in ConnRecord /\ p.session = "open" /\ p.completed = 0
    BY <1>1, <2>1, UsedInUse DEF InUse, ConnRecord, PopCompleted
  <2>3. PICK k \in Answers(Called(p), ResAio) : AioAnswered(c, k)
    BY <1>3 DEF AioStep
  <2> HIDE DEF p
  <2>4. k \in Answers(p, ResAio)
    BY <2>2, <2>3, CalledType
  <2>5. k \in ConnRecord /\ k.completed = 0
    BY <2>2, <2>4, AnswersServed, ConstantsAssumption DEF Served
  <2>6. k.result \in ResAio
    BY <2>2, <2>4, AnswersResult
  <2>7. ~Quits(k) /\ "disconnect" \notin k.result
    BY <2>6 DEF Quits, AioStays
  <2>8. pc' = pc /\ aioConns' = aioConns \ {c} /\ conn'[c] = ArmForSending(k)
    BY <1>1, <2>3, <2>7 DEF AioAnswered, KeepConn
  <2>9. ArmForSending(k).completed = 0 /\ ArmForSending(k).result = k.result
    BY <2>5 DEF ArmForSending, ConnRecord
  <2> QED
    BY <2>7, <2>8, <2>9
<1> QED
  BY <1>2, <1>3

LEMMA SignalResult ==
  ASSUME IInv, SignalEvent, NEW c \in Conn
  PROVE  /\ conn'[c].list = conn[c].list /\ conn'[c].result = conn[c].result
         /\ conn'[c].pend = conn[c].pend
         /\ sig[c] = 0 => conn'[c].completed = conn[c].completed
<1>1. conn[c] \in ConnRecord /\ sig[c] \in Nat
  BY DEF IInv, Objects
<1>2. conn'[c] = OnAioCompleted(conn[c], sig[c])
  BY DEF SignalEvent
<1> QED
  BY <1>1, <1>2 DEF OnAioCompleted, ConnRecord

(* The steps that leave the objects alone, and the places they go to.       *)
LEMMA ObjectsUntouched ==
  ASSUME AioDone \/ ListenEvent \/ EpollFails \/ AcceptDropped \/ AcceptAgain
         \/ AcceptFails \/ ClientConnects \/ SendTerm \/ Terminated \/ UNCHANGED vars
         \/ EpollWait \/ \E c \in Conn : AioCompletes(c)
  PROVE  /\ UNCHANGED <<conn, aioConns>>
         /\ \/ pc' \in {pc, "clean"}
            \/ pc' \in {"loop", "accept"} /\ pc \in {"loop", "accept"}
            \/ pc' = "loop" /\ pc = "aio" /\ aioConns = {}
  BY DEF AioDone, ListenEvent, EpollFails, AcceptDropped, AcceptAgain, AcceptFails,
     ClientConnects, SendTerm, Terminated, vars, EpollWait, AioCompletes

LEMMA NextDelivered ==
  ASSUME ~EarlyAio, AioStays, IInv, IInv', Delivered, [Next]_vars
  PROVE  Delivered'
<1>1. CASE SignalEvent
  <2>1. ASSUME NEW c \in Conn, c \notin aioConns'
        PROVE  conn'[c].completed = 0
    <3>1. sig[c] = 0 /\ conn[c].completed = 0
      BY <1>1, <2>1 DEF SignalEvent, IInv, Objects, Delivered
    <3> QED
      BY <1>1, <3>1, SignalResult
  <2>2. pc' \in {"abort", "clean", "aio"}
    BY <1>1 DEF SignalEvent
  <2> QED
    BY <2>1, <2>2 DEF Delivered
<1>2. CASE Clean
  BY <1>2 DEF Clean, Delivered
<1>3. ASSUME NEW c \in Conn, AioStep(c) PROVE Delivered'
  <2>1. /\ pc' = pc /\ pc = "aio" /\ aioConns' = aioConns \ {c} /\ conn'[c].completed = 0
    BY <1>3, AioStepResult DEF AioStep
  <2>2. \A d \in Conn \ {c} : conn'[d] = conn[d]
    BY <1>3, AioStepStep DEF OneMoves
  <2> QED
    BY <2>1, <2>2 DEF Delivered
<1>4. ASSUME NEW c \in Conn, AcceptConn(c) \/ ConnIn(c) \/ ConnOut(c) PROVE Delivered'
  <2>1. OneMoves(c)
    BY <1>4, AcceptConnStep, ConnInStep, ConnOutStep
  <2>2. pc' \in {pc, "abort"} /\ aioConns' = aioConns /\ conn[c].completed = 0
    BY <1>4 DEF AcceptConn, ConnIn, ConnOut, Delivered
  <2>3. conn'[c].list = "used" => conn'[c].completed = 0
    BY <1>4, <2>2, AcceptResult, ConnInResult, ConnOutResult
  <2> QED
    BY <2>1, <2>2, <2>3, DeliveredStep DEF IInv
<1>5. CASE AioDone \/ ListenEvent \/ EpollFails \/ AcceptDropped \/ AcceptAgain
           \/ AcceptFails \/ ClientConnects \/ SendTerm \/ Terminated \/ UNCHANGED vars
           \/ EpollWait \/ \E c \in Conn : AioCompletes(c)
  BY <1>5, ObjectsUntouched DEF Delivered
<1> QED
  BY <1>1, <1>2, <1>3, <1>4, <1>5 DEF Next, LoopStep, Environment

LEMMA NextHonoured ==
  ASSUME ~EarlyAio, Disciplined, IInv, DisconnectHonoured, [Next]_vars
  PROVE  DisconnectHonoured'
<1>1. CASE SignalEvent
  BY <1>1, SignalResult DEF DisconnectHonoured, InList
<1>2. CASE Clean
  BY <1>2 DEF Clean, DisconnectHonoured, InList, Absent
<1>3. ASSUME NEW c \in Conn, AioStep(c) \/ AcceptConn(c) \/ ConnIn(c) \/ ConnOut(c)
      PROVE  DisconnectHonoured'
  <2>1. \A d \in Conn \ {c} : conn'[d] = conn[d]
    BY <1>3, AioStepStep, AcceptConnStep, ConnInStep, ConnOutStep DEF OneMoves
  <2>2. ASSUME conn'[c].list = "used", "disconnect" \in conn'[c].result, ~AioStep(c)
        PROVE  conn'[c].pend
    <3>1. ConnIn(c) => conn[c].list = "used"
      BY DEF ConnIn, IInv, Objects, BatchFresh
    <3> QED
      BY <1>3, <2>2, <3>1, AcceptResult, ConnInResult, ConnOutResult
         DEF DisconnectHonoured, InList
  <2>3. ASSUME conn'[c].list = "used", "disconnect" \in conn'[c].result, AioStep(c)
        PROVE  conn'[c].pend
    BY <2>3, AioStepResult DEF Disciplined, DisconnectHonoured, InList
  <2> QED
    BY <2>1, <2>2, <2>3 DEF DisconnectHonoured, InList
<1>4. CASE AioDone \/ ListenEvent \/ EpollFails \/ AcceptDropped \/ AcceptAgain
           \/ AcceptFails \/ ClientConnects \/ SendTerm \/ Terminated \/ UNCHANGED vars
           \/ EpollWait \/ \E c \in Conn : AioCompletes(c)
  BY <1>4, ObjectsUntouched DEF DisconnectHonoured, InList
<1> QED
  BY <1>1, <1>2, <1>3, <1>4 DEF Next, LoopStep, Environment

(* on_signalled_i(), run_tcp(): when the loop goes back to epoll_wait(),    *)
(* every completed task was handed to the handler, if on_aio_completed()    *)
(* never answers result_disconnect.                                        *)
THEOREM AioIsDelivered ==
  ASSUME ~EarlyAio, AioStays PROVE Spec => []AioDelivered
<1>1. Init => Delivered
  BY DEF Init, Delivered, Absent
<1>2. IInv /\ IInv' /\ Delivered /\ [Next]_vars => Delivered'
  BY NextDelivered
<1>3. Delivered => AioDelivered
  BY DEF Delivered, AioDelivered
<1> QED
  BY <1>1, <1>2, <1>3, Inductive, PTL DEF Spec

(* A connection whose handler answered result_disconnect stays open only    *)
(* while data is left to send, for a handler that answers it in             *)
(* on_received() alone.                                                    *)
THEOREM DisconnectIsHonoured ==
  ASSUME ~EarlyAio, Disciplined PROVE Spec => []DisconnectHonoured
<1>1. Init => DisconnectHonoured
  BY DEF Init, DisconnectHonoured, InList, Absent
<1>2. IInv /\ DisconnectHonoured /\ [Next]_vars => DisconnectHonoured'
  BY NextHonoured
<1> QED
  BY <1>1, <1>2, Inductive, PTL DEF Spec
=============================================================================
