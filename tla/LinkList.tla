------------------------------ MODULE LinkList ------------------------------
(***************************************************************************)
(* link_t (link.h): the circular doubly linked list that holds the         *)
(* connections of acceptor_t and the AIO tasks of conn_t.  The pointers    *)
(* are modelled one by one; `list' is what the owner of each head believes *)
(* the list to hold, and Represents relates the two.                       *)
(*                                                                         *)
(* The callers keep to this: a node is pushed only while it is in no list, *)
(* unlink() is called on a node that is in a list or was never popped, and *)
(* the callback of for_each() touches its own node only: it deletes it, as *)
(* run_tcp() does, or unlinks and deletes it, as popup_aio_completed()     *)
(* does.  clear() is the former.                                           *)
(***************************************************************************)
EXTENDS Integers, Sequences, SequencesExt

CONSTANTS Heads, Nodes, Nobody

ASSUME LinkAssumption == Heads \cap Nodes = {} /\ Nobody \notin Heads \cup Nodes

VARIABLES
  prev, next,  \* link_t::m_prev, m_next
  list,        \* the nodes of each head, in order
  alive,       \* allocated nodes
  popped,      \* alive nodes that were popped and not pushed since
  iter         \* the for_each() or clear() that runs: its head and its ptr

vars == <<prev, next, list, alive, popped, iter>>

Link == Heads \cup Nodes
NoIter == [head |-> Nobody, ptr |-> Nobody]
Idle == iter = NoIter

Members(h) == ToSet(list[h])
Listed == UNION {Members(h) : h \in Heads}

(* link_t::linked() *)
Linked(n) == prev[n] # n

Init ==
  /\ prev = [x \in Link |-> x] /\ next = [x \in Link |-> x]
  /\ list = [h \in Heads |-> <<>>]
  /\ alive = {} /\ popped = {}
  /\ iter = NoIter

-----------------------------------------------------------------------------
(* link_t::link_t() *)
New(n) ==
  /\ Idle /\ n \notin alive
  /\ alive' = alive \cup {n}
  /\ prev' = [prev EXCEPT ![n] = n] /\ next' = [next EXCEPT ![n] = n]
  /\ UNCHANGED <<list, popped, iter>>

Delete(n) ==
  /\ Idle /\ n \in alive \ Listed
  /\ alive' = alive \ {n} /\ popped' = popped \ {n}
  /\ UNCHANGED <<prev, next, list, iter>>

(* What the pointers become when n is linked in between a and b. *)
Insert(a, n, b) ==
  /\ prev' = [prev EXCEPT ![n] = a, ![b] = n]
  /\ next' = [next EXCEPT ![n] = b, ![a] = n]

(* Mutant of InsertFront: m_next is overwritten before it is used. *)
InsertFrontLate(h, n) ==
  /\ prev' = [prev EXCEPT ![n] = h]
  /\ next' = [next EXCEPT ![n] = next[h], ![h] = n]

InsertFront(h, n) == Insert(h, n, next[h])
InsertBack(h, n) == Insert(prev[h], n, h)

PushFront(h, n) ==
  /\ Idle /\ n \in alive \ Listed
  /\ InsertFront(h, n)
  /\ list' = [list EXCEPT ![h] = <<n>> \o @]
  /\ popped' = popped \ {n}
  /\ UNCHANGED <<alive, iter>>

PushBack(h, n) ==
  /\ Idle /\ n \in alive \ Listed
  /\ InsertBack(h, n)
  /\ list' = [list EXCEPT ![h] = Append(@, n)]
  /\ popped' = popped \ {n}
  /\ UNCHANGED <<alive, iter>>

(* The popped node keeps its own pointers. *)
PopFront(h) ==
  /\ Idle /\ Linked(h)
  /\ next' = [next EXCEPT ![h] = next[next[h]]]
  /\ prev' = [prev EXCEPT ![next[next[h]]] = h]
  /\ list' = [list EXCEPT ![h] = RemoveFirst(@, next[h])]
  /\ popped' = popped \cup {next[h]}
  /\ UNCHANGED <<alive, iter>>

PopBack(h) ==
  /\ Idle /\ Linked(h)
  /\ prev' = [prev EXCEPT ![h] = prev[prev[h]]]
  /\ next' = [next EXCEPT ![prev[prev[h]]] = h]
  /\ list' = [list EXCEPT ![h] = RemoveFirst(@, prev[h])]
  /\ popped' = popped \cup {prev[h]}
  /\ UNCHANGED <<alive, iter>>

(* Mutant of Cut: the neighbours are joined in one direction only. *)
CutForward(n) ==
  /\ next' = [next EXCEPT ![prev[n]] = next[n], ![n] = n]
  /\ prev' = [prev EXCEPT ![n] = n]

(* link_t::unlink() *)
Cut(n) ==
  IF Linked(n)
  THEN /\ next' = [next EXCEPT ![prev[n]] = next[n], ![n] = n]
       /\ prev' = [prev EXCEPT ![next[n]] = prev[n], ![n] = n]
  ELSE UNCHANGED <<prev, next>>

Unlink(n) ==
  /\ Idle /\ n \in alive \ popped
  /\ Cut(n)
  /\ list' = [h \in Heads |-> RemoveFirst(list[h], n)]
  /\ UNCHANGED <<alive, popped, iter>>

-----------------------------------------------------------------------------
(* for_each() and clear() *)

ForEachStart(h) ==
  /\ Idle
  /\ iter' = [head |-> h, ptr |-> next[h]]
  /\ UNCHANGED <<prev, next, list, alive, popped>>

(* Mutant of Advance: the node is read after the callback unlinked it. *)
AdvanceLate(n) == next'[n]

(* ptr is advanced before the callback. *)
Advance(n) == next[n]

(* One call of the callback. *)
ForEachStep ==
  LET n == iter.ptr
      h == iter.head
  IN  /\ ~Idle /\ n # h
      /\ Cut(n) \/ UNCHANGED <<prev, next>>
      /\ alive' = alive \ {n}
      /\ list' = [list EXCEPT ![h] = RemoveFirst(@, n)]
      /\ iter' = [iter EXCEPT !.ptr = Advance(n)]
      /\ UNCHANGED popped

ForEachEnd ==
  LET h == iter.head
  IN  /\ ~Idle /\ iter.ptr = h
      /\ prev' = [prev EXCEPT ![h] = h] /\ next' = [next EXCEPT ![h] = h]
      /\ iter' = NoIter
      /\ UNCHANGED <<list, alive, popped>>

-----------------------------------------------------------------------------
Next ==
  \/ \E n \in Nodes : New(n) \/ Delete(n) \/ Unlink(n)
  \/ \E h \in Heads, n \in Nodes : PushFront(h, n) \/ PushBack(h, n)
  \/ \E h \in Heads : PopFront(h) \/ PopBack(h) \/ ForEachStart(h)
  \/ ForEachStep \/ ForEachEnd

Spec == Init /\ [][Next]_vars /\ WF_vars(ForEachStep \/ ForEachEnd)

-----------------------------------------------------------------------------
(* Properties *)

(* Every variable has its type. *)
TypeOK ==
  /\ prev \in [Link -> Link] /\ next \in [Link -> Link]
  /\ list \in [Heads -> Seq(Nodes)]
  /\ alive \subseteq Nodes /\ popped \subseteq alive
  /\ iter \in [head : Heads, ptr : Link] \cup {NoIter}

(* The ring of h, from 0: the head, its nodes, the head again. *)
Ring(h) == [i \in 0 .. Len(list[h]) + 1 |-> IF i \in DOMAIN list[h] THEN list[h][i] ELSE h]

(* The pointers of every head represent its list, in both directions, so    *)
(* that no node is in two lists or twice in one; no list reaches a node     *)
(* that was deleted.                                                        *)
Represents ==
  /\ Listed \subseteq alive
  /\ Idle => \A h \in Heads : \A i \in 0 .. Len(list[h]) :
               /\ next[Ring(h)[i]] = Ring(h)[i + 1]
               /\ prev[Ring(h)[i + 1]] = Ring(h)[i]

(* for_each() calls back for the nodes of the list in order, whatever the   *)
(* callbacks do with them, and never for a deleted node.                    *)
VisitsInOrder ==
  ~Idle => iter.ptr = IF list[iter.head] = <<>> THEN iter.head ELSE list[iter.head][1]

(* for_each() and clear() end. *)
IterationEnds == ~Idle ~> Idle
=============================================================================
