--------------------------- MODULE LinkListProofs ---------------------------
(***************************************************************************)
(* Proofs about LinkList: for any number of lists and nodes, and any legal *)
(* sequence of calls, the pointers represent the lists, and iteration      *)
(* visits the nodes in order although the callbacks delete them.           *)
(***************************************************************************)
EXTENDS LinkList, SequenceTheorems, TLAPS

(* No node is twice in a list, or in two lists.                             *)
Apart ==
  \A h, g \in Heads : \A i \in 1 .. Len(list[h]), j \in 1 .. Len(list[g]) :
    list[h][i] = list[g][j] => h = g /\ i = j

(* Nodes in no list, unless they were popped, are linked to themselves.     *)
Loose ==
  /\ Listed \subseteq alive /\ popped \cap Listed = {}
  /\ \A n \in alive \ (Listed \cup popped) : prev[n] = n /\ next[n] = n

(* The ring of h is linked from place i to the next one, in both directions *)
Joined(h, i) == next[Ring(h)[i]] = Ring(h)[i + 1] /\ prev[Ring(h)[i + 1]] = Ring(h)[i]

(* Each ring is closed, but for the head of one that is iterated.           *)
Linkage ==
  \A h \in Heads : \A i \in 0 .. Len(list[h]) : (h = iter.head => i > 0) => Joined(h, i)

(* ptr is at the first node that is left, which hangs on the head or on a   *)
(* node that was deleted.                                                   *)
Visiting ==
  ~Idle =>
    /\ iter.ptr = Ring(iter.head)[1]
    /\ list[iter.head] # <<>> => prev[iter.ptr] \in {iter.head} \cup (Nodes \ alive)

LInv == TypeOK /\ Apart /\ Loose /\ Linkage /\ Visiting

-----------------------------------------------------------------------------
(* The places of a ring, now and after a step. *)
LEMMA RingAt ==
  ASSUME TypeOK, NEW h \in Heads
  PROVE  /\ Len(list[h]) \in Nat /\ list[h] \in Seq(Nodes)
         /\ Ring(h)[0] = h /\ Ring(h)[Len(list[h]) + 1] = h
         /\ \A i \in 1 .. Len(list[h]) : Ring(h)[i] = list[h][i] /\ list[h][i] \in Nodes
BY DEF TypeOK, Ring

LEMMA RingAtNext ==
  ASSUME list' \in [Heads -> Seq(Nodes)], NEW h \in Heads
  PROVE  /\ Len(list'[h]) \in Nat /\ list'[h] \in Seq(Nodes)
         /\ Ring(h)'[0] = h /\ Ring(h)'[Len(list'[h]) + 1] = h
         /\ \A i \in 1 .. Len(list'[h]) : Ring(h)'[i] = list'[h][i] /\ list'[h][i] \in Nodes
BY DEF Ring

LEMMA RingInLink ==
  ASSUME TypeOK, NEW h \in Heads, NEW i \in 0 .. Len(list[h]) + 1
  PROVE  Ring(h)[i] \in Link
<1>1. i = 0 \/ i = Len(list[h]) + 1 \/ i \in 1 .. Len(list[h])
  BY RingAt
<1> QED
  BY <1>1, RingAt DEF Link

(* The nodes that are in a list. *)
LEMMA ListedAt ==
  ASSUME TypeOK, NEW x
  PROVE  x \in Listed <=> \E h \in Heads : \E i \in 1 .. Len(list[h]) : list[h][i] = x
BY DEF TypeOK, Listed, Members, ToSet

LEMMA ListedAtNext ==
  ASSUME list' \in [Heads -> Seq(Nodes)], NEW x
  PROVE  x \in Listed' <=> \E h \in Heads : \E i \in 1 .. Len(list'[h]) : list'[h][i] = x
BY DEF Listed, Members, ToSet

(* Up to the head that closes it, no ring passes a place of another or one  *)
(* of its own again.                                                        *)
LEMMA RingsApart ==
  ASSUME TypeOK, Apart, NEW h \in Heads, NEW g \in Heads,
         NEW i \in 0 .. Len(list[h]), NEW j \in 0 .. Len(list[g]), Ring(h)[i] = Ring(g)[j]
  PROVE  h = g /\ i = j
<1>1. CASE i = 0 /\ j = 0
  BY <1>1, RingAt
<1>2. CASE i = 0 /\ j > 0
  <2>1. h = list[g][j] /\ list[g][j] \in Nodes
    BY <1>2, RingAt
  <2> QED
    BY <2>1, LinkAssumption
<1>3. CASE i > 0 /\ j = 0
  <2>1. g = list[h][i] /\ list[h][i] \in Nodes
    BY <1>3, RingAt
  <2> QED
    BY <2>1, LinkAssumption
<1>4. CASE i > 0 /\ j > 0
  <2>1. i \in 1 .. Len(list[h]) /\ j \in 1 .. Len(list[g]) /\ list[h][i] = list[g][j]
    BY <1>4, RingAt
  <2> QED
    BY <2>1 DEF Apart
<1> QED
  BY <1>1, <1>2, <1>3, <1>4, RingAt

-----------------------------------------------------------------------------
(* n goes into the list of h at place p. *)
Inserted(h, p, n) ==
  /\ list' \in [Heads -> Seq(Nodes)]
  /\ Len(list'[h]) = Len(list[h]) + 1
  /\ \A i \in 1 .. p - 1 : list'[h][i] = list[h][i]
  /\ list'[h][p] = n
  /\ \A i \in p .. Len(list[h]) : list'[h][i + 1] = list[h][i]
  /\ \A g \in Heads \ {h} : list'[g] = list[g]

LEMMA InsertedRing ==
  ASSUME TypeOK, NEW h \in Heads, NEW n \in Nodes, NEW p \in 1 .. Len(list[h]) + 1,
         Inserted(h, p, n)
  PROVE  /\ \A i \in 0 .. p - 1 : Ring(h)'[i] = Ring(h)[i]
         /\ Ring(h)'[p] = n
         /\ \A i \in p .. Len(list[h]) + 1 : Ring(h)'[i + 1] = Ring(h)[i]
         /\ \A g \in Heads \ {h} : Ring(g)' = Ring(g)
         /\ Len(list'[h]) = Len(list[h]) + 1 /\ Len(list[h]) \in Nat
<1>1. Len(list[h]) \in Nat /\ p \in Nat
  BY RingAt
<1>2. \A i \in 0 .. p - 1 : Ring(h)'[i] = Ring(h)[i]
  <2> SUFFICES ASSUME NEW i \in 0 .. p - 1 PROVE Ring(h)'[i] = Ring(h)[i]
    OBVIOUS
  <2>1. CASE i = 0
    BY <2>1, RingAt, RingAtNext DEF Inserted
  <2>2. CASE i > 0
    <3>1. i \in 1 .. Len(list[h]) /\ i \in 1 .. p - 1 /\ i \in 1 .. Len(list'[h])
      BY <1>1, <2>2 DEF Inserted
    <3> QED
      BY <3>1, RingAt, RingAtNext DEF Inserted
  <2> QED
    BY <2>1, <2>2
<1>3. Ring(h)'[p] = n
  <2>1. p \in 1 .. Len(list'[h])
    BY <1>1 DEF Inserted
  <2> QED
    BY <2>1, RingAtNext DEF Inserted
<1>4. \A i \in p .. Len(list[h]) + 1 : Ring(h)'[i + 1] = Ring(h)[i]
  <2> SUFFICES ASSUME NEW i \in p .. Len(list[h]) + 1 PROVE Ring(h)'[i + 1] = Ring(h)[i]
    OBVIOUS
  <2>1. CASE i = Len(list[h]) + 1
    BY <2>1, RingAt, RingAtNext DEF Inserted
  <2>2. CASE i # Len(list[h]) + 1
    <3>1. i \in 1 .. Len(list[h]) /\ i \in p .. Len(list[h]) /\ i + 1 \in 1 .. Len(list'[h])
      BY <1>1, <2>2 DEF Inserted
    <3> QED
      BY <3>1, RingAt, RingAtNext DEF Inserted
  <2> QED
    BY <2>1, <2>2
<1>5. \A g \in Heads \ {h} : Ring(g)' = Ring(g)
  BY DEF Inserted, Ring
<1> QED
  BY <1>1, <1>2, <1>3, <1>4, <1>5 DEF Inserted

LEMMA InsertKeeps ==
  ASSUME LInv, Idle, NEW h \in Heads, NEW n \in alive \ Listed, NEW p \in 1 .. Len(list[h]) + 1,
         Inserted(h, p, n), Insert(Ring(h)[p - 1], n, Ring(h)[p]),
         popped' = popped \ {n}, UNCHANGED <<alive, iter>>
  PROVE  LInv'
<1> DEFINE L == Len(list[h])
           a == Ring(h)[p - 1]
           b == Ring(h)[p]
<1>1. TypeOK /\ Apart /\ Loose /\ Linkage /\ n \in Nodes /\ n \notin Heads
  BY LinkAssumption DEF LInv, TypeOK
<1>2. /\ \A i \in 0 .. p - 1 : Ring(h)'[i] = Ring(h)[i]
      /\ Ring(h)'[p] = n
      /\ \A i \in p .. L + 1 : Ring(h)'[i + 1] = Ring(h)[i]
      /\ \A g \in Heads \ {h} : Ring(g)' = Ring(g)
      /\ Len(list'[h]) = L + 1 /\ L \in Nat /\ p \in Nat
  BY <1>1, InsertedRing
<1>3. /\ p - 1 \in 0 .. L /\ a \in Link
      /\ p \in 0 .. L + 1 /\ b \in Link
  BY <1>1, <1>2, RingAt DEF Link
<1>4. \A g \in Heads : \A i \in 0 .. Len(list[g]) : Ring(g)[i] # n
  <2> SUFFICES ASSUME NEW g \in Heads, NEW i \in 0 .. Len(list[g]), Ring(g)[i] = n PROVE FALSE
    OBVIOUS
  <2>1. i # 0
    BY <1>1, RingAt
  <2>2. i \in 1 .. Len(list[g]) /\ list[g][i] = n
    BY <1>1, <2>1, RingAt
  <2> QED
    BY <1>1, <2>2, ListedAt
<1>5. /\ prev' \in [Link -> Link] /\ next' \in [Link -> Link]
      /\ n # a /\ n # b
      /\ next'[n] = b /\ next'[a] = n /\ prev'[n] = a /\ prev'[b] = n
      /\ \A x \in Link \ {n} : (x # a => next'[x] = next[x]) /\ (x # b => prev'[x] = prev[x])
  <2>1. n # a
    BY <1>3, <1>4
  <2>2. n # b
    <3>1. CASE p = L + 1
      BY <1>1, <3>1, RingAt
    <3>2. CASE p # L + 1
      <4>1. p \in 0 .. L
        BY <1>2, <1>3, <3>2
      <4> QED
        BY <1>4, <4>1
    <3> QED
      BY <3>1, <3>2
  <2>3. n \in Link /\ prev \in [Link -> Link] /\ next \in [Link -> Link]
    BY <1>1 DEF TypeOK, Link
  <2> HIDE DEF a, b
  <2> QED
    BY <1>3, <2>1, <2>2, <2>3 DEF Insert, a, b
<1> HIDE DEF a, b
<1>6. TypeOK'
  BY <1>1, <1>5 DEF TypeOK, Inserted
<1>7. \A x : x \in Listed' <=> x \in Listed \/ x = n
  <2> SUFFICES ASSUME NEW x PROVE x \in Listed' <=> x \in Listed \/ x = n
    OBVIOUS
  <2>1. ASSUME x \in Listed PROVE x \in Listed'
    <3>0. PICK g \in Heads : \E i \in 1 .. Len(list[g]) : list[g][i] = x
      BY <1>1, <2>1, ListedAt
    <3>1. PICK i \in 1 .. Len(list[g]) : list[g][i] = x
      BY <3>0
    <3>2. CASE g # h
      BY <3>1, <3>2, ListedAtNext DEF Inserted
    <3>3. CASE g = h /\ i < p
      <4>1. i \in 1 .. p - 1 /\ i \in 1 .. Len(list'[h])
        BY <1>2, <3>3
      <4> QED
        BY <3>1, <3>3, <4>1, ListedAtNext DEF Inserted
    <3>4. CASE g = h /\ i >= p
      <4>1. i \in p .. Len(list[h]) /\ i + 1 \in 1 .. Len(list'[h])
        BY <1>2, <3>4
      <4>2. list'[h][i + 1] = x
        BY <3>1, <3>4, <4>1 DEF Inserted
      <4> QED
        BY <4>1, <4>2, ListedAtNext DEF Inserted
    <3> QED
      BY <1>2, <3>2, <3>3, <3>4
  <2>2. n \in Listed'
    <3>1. p \in 1 .. Len(list'[h]) /\ list'[h][p] = n
      BY <1>2 DEF Inserted
    <3> QED
      BY <3>1, ListedAtNext DEF Inserted
  <2>3. ASSUME x \in Listed', x # n PROVE x \in Listed
    <3>0. PICK g \in Heads : \E i \in 1 .. Len(list'[g]) : list'[g][i] = x
      BY <2>3, ListedAtNext DEF Inserted
    <3>1. PICK i \in 1 .. Len(list'[g]) : list'[g][i] = x
      BY <3>0
    <3>2. CASE g # h
      BY <1>1, <3>1, <3>2, ListedAt DEF Inserted
    <3>3. CASE g = h /\ i < p
      <4>1. i \in 1 .. p - 1 /\ i \in 1 .. Len(list[h])
        BY <1>2, <3>3
      <4> QED
        BY <1>1, <3>1, <3>3, <4>1, ListedAt DEF Inserted
    <3>4. CASE g = h /\ i > p
      <4>1. i - 1 \in p .. Len(list[h]) /\ i - 1 \in 1 .. Len(list[h]) /\ i = (i - 1) + 1
        BY <1>2, <3>4
      <4>2. list[h][i - 1] = x
        BY <3>1, <3>4, <4>1 DEF Inserted
      <4> QED
        BY <1>1, <4>1, <4>2, ListedAt
    <3>5. CASE g = h /\ i = p
      BY <2>3, <3>1, <3>5 DEF Inserted
    <3> QED
      BY <1>2, <3>2, <3>3, <3>4, <3>5
  <2> QED
    BY <2>1, <2>2, <2>3
<1>8. Apart'
  <2> SUFFICES ASSUME NEW g \in Heads, NEW k \in Heads, NEW i \in 1 .. Len(list'[g]),
                      NEW j \in 1 .. Len(list'[k]), list'[g][i] = list'[k][j]
               PROVE  g = k /\ i = j
    BY DEF Apart
  <2>1. ASSUME NEW f \in Heads, NEW l \in 1 .. Len(list'[f]), f # h \/ l # p
        PROVE  \E m \in 1 .. Len(list[f]) :
                 list'[f][l] = list[f][m] /\ m = IF f # h \/ l < p THEN l ELSE l - 1
    <3>1. CASE f # h
      BY <3>1 DEF Inserted
    <3>2. CASE f = h /\ l < p
      <4>1. l \in 1 .. p - 1 /\ l \in 1 .. Len(list[f])
        BY <1>2, <3>2
      <4> QED
        BY <3>2, <4>1 DEF Inserted
    <3>3. CASE f = h /\ l > p
      <4>1. l - 1 \in p .. Len(list[h]) /\ l - 1 \in 1 .. Len(list[h]) /\ l = (l - 1) + 1 /\ ~(l < p)
        BY <1>2, <3>3
      <4>2. list'[h][l] = list[h][l - 1]
        BY <4>1 DEF Inserted
      <4> QED
        BY <3>3, <4>1, <4>2
    <3> QED
      BY <1>2, <2>1, <3>1, <3>2, <3>3
  <2>2. ASSUME NEW f \in Heads, NEW l \in 1 .. Len(list'[f]), f # h \/ l # p
        PROVE  list'[f][l] # n
    <3>1. PICK m \in 1 .. Len(list[f]) : list'[f][l] = list[f][m]
      BY <2>1, <2>2
    <3> QED
      BY <1>1, <3>1, ListedAt
  <2>3. list'[h][p] = n
    BY DEF Inserted
  <2>4. CASE g = h /\ i = p
    BY <2>2, <2>3, <2>4
  <2>5. CASE k = h /\ j = p
    BY <2>2, <2>3, <2>5
  <2>6. CASE ~(g = h /\ i = p) /\ ~(k = h /\ j = p)
    <3>1. PICK m \in 1 .. Len(list[g]) :
            list'[g][i] = list[g][m] /\ m = IF g # h \/ i < p THEN i ELSE i - 1
      BY <2>1, <2>6
    <3>2. PICK o \in 1 .. Len(list[k]) :
            list'[k][j] = list[k][o] /\ o = IF k # h \/ j < p THEN j ELSE j - 1
      BY <2>1, <2>6
    <3>3. g = k /\ m = o
      <4>1. list[g][m] = list[k][o]
        BY <3>1, <3>2
      <4> QED
        BY <1>1, <4>1, SMTT(30) DEF Apart
    <3>4. i \in Int /\ j \in Int /\ p \in Int
      BY <1>1, <1>2, RingAtNext DEF Inserted
    <3> QED
      BY <2>6, <3>1, <3>2, <3>3, <3>4
  <2> QED
    BY <2>4, <2>5, <2>6
<1>9. Loose'
  <2>1. Listed' \subseteq alive' /\ popped' \cap Listed' = {}
    BY <1>1, <1>7 DEF Loose
  <2>2. ASSUME NEW x \in alive' \ (Listed' \cup popped') PROVE prev'[x] = x /\ next'[x] = x
    <3>1. x \in alive \ (Listed \cup popped) /\ x # n /\ x \in Nodes
      BY <1>1, <1>7, <2>2 DEF TypeOK
    <3>2. x # a /\ x # b
      <4>1. \A i \in 0 .. L + 1 : Ring(h)[i] # x
        <5> SUFFICES ASSUME NEW i \in 0 .. L + 1, Ring(h)[i] = x PROVE FALSE
          OBVIOUS
        <5>1. i # 0 /\ i # L + 1
          BY <1>1, <3>1, RingAt, LinkAssumption
        <5>2. i \in 1 .. L /\ list[h][i] = x
          BY <1>1, <1>2, <5>1, RingAt
        <5> QED
          BY <1>1, <3>1, <5>2, ListedAt
      <4>2. p - 1 \in 0 .. L + 1
        BY <1>2, <1>3
      <4> QED
        BY <1>3, <4>1, <4>2 DEF a, b
    <3>3. prev[x] = x /\ next[x] = x /\ x \in Link
      BY <1>1, <3>1 DEF Loose, Link
    <3> QED
      BY <1>5, <3>1, <3>2, <3>3
  <2> QED
    BY <2>1, <2>2 DEF Loose
<1>10. Linkage'
  <2>0. iter.head \notin Heads /\ iter' = iter
    BY LinkAssumption DEF Idle, NoIter
  <2> SUFFICES ASSUME NEW g \in Heads, NEW i \in 0 .. Len(list'[g])
               PROVE  Joined(g, i)'
    BY DEF Linkage
  <2>1. \A k \in Heads : \A j \in 0 .. Len(list[k]) : Joined(k, j)
    BY <1>1, <2>0 DEF Linkage
  <2>2. ASSUME NEW k \in Heads, NEW j \in 0 .. Len(list[k]), k # h \/ j # p - 1
        PROVE  next'[Ring(k)[j]] = Ring(k)[j + 1] /\ prev'[Ring(k)[j + 1]] = Ring(k)[j]
    <3>1. /\ next[Ring(k)[j]] = Ring(k)[j + 1] /\ prev[Ring(k)[j + 1]] = Ring(k)[j]
          /\ Ring(k)[j] \in Link \ {n} /\ Ring(k)[j + 1] \in Link \ {n}
      <4>1. Ring(k)[j] \in Link /\ Ring(k)[j + 1] \in Link
        <5>1. j \in 0 .. Len(list[k]) + 1 /\ j + 1 \in 0 .. Len(list[k]) + 1
          BY <1>1, RingAt
        <5> QED
          BY <1>1, <5>1, RingInLink
      <4>2. Ring(k)[j + 1] # n
        <5>1. CASE j = Len(list[k])
          BY <1>1, <5>1, RingAt
        <5>2. CASE j # Len(list[k])
          <6>1. j + 1 \in 0 .. Len(list[k])
            BY <1>1, <5>2, RingAt
          <6> QED
            BY <1>4, <6>1
        <5> QED
          BY <5>1, <5>2
      <4> QED
        BY <1>4, <2>1, <4>1, <4>2 DEF Joined
    <3>2. Ring(k)[j] # a
      BY <1>1, <1>3, <2>2, RingsApart DEF a
    <3>3. Ring(k)[j + 1] # b
      <4> SUFFICES ASSUME Ring(k)[j + 1] = b PROVE FALSE
        OBVIOUS
      <4>1. p = (p - 1) + 1 /\ prev[b] = a
        <5>1. p = (p - 1) + 1
          BY <1>2
        <5>2. prev[Ring(h)[(p - 1) + 1]] = Ring(h)[p - 1]
          BY <1>3, <2>1 DEF Joined
        <5> QED
          BY <5>1, <5>2 DEF a, b
      <4> QED
        BY <3>1, <3>2, <4>1
    <3> QED
      BY <1>5, <3>1, <3>2, <3>3
  <2>3. CASE g # h
    <3>1. Ring(g)' = Ring(g) /\ Len(list'[g]) = Len(list[g])
      BY <1>2, <2>3 DEF Inserted
    <3> QED
      BY <2>2, <2>3, <3>1 DEF Joined
  <2>4. CASE g = h /\ i < p - 1
    <3>1. i \in 0 .. p - 1 /\ i + 1 \in 0 .. p - 1 /\ i \in 0 .. L
      BY <1>2, <2>4
    <3>2. Ring(h)'[i] = Ring(h)[i] /\ Ring(h)'[i + 1] = Ring(h)[i + 1]
      BY <1>2, <3>1
    <3> QED
      BY <2>2, <2>4, <3>1, <3>2 DEF Joined
  <2>5. CASE g = h /\ i = p - 1
    <3>1. i + 1 = p /\ Ring(h)'[i] = a /\ Ring(h)'[p] = n
      BY <1>2, <1>3, <2>5 DEF a
    <3> QED
      BY <1>5, <2>5, <3>1 DEF Joined
  <2>6. CASE g = h /\ i = p
    <3>1. Ring(h)'[p + 1] = b /\ Ring(h)'[p] = n
      <4>1. p \in p .. L + 1
        BY <1>2
      <4> QED
        BY <1>2, <4>1 DEF b
    <3> QED
      BY <1>5, <2>6, <3>1 DEF Joined
  <2>7. CASE g = h /\ i > p
    <3>1. i - 1 \in p .. L + 1 /\ i \in p .. L + 1 /\ i - 1 \in 0 .. L /\ i - 1 # p - 1
          /\ i = (i - 1) + 1
      BY <1>2, <2>7
    <3>2. Ring(h)'[i] = Ring(h)[i - 1] /\ Ring(h)'[i + 1] = Ring(h)[i]
      BY <1>2, <3>1
    <3>3. next'[Ring(h)[i - 1]] = Ring(h)[(i - 1) + 1] /\ prev'[Ring(h)[(i - 1) + 1]] = Ring(h)[i - 1]
      BY <2>2, <3>1
    <3> QED
      BY <2>7, <3>1, <3>2, <3>3 DEF Joined
  <2>8. i \in Int /\ p \in Int
    BY <1>2
  <2> QED
    BY <2>3, <2>4, <2>5, <2>6, <2>7, <2>8
<1>11. Visiting'
  BY DEF Visiting, Idle
<1> QED
  BY <1>6, <1>8, <1>9, <1>10, <1>11 DEF LInv

-----------------------------------------------------------------------------
(* The node at place p of the list of h leaves it. *)
Removed(h, p) ==
  /\ list' \in [Heads -> Seq(Nodes)]
  /\ Len(list'[h]) = Len(list[h]) - 1
  /\ \A i \in 1 .. p - 1 : list'[h][i] = list[h][i]
  /\ \A i \in p .. Len(list[h]) - 1 : list'[h][i] = list[h][i + 1]
  /\ \A g \in Heads \ {h} : list'[g] = list[g]

LEMMA RemovedRing ==
  ASSUME TypeOK, NEW h \in Heads, NEW p \in 1 .. Len(list[h]), Removed(h, p)
  PROVE  /\ \A i \in 0 .. p - 1 : Ring(h)'[i] = Ring(h)[i]
         /\ \A i \in p .. Len(list[h]) : Ring(h)'[i] = Ring(h)[i + 1]
         /\ \A g \in Heads \ {h} : Ring(g)' = Ring(g)
         /\ Len(list'[h]) = Len(list[h]) - 1 /\ Len(list[h]) \in Nat /\ p \in Nat
<1>1. Len(list[h]) \in Nat /\ p \in Nat
  BY RingAt
<1>2. \A i \in 0 .. p - 1 : Ring(h)'[i] = Ring(h)[i]
  <2> SUFFICES ASSUME NEW i \in 0 .. p - 1 PROVE Ring(h)'[i] = Ring(h)[i]
    OBVIOUS
  <2>1. CASE i = 0
    BY <2>1, RingAt, RingAtNext DEF Removed
  <2>2. CASE i > 0
    <3>1. i \in 1 .. Len(list[h]) /\ i \in 1 .. p - 1 /\ i \in 1 .. Len(list'[h])
      BY <1>1, <2>2 DEF Removed
    <3> QED
      BY <3>1, RingAt, RingAtNext DEF Removed
  <2> QED
    BY <2>1, <2>2
<1>3. \A i \in p .. Len(list[h]) : Ring(h)'[i] = Ring(h)[i + 1]
  <2> SUFFICES ASSUME NEW i \in p .. Len(list[h]) PROVE Ring(h)'[i] = Ring(h)[i + 1]
    OBVIOUS
  <2>1. CASE i = Len(list[h])
    <3>1. i = Len(list'[h]) + 1
      BY <1>1, <2>1 DEF Removed
    <3> QED
      BY <2>1, <3>1, RingAt, RingAtNext DEF Removed
  <2>2. CASE i # Len(list[h])
    <3>1. i + 1 \in 1 .. Len(list[h]) /\ i \in p .. Len(list[h]) - 1 /\ i \in 1 .. Len(list'[h])
      BY <1>1, <2>2 DEF Removed
    <3> QED
      BY <3>1, RingAt, RingAtNext DEF Removed
  <2> QED
    BY <2>1, <2>2
<1>4. \A g \in Heads \ {h} : Ring(g)' = Ring(g)
  BY DEF Removed, Ring
<1> QED
  BY <1>1, <1>2, <1>3, <1>4 DEF Removed

(* Where the nodes that stay were. *)
LEMMA RemovedPlace ==
  ASSUME TypeOK, NEW h \in Heads, NEW p \in 1 .. Len(list[h]), Removed(h, p),
         NEW g \in Heads, NEW l \in 1 .. Len(list'[g])
  PROVE  \E m \in 1 .. Len(list[g]) :
           /\ list'[g][l] = list[g][m] /\ m = IF g # h \/ l < p THEN l ELSE l + 1
           /\ g # h \/ m # p
<1>1. Len(list[h]) \in Nat /\ p \in Nat /\ l \in Int
  BY RingAt
<1>2. CASE g # h
  BY <1>2 DEF Removed
<1>3. CASE g = h /\ l < p
  <2>1. l \in 1 .. p - 1 /\ l \in 1 .. Len(list[h])
    BY <1>1, <1>3 DEF Removed
  <2> QED
    BY <1>3, <2>1 DEF Removed
<1>4. CASE g = h /\ ~(l < p)
  <2>1. l \in p .. Len(list[h]) - 1 /\ l + 1 \in 1 .. Len(list[h]) /\ l + 1 # p
    BY <1>1, <1>4 DEF Removed
  <2>2. list'[h][l] = list[h][l + 1]
    BY <2>1 DEF Removed
  <2> QED
    BY <1>4, <2>1, <2>2
<1> QED
  BY <1>2, <1>3, <1>4

LEMMA RemovedListed ==
  ASSUME TypeOK, Apart, NEW h \in Heads, NEW p \in 1 .. Len(list[h]), Removed(h, p), NEW x
  PROVE  x \in Listed' <=> x \in Listed /\ x # list[h][p]
<1>1. Len(list[h]) \in Nat /\ p \in Nat /\ Len(list'[h]) = Len(list[h]) - 1
  BY RingAt DEF Removed
<1>2. ASSUME x \in Listed, x # list[h][p] PROVE x \in Listed'
  <2>1. PICK g \in Heads : \E i \in 1 .. Len(list[g]) : list[g][i] = x
    BY <1>2, ListedAt
  <2>2. PICK i \in 1 .. Len(list[g]) : list[g][i] = x
    BY <2>1
  <2>3. CASE g # h
    BY <2>2, <2>3, ListedAtNext DEF Removed
  <2>4. CASE g = h /\ i < p
    <3>1. i \in 1 .. p - 1 /\ i \in 1 .. Len(list'[h])
      BY <1>1, <2>4
    <3> QED
      BY <2>2, <2>4, <3>1, ListedAtNext DEF Removed
  <2>5. CASE g = h /\ i > p
    <3>1. i - 1 \in p .. Len(list[h]) - 1 /\ i - 1 \in 1 .. Len(list'[h]) /\ i = (i - 1) + 1
      BY <1>1, <2>5
    <3>2. list'[h][i - 1] = x
      BY <2>2, <2>5, <3>1 DEF Removed
    <3> QED
      BY <3>1, <3>2, ListedAtNext DEF Removed
  <2>6. ~(g = h /\ i = p)
    BY <1>2, <2>2
  <2>7. i \in Int
    OBVIOUS
  <2> QED
    BY <1>1, <2>3, <2>4, <2>5, <2>6, <2>7
<1>3. ASSUME x \in Listed' PROVE x \in Listed /\ x # list[h][p]
  <2>1. PICK g \in Heads : \E l \in 1 .. Len(list'[g]) : list'[g][l] = x
    BY <1>3, ListedAtNext DEF Removed
  <2>2. PICK l \in 1 .. Len(list'[g]) : list'[g][l] = x
    BY <2>1
  <2>3. PICK m \in 1 .. Len(list[g]) : list[g][m] = x /\ (g # h \/ m # p)
    BY <2>2, RemovedPlace
  <2> QED
    BY <2>3, ListedAt DEF Apart
<1> QED
  BY <1>2, <1>3

LEMMA RemovedApart ==
  ASSUME TypeOK, Apart, NEW h \in Heads, NEW p \in 1 .. Len(list[h]), Removed(h, p)
  PROVE  Apart'
<1> SUFFICES ASSUME NEW g \in Heads, NEW k \in Heads, NEW i \in 1 .. Len(list'[g]),
                    NEW j \in 1 .. Len(list'[k]), list'[g][i] = list'[k][j]
             PROVE  g = k /\ i = j
  BY DEF Apart
<1>1. PICK m \in 1 .. Len(list[g]) :
        list'[g][i] = list[g][m] /\ m = IF g # h \/ i < p THEN i ELSE i + 1
  BY RemovedPlace
<1>2. PICK o \in 1 .. Len(list[k]) :
        list'[k][j] = list[k][o] /\ o = IF k # h \/ j < p THEN j ELSE j + 1
  BY RemovedPlace
<1>3. g = k /\ m = o
  <2>1. list[g][m] = list[k][o]
    BY <1>1, <1>2
  <2> QED
    BY <2>1 DEF Apart
<1>4. i \in Int /\ j \in Int /\ p \in Int
  OBVIOUS
<1> QED
  BY <1>1, <1>2, <1>3, <1>4

LEMMA RemoveKeeps ==
  ASSUME LInv, Idle, NEW h \in Heads, NEW p \in 1 .. Len(list[h]), NEW n, n = list[h][p],
         Removed(h, p), UNCHANGED <<alive, iter>>,
         prev' \in [Link -> Link], next' \in [Link -> Link],
         next'[Ring(h)[p - 1]] = Ring(h)[p + 1], prev'[Ring(h)[p + 1]] = Ring(h)[p - 1],
         \A x \in Link \ {n} : /\ x # Ring(h)[p - 1] => next'[x] = next[x]
                               /\ x # Ring(h)[p + 1] => prev'[x] = prev[x],
         \/ popped' = popped \cup {n}
         \/ popped' = popped /\ prev'[n] = n /\ next'[n] = n
  PROVE  LInv'
<1> DEFINE L == Len(list[h])
           a == Ring(h)[p - 1]
           b == Ring(h)[p + 1]
<1>1. TypeOK /\ Apart /\ Loose /\ Linkage
  BY DEF LInv
<1>2. /\ \A i \in 0 .. p - 1 : Ring(h)'[i] = Ring(h)[i]
      /\ \A i \in p .. L : Ring(h)'[i] = Ring(h)[i + 1]
      /\ \A g \in Heads \ {h} : Ring(g)' = Ring(g)
      /\ Len(list'[h]) = L - 1 /\ L \in Nat /\ p \in Nat
  BY <1>1, RemovedRing
<1>3. /\ Ring(h)[p] = n /\ n \in Nodes /\ n \in Listed /\ p \in 0 .. L
      /\ p - 1 \in 0 .. L + 1 /\ p + 1 \in 0 .. L + 1 /\ p - 1 \in 0 .. L
      /\ a \in Link /\ b \in Link
  <2>1. p - 1 \in 0 .. L + 1 /\ p + 1 \in 0 .. L + 1 /\ p - 1 \in 0 .. L /\ p \in 0 .. L
    BY <1>2
  <2> QED
    BY <1>1, <2>1, RingAt, RingInLink, ListedAt
<1> HIDE DEF a, b
<1>4. TypeOK'
  <2>1. n \in alive
    BY <1>1, <1>3 DEF Loose
  <2> QED
    BY <1>1, <2>1 DEF TypeOK, Removed
<1>5. Apart'
  BY <1>1, RemovedApart
<1>6. \A x : x \in Listed' <=> x \in Listed /\ x # n
  BY <1>1, RemovedListed
<1>7. Loose'
  <2>1. Listed' \subseteq alive' /\ popped' \cap Listed' = {}
    BY <1>1, <1>6 DEF Loose
  <2>2. ASSUME NEW x \in alive' \ (Listed' \cup popped') PROVE prev'[x] = x /\ next'[x] = x
    <3>1. CASE x = n
      BY <2>2, <3>1
    <3>2. CASE x # n
      <4>1. x \in alive \ (Listed \cup popped) /\ x \in Nodes /\ x \in Link \ {n}
        BY <1>1, <1>6, <2>2, <3>2 DEF TypeOK, Link
      <4>2. \A i \in 0 .. L + 1 : Ring(h)[i] # x
        <5> SUFFICES ASSUME NEW i \in 0 .. L + 1, Ring(h)[i] = x PROVE FALSE
          OBVIOUS
        <5>1. i # 0 /\ i # L + 1
          BY <1>1, <4>1, RingAt, LinkAssumption
        <5>2. i \in 1 .. L /\ list[h][i] = x
          BY <1>1, <1>2, <5>1, RingAt
        <5> QED
          BY <1>1, <4>1, <5>2, ListedAt
      <4>3. x # a /\ x # b
        BY <1>3, <4>2 DEF a, b
      <4>4. prev[x] = x /\ next[x] = x
        BY <1>1, <4>1 DEF Loose
      <4> QED
        BY <4>1, <4>3, <4>4 DEF a, b
    <3> QED
      BY <3>1, <3>2
  <2> QED
    BY <2>1, <2>2 DEF Loose
<1>8. Linkage'
  <2>0. iter.head \notin Heads /\ iter' = iter
    BY LinkAssumption DEF Idle, NoIter
  <2> SUFFICES ASSUME NEW g \in Heads, NEW i \in 0 .. Len(list'[g])
               PROVE  Joined(g, i)'
    BY DEF Linkage
  <2>1. \A k \in Heads : \A j \in 0 .. Len(list[k]) : Joined(k, j)
    BY <1>1, <2>0 DEF Linkage
  <2>2. ASSUME NEW k \in Heads, NEW j \in 0 .. Len(list[k]), k # h \/ (j # p - 1 /\ j # p)
        PROVE  next'[Ring(k)[j]] = Ring(k)[j + 1] /\ prev'[Ring(k)[j + 1]] = Ring(k)[j]
    <3>1. next[Ring(k)[j]] = Ring(k)[j + 1] /\ prev[Ring(k)[j + 1]] = Ring(k)[j]
      BY <2>1 DEF Joined
    <3>2. Ring(k)[j] \in Link /\ Ring(k)[j + 1] \in Link
      <4>1. j \in 0 .. Len(list[k]) + 1 /\ j + 1 \in 0 .. Len(list[k]) + 1
        BY <1>1, RingAt
      <4> QED
        BY <1>1, <4>1, RingInLink
    <3>3. Ring(k)[j] # a /\ Ring(k)[j] # n
      BY <1>1, <1>3, <2>2, RingsApart DEF a
    <3>4. Ring(k)[j + 1] # b
      <4>1. prev[b] = n
        BY <1>3, <2>1 DEF Joined, b
      <4> QED
        BY <3>1, <3>3, <4>1
    <3>5. Ring(k)[j + 1] # n
      <4>1. prev[n] = a
        <5>1. (p - 1) + 1 = p
          BY <1>2
        <5>2. prev[Ring(h)[(p - 1) + 1]] = Ring(h)[p - 1]
          BY <1>3, <2>1 DEF Joined
        <5> QED
          BY <1>3, <5>1, <5>2 DEF a
      <4> QED
        BY <3>1, <3>3, <4>1
    <3> QED
      BY <3>1, <3>2, <3>3, <3>4, <3>5 DEF a, b
  <2>3. CASE g # h
    <3>1. Ring(g)' = Ring(g) /\ Len(list'[g]) = Len(list[g])
      BY <1>2, <2>3 DEF Removed
    <3> QED
      BY <2>2, <2>3, <3>1 DEF Joined
  <2>4. CASE g = h /\ i < p - 1
    <3>1. i \in 0 .. p - 1 /\ i + 1 \in 0 .. p - 1 /\ i \in 0 .. L /\ i # p /\ i # p - 1
      BY <1>2, <2>4
    <3>2. Ring(h)'[i] = Ring(h)[i] /\ Ring(h)'[i + 1] = Ring(h)[i + 1]
      BY <1>2, <3>1
    <3> QED
      BY <2>2, <2>4, <3>1, <3>2 DEF Joined
  <2>5. CASE g = h /\ i = p - 1
    <3>1. i + 1 = p /\ Ring(h)'[i] = a /\ Ring(h)'[p] = b
      <4>1. i \in 0 .. p - 1 /\ p \in p .. L
        BY <1>2, <2>5
      <4> QED
        BY <1>2, <2>5, <4>1 DEF a, b
    <3> QED
      BY <2>5, <3>1 DEF Joined, a, b
  <2>6. CASE g = h /\ i > p - 1
    <3>1. i \in p .. L /\ i + 1 \in p .. L /\ i + 1 \in 0 .. L /\ i + 1 # p - 1 /\ i + 1 # p
      BY <1>2, <2>6, SMTT(30)
    <3>2. Ring(h)'[i] = Ring(h)[i + 1] /\ Ring(h)'[i + 1] = Ring(h)[(i + 1) + 1]
      BY <1>2, <3>1
    <3>3. /\ next'[Ring(h)[i + 1]] = Ring(h)[(i + 1) + 1]
          /\ prev'[Ring(h)[(i + 1) + 1]] = Ring(h)[i + 1]
      BY <2>2, <3>1
    <3> QED
      BY <2>6, <3>2, <3>3 DEF Joined
  <2>7. i \in Int /\ p \in Int
    BY <1>2
  <2> QED
    BY <2>3, <2>4, <2>5, <2>6, <2>7
<1>9. Visiting'
  BY DEF Visiting, Idle
<1> QED
  BY <1>4, <1>5, <1>7, <1>8, <1>9 DEF LInv

-----------------------------------------------------------------------------
(* RemoveFirst, in a sequence where nothing is twice. *)
LEMMA RemoveFirstAt ==
  ASSUME NEW S, NEW s \in Seq(S), NEW p \in 1 .. Len(s),
         \A i \in 1 .. Len(s) : s[i] = s[p] => i = p
  PROVE  LET t == RemoveFirst(s, s[p])
         IN  /\ t \in Seq(S) /\ Len(t) = Len(s) - 1
             /\ \A i \in 1 .. p - 1 : t[i] = s[i]
             /\ \A i \in p .. Len(s) - 1 : t[i] = s[i + 1]
<1> DEFINE I == {i \in 1 .. Len(s) : s[i] = s[p]}
           u == SubSeq(s, 1, p - 1)
           v == SubSeq(s, p + 1, Len(s))
<1>1. Min(I) = p
  <2>1. I = {p} /\ p \in Int
    OBVIOUS
  <2> HIDE DEF I
  <2> QED
    BY <2>1 DEF Min
<1>2. RemoveFirst(s, s[p]) = u \o v
  <2>1. SelectInSeq(s, LAMBDA w : w = s[p]) = IF I # {} THEN Min(I) ELSE 0
    BY DEF SelectInSeq
  <2>2. p \in I
    OBVIOUS
  <2>3. SelectInSeq(s, LAMBDA w : w = s[p]) = p
    BY <1>1, <2>1, <2>2
  <2>4. RemoveFirst(s, s[p]) = RemoveAt(s, SelectInSeq(s, LAMBDA w : w = s[p]))
    BY DEF RemoveFirst
  <2> QED
    BY <2>3, <2>4 DEF RemoveAt
<1>3. /\ u \in Seq(S) /\ Len(u) = p - 1 /\ \A i \in 1 .. p - 1 : u[i] = s[i]
      /\ v \in Seq(S) /\ Len(v) = Len(s) - p /\ \A i \in 1 .. Len(s) - p : v[i] = s[p + i]
  OBVIOUS
<1> HIDE DEF u, v
<1>4. /\ u \o v \in Seq(S) /\ Len(u \o v) = (p - 1) + (Len(s) - p)
      /\ \A i \in 1 .. (p - 1) + (Len(s) - p) :
           (u \o v)[i] = IF i <= p - 1 THEN u[i] ELSE v[i - (p - 1)]
  <2>1. /\ u \o v \in Seq(S) /\ Len(u \o v) = Len(u) + Len(v)
        /\ \A i \in 1 .. Len(u) + Len(v) :
             (u \o v)[i] = IF i <= Len(u) THEN u[i] ELSE v[i - Len(u)]
    <3>1. u \in Seq(S) /\ v \in Seq(S)
      BY <1>3
    <3> QED
      BY <3>1, ConcatProperties
  <2>2. Len(u) = p - 1 /\ Len(v) = Len(s) - p
    BY <1>3
  <2> QED
    BY <2>1, <2>2
<1>5. Len(s) \in Nat /\ p \in Nat /\ (p - 1) + (Len(s) - p) = Len(s) - 1
  OBVIOUS
<1>6. ASSUME NEW i \in 1 .. p - 1 PROVE (u \o v)[i] = s[i]
  BY <1>3, <1>4, <1>5
<1>7. ASSUME NEW i \in p .. Len(s) - 1 PROVE (u \o v)[i] = s[i + 1]
  <2>1. /\ i \in 1 .. (p - 1) + (Len(s) - p) /\ ~(i <= p - 1)
        /\ i - (p - 1) \in 1 .. Len(s) - p /\ p + (i - (p - 1)) = i + 1
    BY <1>5
  <2> QED
    BY <1>3, <1>4, <2>1
<1> QED
  BY <1>2, <1>4, <1>5, <1>6, <1>7

LEMMA RemoveFirstNot ==
  ASSUME NEW S, NEW s \in Seq(S), NEW e, \A i \in 1 .. Len(s) : s[i] # e
  PROVE  RemoveFirst(s, e) = s
BY DEF RemoveFirst

LEMMA RemovedFirst ==
  ASSUME TypeOK, Apart, NEW h \in Heads, NEW p \in 1 .. Len(list[h]),
         list' = [list EXCEPT ![h] = RemoveFirst(@, list[h][p])]
  PROVE  Removed(h, p)
<1> DEFINE t == RemoveFirst(list[h], list[h][p])
<1>1. list[h] \in Seq(Nodes) /\ \A i \in 1 .. Len(list[h]) : list[h][i] = list[h][p] => i = p
  BY RingAt DEF Apart
<1>2. /\ t \in Seq(Nodes) /\ Len(t) = Len(list[h]) - 1
      /\ \A i \in 1 .. p - 1 : t[i] = list[h][i]
      /\ \A i \in p .. Len(list[h]) - 1 : t[i] = list[h][i + 1]
  BY <1>1, RemoveFirstAt
<1>3. list' = [list EXCEPT ![h] = t]
  OBVIOUS
<1> HIDE DEF t
<1>4. list'[h] = t /\ list' \in [Heads -> Seq(Nodes)] /\ \A g \in Heads \ {h} : list'[g] = list[g]
  BY <1>2, <1>3 DEF TypeOK
<1> QED
  BY <1>2, <1>4 DEF Removed

-----------------------------------------------------------------------------
(* Every operation keeps the invariant. *)

LEMMA NewStep ==
  ASSUME LInv, NEW n \in Nodes, New(n)
  PROVE  LInv'
<1>1. /\ TypeOK /\ Apart /\ Loose /\ Linkage /\ Idle
      /\ n \notin alive /\ alive' = alive \cup {n} /\ UNCHANGED <<list, popped, iter>>
      /\ prev' = [prev EXCEPT ![n] = n] /\ next' = [next EXCEPT ![n] = n]
      /\ n \in Link /\ n \notin Listed
  BY DEF LInv, New, Loose, Link
<1>2. TypeOK' /\ Apart' /\ Visiting'
  BY <1>1 DEF TypeOK, Apart, Visiting, Idle
<1>3. Loose'
  <2>1. Listed' = Listed
    BY <1>1 DEF Listed, Members
  <2>2. ASSUME NEW x \in alive' \ (Listed' \cup popped') PROVE prev'[x] = x /\ next'[x] = x
    <3>1. x = n \/ x \in alive \ (Listed \cup popped)
      BY <1>1, <2>1, <2>2
    <3>2. x \in Link /\ prev \in [Link -> Link] /\ next \in [Link -> Link]
      BY <1>1, <3>1 DEF TypeOK, Link
    <3> QED
      BY <1>1, <3>1, <3>2 DEF Loose
  <2> QED
    BY <1>1, <2>1, <2>2 DEF Loose
<1>4. Linkage'
  <2> SUFFICES ASSUME NEW h \in Heads, NEW i \in 0 .. Len(list[h]), h = iter.head => i > 0
               PROVE  Joined(h, i)'
    BY <1>1 DEF Linkage
  <2>1. Ring(h)' = Ring(h)
    BY <1>1 DEF Ring
  <2>2. \A j \in 0 .. Len(list[h]) + 1 : Ring(h)[j] # n
    <3> SUFFICES ASSUME NEW j \in 0 .. Len(list[h]) + 1, Ring(h)[j] = n PROVE FALSE
      OBVIOUS
    <3>1. j # 0 /\ j # Len(list[h]) + 1
      BY <1>1, RingAt, LinkAssumption
    <3>2. j \in 1 .. Len(list[h]) /\ list[h][j] = n
      BY <1>1, <3>1, RingAt
    <3> QED
      BY <1>1, <3>2, ListedAt
  <2>3. i \in 0 .. Len(list[h]) + 1 /\ i + 1 \in 0 .. Len(list[h]) + 1
    BY <1>1, RingAt
  <2>4. /\ Ring(h)[i] \in Link /\ Ring(h)[i + 1] \in Link
        /\ Ring(h)[i] # n /\ Ring(h)[i + 1] # n
    BY <1>1, <2>2, <2>3, RingInLink
  <2>5. Joined(h, i) /\ prev \in [Link -> Link] /\ next \in [Link -> Link]
    BY <1>1 DEF Linkage, TypeOK
  <2> QED
    BY <1>1, <2>1, <2>4, <2>5 DEF Joined
<1> QED
  BY <1>2, <1>3, <1>4 DEF LInv

LEMMA DeleteStep ==
  ASSUME LInv, NEW n \in Nodes, Delete(n)
  PROVE  LInv'
<1>1. /\ TypeOK /\ Apart /\ Loose /\ Linkage /\ Idle
      /\ alive' = alive \ {n} /\ popped' = popped \ {n} /\ n \notin Listed
      /\ UNCHANGED <<prev, next, list, iter>>
  BY DEF LInv, Delete
<1>2. Listed' = Listed /\ Apart' /\ Visiting'
  BY <1>1 DEF Listed, Members, Apart, Visiting, Idle
<1>3. Linkage'
  <2>1. \A h \in Heads : Ring(h)' = Ring(h)
    BY <1>1 DEF Ring
  <2> QED
    BY <1>1, <2>1 DEF Linkage, Joined
<1>4. TypeOK' /\ Loose'
  BY <1>1, <1>2 DEF TypeOK, Loose
<1> QED
  BY <1>2, <1>3, <1>4 DEF LInv

LEMMA PushFrontStep ==
  ASSUME LInv, NEW h \in Heads, NEW n \in Nodes, PushFront(h, n)
  PROVE  LInv'
<1>1. /\ TypeOK /\ Linkage /\ Idle /\ n \in alive \ Listed
      /\ Insert(h, n, next[h])
      /\ list' = [list EXCEPT ![h] = <<n>> \o @]
      /\ popped' = popped \ {n} /\ UNCHANGED <<alive, iter>>
  BY DEF LInv, PushFront, InsertFront
<1>2. Len(list[h]) \in Nat /\ Ring(h)[0] = h /\ 1 \in 1 .. Len(list[h]) + 1 /\ 0 \in 0 .. Len(list[h])
  BY <1>1, RingAt
<1>3. next[h] = Ring(h)[1]
  <2>1. Joined(h, 0)
    BY <1>1, <1>2, LinkAssumption DEF Linkage, Idle, NoIter
  <2> QED
    BY <1>2, <2>1 DEF Joined
<1>4. Inserted(h, 1, n)
  <2> DEFINE t == <<n>> \o list[h]
  <2>1. /\ t \in Seq(Nodes) /\ Len(t) = Len(list[h]) + 1 /\ t[1] = n
        /\ \A i \in 1 .. Len(list[h]) : t[i + 1] = list[h][i]
    <3>1. list[h] \in Seq(Nodes) /\ <<n>> \in Seq(Nodes) /\ Len(<<n>>) = 1 /\ <<n>>[1] = n
      BY <1>1, RingAt
    <3>2. /\ t \in Seq(Nodes) /\ Len(t) = Len(<<n>>) + Len(list[h])
          /\ \A i \in 1 .. Len(<<n>>) + Len(list[h]) :
               t[i] = IF i <= Len(<<n>>) THEN <<n>>[i] ELSE list[h][i - Len(<<n>>)]
      BY <3>1, ConcatProperties
    <3>3. t[1] = n
      BY <1>2, <3>1, <3>2
    <3>4. ASSUME NEW i \in 1 .. Len(list[h]) PROVE t[i + 1] = list[h][i]
      <4>1. i + 1 \in 1 .. 1 + Len(list[h]) /\ ~(i + 1 <= 1) /\ (i + 1) - 1 = i
        BY <1>2
      <4> QED
        BY <3>1, <3>2, <4>1
    <3> QED
      BY <1>2, <3>1, <3>2, <3>3, <3>4
  <2>2. list' = [list EXCEPT ![h] = t]
    BY <1>1
  <2> HIDE DEF t
  <2>3. list'[h] = t /\ list' \in [Heads -> Seq(Nodes)] /\ \A g \in Heads \ {h} : list'[g] = list[g]
    BY <1>1, <2>1, <2>2 DEF TypeOK
  <2> QED
    BY <2>1, <2>3 DEF Inserted
<1>5. Insert(Ring(h)[1 - 1], n, Ring(h)[1])
  BY <1>1, <1>2, <1>3
<1> QED
  BY <1>1, <1>2, <1>4, <1>5, InsertKeeps

LEMMA PushBackStep ==
  ASSUME LInv, NEW h \in Heads, NEW n \in Nodes, PushBack(h, n)
  PROVE  LInv'
<1> DEFINE L == Len(list[h])
<1>1. /\ TypeOK /\ Linkage /\ Idle /\ n \in alive \ Listed
      /\ Insert(prev[h], n, h)
      /\ list' = [list EXCEPT ![h] = Append(@, n)]
      /\ popped' = popped \ {n} /\ UNCHANGED <<alive, iter>>
  BY DEF LInv, PushBack, InsertBack
<1>2. /\ L \in Nat /\ Ring(h)[L + 1] = h /\ L + 1 \in 1 .. L + 1 /\ L \in 0 .. L
      /\ (L + 1) - 1 = L
  BY <1>1, RingAt
<1>3. prev[h] = Ring(h)[L]
  <2>1. Joined(h, L)
    BY <1>1, <1>2, LinkAssumption DEF Linkage, Idle, NoIter
  <2> QED
    BY <1>2, <2>1 DEF Joined
<1>4. Inserted(h, L + 1, n)
  <2> DEFINE t == Append(list[h], n)
  <2>1. list[h] \in Seq(Nodes)
    BY <1>1, RingAt
  <2>2. /\ t \in Seq(Nodes) /\ Len(t) = L + 1 /\ t[L + 1] = n
        /\ \A i \in 1 .. L : t[i] = list[h][i]
    BY <2>1, AppendProperties
  <2>3. list' = [list EXCEPT ![h] = t]
    BY <1>1
  <2> HIDE DEF t
  <2>4. list'[h] = t /\ list' \in [Heads -> Seq(Nodes)] /\ \A g \in Heads \ {h} : list'[g] = list[g]
    BY <1>1, <2>2, <2>3 DEF TypeOK
  <2>5. (L + 1) .. L = {}
    BY <1>2
  <2> QED
    BY <1>2, <2>2, <2>4, <2>5 DEF Inserted
<1>5. Insert(Ring(h)[(L + 1) - 1], n, Ring(h)[L + 1])
  BY <1>1, <1>2, <1>3
<1> HIDE DEF L
<1>6. L + 1 \in 1 .. Len(list[h]) + 1
  BY <1>2 DEF L
<1> QED
  BY <1>1, <1>4, <1>5, <1>6, InsertKeeps

LEMMA UnchangedStep ==
  ASSUME LInv, UNCHANGED vars
  PROVE  LInv'
<1>1. /\ UNCHANGED <<prev, next, list, alive, popped, iter>>
      /\ Listed' = Listed /\ \A h \in Heads : Ring(h)' = Ring(h)
  BY DEF vars, Listed, Members, Ring
<1>2. TypeOK' /\ Apart' /\ Loose' /\ Visiting'
  <2>1. TypeOK' /\ Apart' /\ Loose'
    BY <1>1 DEF LInv, TypeOK, Apart, Loose
  <2>2. Visiting'
    <3>1. iter.head \in Heads \/ Idle
      BY DEF LInv, TypeOK, Idle
    <3> QED
      BY <1>1, <3>1 DEF LInv, Visiting, Idle
  <2> QED
    BY <2>1, <2>2
<1>3. Linkage'
  BY <1>1 DEF LInv, Linkage, Joined
<1> QED
  BY <1>2, <1>3 DEF LInv

LEMMA PopFrontStep ==
  ASSUME LInv, NEW h \in Heads, PopFront(h)
  PROVE  LInv'
<1> DEFINE n == next[h]
<1>1. /\ TypeOK /\ Apart /\ Linkage /\ Idle /\ Linked(h)
      /\ next' = [next EXCEPT ![h] = next[n]]
      /\ prev' = [prev EXCEPT ![next[n]] = h]
      /\ list' = [list EXCEPT ![h] = RemoveFirst(@, n)]
      /\ popped' = popped \cup {n} /\ UNCHANGED <<alive, iter>>
  BY DEF LInv, PopFront
<1>2. /\ Len(list[h]) \in Nat /\ Ring(h)[0] = h /\ Ring(h)[Len(list[h]) + 1] = h
      /\ \A i \in 0 .. Len(list[h]) : Joined(h, i)
  BY <1>1, RingAt, LinkAssumption DEF Linkage, Idle, NoIter
<1>3. Len(list[h]) # 0
  <2> SUFFICES ASSUME Len(list[h]) = 0 PROVE FALSE
    OBVIOUS
  <2>1. Joined(h, 0) /\ Ring(h)[0 + 1] = h
    BY <1>2
  <2> QED
    BY <1>1, <1>2, <2>1 DEF Joined, Linked
<1>4. 1 \in 1 .. Len(list[h]) /\ 0 \in 0 .. Len(list[h]) /\ 1 \in 0 .. Len(list[h])
  BY <1>2, <1>3
<1>5. n = Ring(h)[1] /\ n = list[h][1] /\ next[n] = Ring(h)[2]
  <2>1. Joined(h, 0) /\ Joined(h, 1) /\ 0 + 1 = 1 /\ 1 + 1 = 2
    BY <1>2, <1>4
  <2> QED
    BY <1>1, <1>2, <1>4, <2>1, RingAt DEF Joined
<1>6. Removed(h, 1)
  BY <1>1, <1>4, <1>5, RemovedFirst
<1>7. /\ h \in Link /\ next[n] \in Link /\ prev \in [Link -> Link] /\ next \in [Link -> Link]
  <2>1. 2 \in 0 .. Len(list[h]) + 1
    BY <1>2, <1>3
  <2> QED
    BY <1>1, <1>5, <2>1, RingInLink DEF TypeOK, Link
<1> HIDE DEF n
<1>8. /\ prev' \in [Link -> Link] /\ next' \in [Link -> Link]
      /\ next'[h] = next[n] /\ prev'[next[n]] = h
      /\ \A x \in Link : (x # h => next'[x] = next[x]) /\ (x # next[n] => prev'[x] = prev[x])
  BY <1>1, <1>7
<1>9. 1 - 1 = 0 /\ 1 + 1 = 2
  OBVIOUS
<1> QED
  BY <1>1, <1>2, <1>4, <1>5, <1>6, <1>8, <1>9, RemoveKeeps

LEMMA PopBackStep ==
  ASSUME LInv, NEW h \in Heads, PopBack(h)
  PROVE  LInv'
<1> DEFINE n == prev[h]
           L == Len(list[h])
<1>1. /\ TypeOK /\ Apart /\ Linkage /\ Idle /\ Linked(h)
      /\ prev' = [prev EXCEPT ![h] = prev[n]]
      /\ next' = [next EXCEPT ![prev[n]] = h]
      /\ list' = [list EXCEPT ![h] = RemoveFirst(@, n)]
      /\ popped' = popped \cup {n} /\ UNCHANGED <<alive, iter>>
  BY DEF LInv, PopBack
<1>2. /\ L \in Nat /\ Ring(h)[0] = h /\ Ring(h)[L + 1] = h
      /\ \A i \in 0 .. L : Joined(h, i)
  BY <1>1, RingAt, LinkAssumption DEF Linkage, Idle, NoIter
<1>3. L # 0
  <2> SUFFICES ASSUME L = 0 PROVE FALSE
    OBVIOUS
  <2>1. Joined(h, 0) /\ Ring(h)[0 + 1] = h
    BY <1>2
  <2> QED
    BY <1>1, <1>2, <2>1 DEF Joined, Linked
<1>4. L \in 1 .. L /\ L \in 0 .. L /\ L - 1 \in 0 .. L /\ (L - 1) + 1 = L /\ L - 1 \in 0 .. L + 1
  BY <1>2, <1>3
<1>5. n = Ring(h)[L] /\ n = list[h][L] /\ prev[n] = Ring(h)[L - 1]
  <2>1. Joined(h, L) /\ Joined(h, L - 1)
    BY <1>2, <1>4
  <2> QED
    BY <1>1, <1>2, <1>4, <2>1, RingAt DEF Joined
<1>6. Removed(h, L)
  BY <1>1, <1>4, <1>5, RemovedFirst
<1>7. /\ h \in Link /\ prev[n] \in Link /\ prev \in [Link -> Link] /\ next \in [Link -> Link]
  BY <1>1, <1>4, <1>5, RingInLink DEF TypeOK, Link
<1> HIDE DEF n
<1>8. /\ prev' \in [Link -> Link] /\ next' \in [Link -> Link]
      /\ prev'[h] = prev[n] /\ next'[prev[n]] = h
      /\ \A x \in Link : (x # h => prev'[x] = prev[x]) /\ (x # prev[n] => next'[x] = next[x])
  BY <1>1, <1>7
<1> QED
  BY <1>1, <1>2, <1>4, <1>5, <1>6, <1>8, RemoveKeeps

LEMMA UnlinkStep ==
  ASSUME LInv, NEW n \in Nodes, Unlink(n)
  PROVE  LInv'
<1>1. /\ TypeOK /\ Apart /\ Loose /\ Linkage /\ Idle /\ n \in alive \ popped /\ Cut(n)
      /\ list' = [g \in Heads |-> RemoveFirst(list[g], n)]
      /\ UNCHANGED <<alive, popped, iter>>
  BY DEF LInv, Unlink
<1>2. CASE n \in Listed
  <2>1. PICK h \in Heads : \E i \in 1 .. Len(list[h]) : list[h][i] = n
    BY <1>1, <1>2, ListedAt
  <2>2. PICK p \in 1 .. Len(list[h]) : list[h][p] = n
    BY <2>1
  <2>3. /\ Len(list[h]) \in Nat /\ \A i \in 0 .. Len(list[h]) : Joined(h, i)
    BY <1>1, RingAt, LinkAssumption DEF Linkage, Idle, NoIter
  <2>4. p \in 0 .. Len(list[h]) /\ p - 1 \in 0 .. Len(list[h]) /\ (p - 1) + 1 = p /\ p # p - 1
    BY <2>3
  <2>5. /\ Ring(h)[p] = n /\ prev[n] = Ring(h)[p - 1] /\ next[n] = Ring(h)[p + 1]
        /\ prev[n] # n
    <3>1. Joined(h, p) /\ Joined(h, p - 1) /\ Ring(h)[p] = n
      BY <1>1, <2>2, <2>3, <2>4, RingAt
    <3>2. Ring(h)[p - 1] # Ring(h)[p]
      BY <1>1, <2>4, RingsApart
    <3> QED
      BY <2>4, <3>1, <3>2 DEF Joined
  <2>6. list' = [list EXCEPT ![h] = RemoveFirst(@, list[h][p])]
    <3>1. \A g \in Heads : g # h => RemoveFirst(list[g], n) = list[g]
      <4> SUFFICES ASSUME NEW g \in Heads, g # h PROVE RemoveFirst(list[g], n) = list[g]
        OBVIOUS
      <4>1. list[g] \in Seq(Nodes) /\ \A i \in 1 .. Len(list[g]) : list[g][i] # n
        BY <1>1, <2>2, RingAt DEF Apart
      <4> QED
        BY <4>1, RemoveFirstNot
    <3>2. list \in [Heads -> Seq(Nodes)]
      BY <1>1 DEF TypeOK
    <3> QED
      BY <1>1, <2>2, <3>1, <3>2
  <2>7. Removed(h, p)
    BY <1>1, <2>6, RemovedFirst
  <2>8. /\ prev' \in [Link -> Link] /\ next' \in [Link -> Link]
        /\ next'[prev[n]] = next[n] /\ prev'[next[n]] = prev[n]
        /\ prev'[n] = n /\ next'[n] = n
        /\ \A x \in Link \ {n} : /\ x # prev[n] => next'[x] = next[x]
                                 /\ x # next[n] => prev'[x] = prev[x]
    <3>1. /\ next' = [next EXCEPT ![prev[n]] = next[n], ![n] = n]
          /\ prev' = [prev EXCEPT ![next[n]] = prev[n], ![n] = n]
      BY <1>1, <2>5 DEF Cut, Linked
    <3>2. next[n] # n
      <4>1. prev[Ring(h)[p + 1]] = n
        BY <2>3, <2>4, <2>5 DEF Joined
      <4> QED
        BY <2>5, <4>1
    <3>3. n \in Link /\ prev \in [Link -> Link] /\ next \in [Link -> Link]
      BY <1>1 DEF TypeOK, Link
    <3> QED
      BY <2>5, <3>1, <3>2, <3>3
  <2> QED
    BY <1>1, <2>2, <2>5, <2>7, <2>8, RemoveKeeps
<1>3. CASE n \notin Listed
  <2>1. UNCHANGED <<prev, next>>
    BY <1>1, <1>3 DEF Loose, Cut, Linked
  <2>2. list' = list
    <3>1. \A g \in Heads : RemoveFirst(list[g], n) = list[g]
      <4> SUFFICES ASSUME NEW g \in Heads PROVE RemoveFirst(list[g], n) = list[g]
        OBVIOUS
      <4>1. list[g] \in Seq(Nodes) /\ \A i \in 1 .. Len(list[g]) : list[g][i] # n
        BY <1>1, <1>3, RingAt, ListedAt
      <4> QED
        BY <4>1, RemoveFirstNot
    <3>2. list \in [Heads -> Seq(Nodes)]
      BY <1>1 DEF TypeOK
    <3> QED
      BY <1>1, <3>1, <3>2
  <2>3. UNCHANGED vars
    BY <1>1, <2>1, <2>2 DEF vars
  <2> QED
    BY <2>3, UnchangedStep
<1> QED
  BY <1>2, <1>3

LEMMA ForEachStartStep ==
  ASSUME LInv, NEW h \in Heads, ForEachStart(h)
  PROVE  LInv'
<1>1. /\ TypeOK /\ Apart /\ Loose /\ Linkage /\ Idle
      /\ iter' = [head |-> h, ptr |-> next[h]]
      /\ UNCHANGED <<prev, next, list, alive, popped>>
  BY DEF LInv, ForEachStart
<1>2. /\ Listed' = Listed /\ \A g \in Heads : Ring(g)' = Ring(g)
      /\ \A g \in Heads : \A i \in 0 .. Len(list[g]) : Joined(g, i)
  <2>1. iter.head \notin Heads
    BY <1>1, LinkAssumption DEF Idle, NoIter
  <2> QED
    BY <1>1, <2>1 DEF Listed, Members, Ring, Linkage
<1>3. /\ Ring(h)[0] = h /\ 0 \in 0 .. Len(list[h]) /\ Len(list[h]) \in Nat
      /\ next[h] = Ring(h)[1] /\ prev[Ring(h)[1]] = h
  <2>1. 0 \in 0 .. Len(list[h]) /\ Ring(h)[0] = h /\ Len(list[h]) \in Nat
    BY <1>1, RingAt
  <2>2. Joined(h, 0) /\ 0 + 1 = 1
    BY <1>2, <2>1
  <2> QED
    BY <2>1, <2>2 DEF Joined
<1>4. TypeOK' /\ Apart' /\ Loose'
  <2>1. next[h] \in Link
    BY <1>1 DEF TypeOK, Link
  <2> QED
    BY <1>1, <1>2, <2>1 DEF TypeOK, Apart, Loose
<1>5. Linkage'
  BY <1>1, <1>2 DEF Linkage, Joined
<1>6. Visiting'
  BY <1>1, <1>2, <1>3 DEF Visiting
<1> QED
  BY <1>4, <1>5, <1>6 DEF LInv

(* One call of the callback; b is the node that comes next.                 *)
LEMMA ForEachStepStep ==
  ASSUME LInv, ForEachStep
  PROVE  LInv'
<1>0. PICK h \in Heads : h = iter.head
  BY DEF LInv, TypeOK, ForEachStep, Idle
<1> DEFINE n == iter.ptr
           L == Len(list[h])
           b == Ring(h)[2]
           Before == {h} \cup (Nodes \ alive)
<1>1. /\ TypeOK /\ Apart /\ Loose /\ Linkage /\ Visiting /\ ~Idle
      /\ h = iter.head /\ n # h
      /\ Cut(n) \/ UNCHANGED <<prev, next>>
      /\ alive' = alive \ {n} /\ popped' = popped
      /\ list' = [list EXCEPT ![h] = RemoveFirst(@, n)]
      /\ iter' = [iter EXCEPT !.ptr = next[n]]
  BY <1>0 DEF LInv, TypeOK, ForEachStep, Advance, Idle
<1>2. n = Ring(h)[1] /\ (list[h] # <<>> => prev[n] \in Before)
  BY <1>1 DEF Visiting
<1>3. L \in Nat /\ L # 0 /\ list[h] # <<>>
  <2>1. L \in Nat /\ Ring(h)[L + 1] = h
    BY <1>1, RingAt
  <2>2. L # 0
    BY <1>1, <1>2, <2>1
  <2> QED
    BY <2>1, <2>2
<1>4. 1 \in 1 .. L /\ 1 \in 0 .. L /\ 2 \in 0 .. L + 1 /\ 0 \in 0 .. L
  BY <1>3
<1>5. n = list[h][1] /\ n \in Nodes /\ n \in Listed /\ n \in alive /\ n \notin popped /\ n \notin Heads
  <2>1. n = list[h][1] /\ n \in Nodes
    BY <1>1, <1>2, <1>4, RingAt
  <2> QED
    BY <1>1, <1>4, <2>1, ListedAt, LinkAssumption DEF Loose
<1>6. next[n] = b /\ prev[b] = n /\ b \in Link /\ b # n
  <2>1. Joined(h, 1) /\ 1 + 1 = 2
    BY <1>1, <1>4 DEF Linkage
  <2>2. b \in Link
    BY <1>1, <1>4, RingInLink
  <2>3. b # n
    <3>1. CASE L = 1
      BY <1>1, <1>5, <3>1, RingAt
    <3>2. CASE L # 1
      <4>1. 2 \in 0 .. L /\ 1 # 2
        <5>1. 1 # 2 /\ \A m \in Nat : m # 0 /\ m # 1 => 2 \in 0 .. m
          OBVIOUS
        <5>2. L \in Nat /\ L # 0 /\ L # 1
          BY <1>3, <3>2
        <5> HIDE DEF L
        <5> QED
          BY <5>1, <5>2
      <4> QED
        BY <1>1, <1>2, <1>4, <4>1, RingsApart
    <3> QED
      BY <3>1, <3>2
  <2> QED
    BY <1>2, <2>1, <2>2, <2>3 DEF Joined
<1>7. prev[n] \in Before /\ prev[n] # n
  BY <1>1, <1>2, <1>3, <1>5
<1>8. Removed(h, 1)
  BY <1>1, <1>4, <1>5, RemovedFirst
<1>9. /\ Ring(h)'[0] = Ring(h)[0]
      /\ \A i \in 1 .. L : Ring(h)'[i] = Ring(h)[i + 1]
      /\ \A g \in Heads \ {h} : Ring(g)' = Ring(g)
      /\ Len(list'[h]) = L - 1
  <2>1. TypeOK /\ 1 \in 1 .. Len(list[h]) /\ Removed(h, 1)
    BY <1>1, <1>4, <1>8
  <2>2. /\ \A i \in 0 .. 1 - 1 : Ring(h)'[i] = Ring(h)[i]
        /\ \A i \in 1 .. Len(list[h]) : Ring(h)'[i] = Ring(h)[i + 1]
        /\ \A g \in Heads \ {h} : Ring(g)' = Ring(g)
        /\ Len(list'[h]) = Len(list[h]) - 1
    BY <2>1, RemovedRing
  <2>3. 0 \in 0 .. 1 - 1
    OBVIOUS
  <2> HIDE DEF n, b
  <2> QED
    BY <2>2, <2>3
<1>10. iter'.head = h /\ iter'.ptr = b /\ iter' \in [head : Heads, ptr : Link]
  BY <1>1, <1>6 DEF TypeOK, Idle
<1> HIDE DEF n, b
<1>11. /\ prev' \in [Link -> Link] /\ next' \in [Link -> Link]
       /\ \A x \in Link \ {n} : /\ x \notin Before => next'[x] = next[x]
                                /\ x # b => prev'[x] = prev[x]
       /\ prev'[b] \in Before \cup {n}
  <2>1. prev \in [Link -> Link] /\ next \in [Link -> Link] /\ n \in Link
    BY <1>1, <1>5 DEF TypeOK, Link
  <2>2. CASE UNCHANGED <<prev, next>>
    BY <1>6, <2>1, <2>2
  <2>3. CASE Cut(n)
    <3>1. /\ next' = [next EXCEPT ![prev[n]] = b, ![n] = n]
          /\ prev' = [prev EXCEPT ![b] = prev[n], ![n] = n]
      BY <1>6, <1>7, <2>3 DEF Cut, Linked
    <3>2. prev[n] \in Link
      BY <2>1
    <3> HIDE DEF Before
    <3> QED
      BY <1>6, <1>7, <2>1, <3>1, <3>2
  <2> QED
    BY <1>1, <2>2, <2>3
<1>12. TypeOK'
  BY <1>1, <1>5, <1>8, <1>10, <1>11 DEF TypeOK, Removed
<1>13. Apart'
  BY <1>1, <1>4, <1>8, RemovedApart
<1>14. \A x : x \in Listed' <=> x \in Listed /\ x # n
  BY <1>1, <1>4, <1>5, <1>8, RemovedListed
<1>15. Loose'
  <2>1. Listed' \subseteq alive' /\ popped' \cap Listed' = {}
    BY <1>1, <1>14 DEF Loose
  <2>2. ASSUME NEW x \in alive' \ (Listed' \cup popped') PROVE prev'[x] = x /\ next'[x] = x
    <3>1. x \in alive \ (Listed \cup popped) /\ x # n /\ x \in Nodes /\ x \in Link
      BY <1>1, <1>14, <2>2 DEF TypeOK, Link
    <3>2. x \notin Before
      BY <1>1, <3>1, LinkAssumption
    <3>3. x # b
      <4>1. CASE L = 1
        <5>1. b = h
          BY <1>1, <4>1, RingAt DEF b
        <5> QED
          BY <1>1, <3>1, <5>1, LinkAssumption
      <4>2. CASE L # 1
        <5>1. 2 \in 1 .. L
          <6>1. \A m \in Nat : m # 0 /\ m # 1 => 2 \in 1 .. m
            OBVIOUS
          <6> QED
            BY <1>3, <4>2, <6>1
        <5>2. b \in Listed
          BY <1>1, <5>1, RingAt, ListedAt DEF b
        <5> QED
          BY <3>1, <5>2
      <4> QED
        BY <4>1, <4>2
    <3>4. prev[x] = x /\ next[x] = x
      BY <1>1, <3>1 DEF Loose
    <3> QED
      BY <1>11, <3>1, <3>2, <3>3, <3>4
  <2> QED
    BY <2>1, <2>2 DEF Loose
<1>16. Linkage'
  <2> SUFFICES ASSUME NEW g \in Heads, NEW i \in 0 .. Len(list'[g]), g = h => i > 0
               PROVE  Joined(g, i)'
    BY <1>10 DEF Linkage
  <2>1. ASSUME NEW k \in Heads, NEW j \in 0 .. Len(list[k]), k = h => j > 1
        PROVE  next'[Ring(k)[j]] = Ring(k)[j + 1] /\ prev'[Ring(k)[j + 1]] = Ring(k)[j]
    <3>1. next[Ring(k)[j]] = Ring(k)[j + 1] /\ prev[Ring(k)[j + 1]] = Ring(k)[j]
      <4>1. k = h => j > 0
        BY <2>1
      <4>2. Joined(k, j)
        BY <1>1, <4>1 DEF Linkage
      <4> QED
        BY <4>2 DEF Joined
    <3>2. Ring(k)[j] \in Link /\ Ring(k)[j + 1] \in Link
      <4>1. j \in 0 .. Len(list[k]) + 1 /\ j + 1 \in 0 .. Len(list[k]) + 1
        BY <1>1, RingAt
      <4> QED
        BY <1>1, <4>1, RingInLink
    <3>3. Ring(k)[j] # n
      <4>1. k # h \/ j # 1
        BY <2>1
      <4> QED
        BY <1>1, <1>2, <1>4, <4>1, RingsApart
    <3>4. Ring(k)[j] \notin Before
      <4>1. Ring(k)[j] # h
        <5>1. k # h \/ j # 0
          BY <2>1
        <5>2. Ring(h)[0] = h
          BY <1>1, RingAt
        <5> QED
          BY <1>1, <1>4, <5>1, <5>2, RingsApart
      <4>2. Ring(k)[j] \notin Nodes \ alive
        <5>1. CASE j = 0
          BY <1>1, <5>1, RingAt, LinkAssumption
        <5>2. CASE j # 0
          <6>1. j \in 1 .. Len(list[k])
            BY <5>2
          <6> QED
            BY <1>1, <6>1, RingAt, ListedAt DEF Loose
        <5> QED
          BY <5>1, <5>2
      <4> QED
        BY <4>1, <4>2
    <3>5. Ring(k)[j + 1] # b
      BY <1>6, <3>1, <3>3
    <3>6. Ring(k)[j + 1] # n
      <4>1. CASE j = Len(list[k])
        BY <1>1, <1>5, <4>1, RingAt
      <4>2. CASE j # Len(list[k])
        <5>1. j + 1 \in 0 .. Len(list[k]) /\ (k # h \/ j + 1 # 1)
          BY <1>1, <2>1, <4>2, RingAt
        <5> QED
          BY <1>1, <1>2, <1>4, <5>1, RingsApart
      <4> QED
        BY <4>1, <4>2
    <3> QED
      BY <1>11, <3>1, <3>2, <3>3, <3>4, <3>5, <3>6
  <2>2. CASE g # h
    <3>1. Ring(g)' = Ring(g) /\ Len(list'[g]) = Len(list[g])
      BY <1>8, <1>9, <2>2 DEF Removed
    <3> QED
      BY <2>1, <2>2, <3>1 DEF Joined
  <2>3. CASE g = h
    <3>1. i \in 1 .. L /\ i + 1 \in 1 .. L /\ i + 1 \in 0 .. L /\ i + 1 > 1
      BY <1>3, <1>9, <2>3
    <3>2. Ring(h)'[i] = Ring(h)[i + 1] /\ Ring(h)'[i + 1] = Ring(h)[(i + 1) + 1]
      BY <1>9, <3>1
    <3>3. /\ next'[Ring(h)[i + 1]] = Ring(h)[(i + 1) + 1]
          /\ prev'[Ring(h)[(i + 1) + 1]] = Ring(h)[i + 1]
      BY <1>1, <2>1, <3>1
    <3> QED
      BY <2>3, <3>2, <3>3 DEF Joined
  <2> QED
    BY <2>2, <2>3
<1>17. Visiting'
  <2>1. Ring(h)'[1] = b /\ iter'.ptr = Ring(h)'[1]
    BY <1>4, <1>9, <1>10 DEF b
  <2>2. prev'[b] \in {h} \cup (Nodes \ alive')
    BY <1>1, <1>5, <1>11
  <2> QED
    BY <1>10, <2>1, <2>2 DEF Visiting
<1> QED
  BY <1>12, <1>13, <1>15, <1>16, <1>17 DEF LInv

LEMMA ForEachEndStep ==
  ASSUME LInv, ForEachEnd
  PROVE  LInv'
<1>0. PICK h \in Heads : h = iter.head
  BY DEF LInv, TypeOK, ForEachEnd, Idle
<1>1. /\ TypeOK /\ Apart /\ Loose /\ Linkage /\ Visiting /\ ~Idle
      /\ h = iter.head /\ iter.ptr = h
      /\ prev' = [prev EXCEPT ![h] = h] /\ next' = [next EXCEPT ![h] = h]
      /\ iter' = NoIter
      /\ UNCHANGED <<list, alive, popped>>
  BY <1>0 DEF LInv, TypeOK, ForEachEnd, Idle
<1>2. Len(list[h]) = 0
  <2> SUFFICES ASSUME Len(list[h]) # 0 PROVE FALSE
    OBVIOUS
  <2>1. Ring(h)[1] = h
    BY <1>1 DEF Visiting
  <2>2. 1 \in 1 .. Len(list[h])
    BY <1>1, RingAt
  <2> QED
    BY <1>1, <2>1, <2>2, RingAt, LinkAssumption
<1>3. Listed' = Listed /\ \A g \in Heads : Ring(g)' = Ring(g)
  BY <1>1 DEF Listed, Members, Ring
<1>4. /\ prev' \in [Link -> Link] /\ next' \in [Link -> Link]
      /\ prev'[h] = h /\ next'[h] = h
      /\ \A x \in Link : x # h => prev'[x] = prev[x] /\ next'[x] = next[x]
  BY <1>1 DEF TypeOK, Link
<1>5. TypeOK' /\ Apart' /\ Visiting'
  BY <1>1, <1>4 DEF TypeOK, Apart, Visiting, Idle
<1>6. Loose'
  <2>1. alive \subseteq Link /\ h \notin alive
    BY <1>1, LinkAssumption DEF TypeOK, Link
  <2> QED
    BY <1>1, <1>3, <1>4, <2>1 DEF Loose
<1>7. Linkage'
  <2> SUFFICES ASSUME NEW g \in Heads, NEW i \in 0 .. Len(list[g])
               PROVE  Joined(g, i)'
    BY <1>1 DEF Linkage
  <2>1. CASE g = h
    <3>1. i = 0 /\ Ring(h)[0] = h /\ Ring(h)[0 + 1] = h
      BY <1>1, <1>2, <2>1, RingAt
    <3> QED
      BY <1>3, <1>4, <2>1, <3>1 DEF Joined
  <2>2. CASE g # h
    <3>1. next[Ring(g)[i]] = Ring(g)[i + 1] /\ prev[Ring(g)[i + 1]] = Ring(g)[i]
      BY <1>1, <2>2 DEF Linkage, Joined
    <3>2. Ring(g)[i] \in Link /\ Ring(g)[i + 1] \in Link
      <4>1. i \in 0 .. Len(list[g]) + 1 /\ i + 1 \in 0 .. Len(list[g]) + 1
        BY <1>1, RingAt
      <4> QED
        BY <1>1, <4>1, RingInLink
    <3>3. \A j \in 0 .. Len(list[g]) + 1 : Ring(g)[j] # h
      <4> SUFFICES ASSUME NEW j \in 0 .. Len(list[g]) + 1, Ring(g)[j] = h PROVE FALSE
        OBVIOUS
      <4>1. j = 0 \/ j = Len(list[g]) + 1 \/ j \in 1 .. Len(list[g])
        BY <1>1, RingAt
      <4> QED
        BY <1>1, <2>2, <4>1, RingAt, LinkAssumption
    <3>4. i \in 0 .. Len(list[g]) + 1 /\ i + 1 \in 0 .. Len(list[g]) + 1
      BY <1>1, RingAt
    <3> QED
      BY <1>3, <1>4, <3>1, <3>2, <3>3, <3>4 DEF Joined
  <2> QED
    BY <2>1, <2>2
<1> QED
  BY <1>5, <1>6, <1>7 DEF LInv

-----------------------------------------------------------------------------
LEMMA InitLInv == Init => LInv
<1> SUFFICES ASSUME Init PROVE LInv
  OBVIOUS
<1>1. TypeOK
  BY DEF Init, TypeOK, Link, NoIter
<1>2. \A h \in Heads : list[h] = <<>>
  BY DEF Init
<1>3. Listed = {}
  BY <1>2 DEF Listed, Members, ToSet
<1>4. Apart /\ Loose /\ Visiting
  BY <1>2, <1>3 DEF Init, Apart, Loose, Visiting, Idle
<1>5. Linkage
  <2> SUFFICES ASSUME NEW h \in Heads, NEW i \in 0 .. Len(list[h]) PROVE Joined(h, i)
    BY DEF Linkage
  <2>1. Len(list[h]) = 0 /\ i = 0
    BY <1>2
  <2>2. Ring(h)[0] = h /\ Ring(h)[0 + 1] = h
    BY <1>1, <2>1, RingAt
  <2> QED
    BY <2>1, <2>2 DEF Init, Joined, Link
<1> QED
  BY <1>1, <1>4, <1>5 DEF LInv

THEOREM LinkInvariant == Spec => []LInv
<1>1. LInv /\ [Next]_vars => LInv'
  BY NewStep, DeleteStep, UnlinkStep, PushFrontStep, PushBackStep, PopFrontStep, PopBackStep,
     ForEachStartStep, ForEachStepStep, ForEachEndStep, UnchangedStep DEF Next
<1> QED
  BY <1>1, InitLInv, PTL DEF Spec

-----------------------------------------------------------------------------
(* Every pointer points to a head or a node; what was popped is allocated.  *)
THEOREM LinkTypeCorrect == Spec => []TypeOK
<1>1. LInv => TypeOK
  BY DEF LInv
<1> QED
  BY <1>1, LinkInvariant, PTL

(* m_prev and m_next represent every list, in both directions, after any    *)
(* sequence of pushes, pops, unlinks and iterations, and no list reaches a  *)
(* node that was deleted.                                                   *)
THEOREM PointersRepresent == Spec => []Represents
<1>1. LInv => Represents
  <2> SUFFICES ASSUME LInv PROVE Represents
    OBVIOUS
  <2>1. Listed \subseteq alive
    BY DEF LInv, Loose
  <2>2. Idle => iter.head \notin Heads
    BY LinkAssumption DEF Idle, NoIter
  <2> QED
    BY <2>1, <2>2 DEF LInv, Linkage, Joined, Represents
<1> QED
  BY <1>1, LinkInvariant, PTL

(* for_each() and clear() come to the nodes that are left in their order,   *)
(* although the callback frees the node that they just left.                *)
THEOREM VisitsAreInOrder == Spec => []VisitsInOrder
<1>1. LInv => VisitsInOrder
  <2> SUFFICES ASSUME LInv, ~Idle
               PROVE  iter.ptr = IF list[iter.head] = <<>> THEN iter.head ELSE list[iter.head][1]
    BY DEF VisitsInOrder
  <2>1. iter.head \in Heads /\ TypeOK /\ iter.ptr = Ring(iter.head)[1]
    BY DEF LInv, TypeOK, Visiting, Idle
  <2> DEFINE s == list[iter.head]
  <2>2. s \in Seq(Nodes) /\ Len(s) \in Nat
    BY <2>1, RingAt
  <2>3. CASE s = <<>>
    <3>1. Len(s) + 1 = 1
      BY <2>3
    <3> QED
      BY <2>1, <2>3, <3>1, RingAt
  <2>4. CASE s # <<>>
    <3>1. 1 \in 1 .. Len(s)
      BY <2>2, <2>4
    <3> QED
      BY <2>1, <2>4, <3>1, RingAt
  <2> QED
    BY <2>3, <2>4
<1> QED
  BY <1>1, LinkInvariant, PTL
=============================================================================
