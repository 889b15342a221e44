--------------------------- MODULE BindingProofs ----------------------------
(***************************************************************************)
(* Proofs about Binding: for any arguments of bind() and any failure of    *)
(* its system calls, m_listens and the kernel agree on what is open, and   *)
(* a call adds all that it was asked for or nothing.                       *)
(***************************************************************************)
EXTENDS Binding, FiniteSetTheorems, SequenceTheorems, WellFoundedInduction, TLAPS

(* The addresses that are bound.                                            *)
Addresses == {NoAddr} \cup UNION {ToSet(L!Expand(e)) : e \in Entries}

(* What binds() returns. *)
Bound == [i \in 1 .. Len(listed) |-> listed[i].addr]

BTypes ==
  /\ at \in {"idle", "socket", "bind", "listen", "failed"}
  /\ request \in Seq(Entries) /\ single \in BOOLEAN /\ second \in BOOLEAN
  /\ entry \in Nat \ {0} /\ oldSize \in Nat /\ calls \in 0 .. MaxCalls
  /\ listed \in Seq([fd : Nat, addr : Addresses])
  /\ IsFiniteSet(DOMAIN kernel) /\ DOMAIN kernel \subseteq Nat

(* The kernel has one listening socket open for each listen_t, and besides  *)
(* only the one that is being made.                                         *)
Listening ==
  /\ \A i, j \in 1 .. Len(listed) : listed[i].fd = listed[j].fd => i = j
  /\ \A i \in 1 .. Len(listed) :
       kernel[listed[i].fd] = [addr |-> listed[i].addr, listening |-> TRUE]

Accounted == DOMAIN kernel = Fds \cup ({sd} \ {-1}) /\ sd \notin Fds

(* The socket that is being made, by the place in the code.                 *)
Making ==
  /\ sd # -1 => kernel[sd] \in [addr : Addresses, listening : BOOLEAN]
  /\ at \in {"idle", "socket"} => sd = -1
  /\ at \in {"bind", "listen"} => sd # -1
  /\ at = "listen" => kernel[sd].addr = Addr

(* No two addresses exclude each other, the one to be listened to included. *)
Exclusive ==
  /\ L!Free(Bound)
  /\ at = "listen" => \A i \in 1 .. Len(listed) : ~L!Clash(listed[i].addr, Addr)

(* What the call has to add before it comes to where it is. *)
Done ==
  L!Asked(SubSeq(request, 1, entry - 1)) \o
    IF second THEN <<L!Expand(request[entry])[1]>> ELSE <<>>

(* Inside a call, it has been added to what was there. *)
Progress ==
  at # "idle" =>
    /\ request \in Requests /\ entry \in 1 .. Len(request) /\ (single => Len(request) = 1)
    /\ second => request[entry].ip = ""
    /\ oldSize <= Len(listed)
    /\ Bound = SubSeq(Bound, 1, oldSize) \o Done

BInv == BTypes /\ Listening /\ Accounted /\ Making /\ Exclusive /\ Progress

-----------------------------------------------------------------------------
(* FlattenSeq, which Asked is made of *)

LessThan == OpToRel(<, Nat)

(* A set of numbers that is not empty has a least member.                   *)
LEMMA LeastIsThere ==
  ASSUME NEW T \in SUBSET Nat, T # {}
  PROVE  Min(T) \in T /\ \A n \in T : Min(T) <= n
<1>1. IsWellFoundedOn(LessThan, Nat)
  BY NatLessThanWellFounded DEF LessThan
<1>2. LessThan = {ss \in Nat \X Nat : ss[1] < ss[2]}
  BY Zenon DEF LessThan, OpToRel
<1>3. PICK m \in T : \A n \in T : <<n, m>> \notin LessThan
  BY <1>1, WFMin
<1>4. ASSUME NEW n \in T PROVE m <= n
  <2>1. m \in Nat /\ n \in Nat /\ <<n, m>> \notin LessThan
    BY <1>3
  <2> QED
    BY <1>2, <2>1
<1> QED
  BY <1>4 DEF Min

(* The concatenations of the first 1, 2... elements of a sequence.          *)
IsFlat(f, s, n) == f = [i \in 1 .. n |-> IF i = 1 THEN s[i] ELSE f[i - 1] \o s[i]]

LEMMA FlatLonger ==
  ASSUME NEW s, NEW n \in Nat, NEW f, IsFlat(f, s, n)
  PROVE  \E g : IsFlat(g, s, n + 1)
<1> DEFINE g == [i \in 1 .. n + 1 |->
                   IF i = 1 THEN s[i] ELSE IF i = n + 1 THEN f[n] \o s[i] ELSE f[i]]
<1>1. ASSUME NEW i \in 1 .. n + 1
      PROVE  g[i] = IF i = 1 THEN s[i] ELSE g[i - 1] \o s[i]
  <2>1. CASE i = 1
    BY <2>1
  <2>2. CASE i # 1
    <3>1. i - 1 \in 1 .. n /\ i - 1 \in 1 .. n + 1 /\ i - 1 # n + 1
      BY <2>2
    <3>2. f[1] = s[1] /\ (i - 1 # 1 => g[i - 1] = f[i - 1])
      <4>1. 1 \in 1 .. n
        BY <3>1
      <4> QED
        BY <3>1, <4>1 DEF IsFlat
    <3>3. g[i - 1] = f[i - 1]
      BY <3>1, <3>2
    <3>4. CASE i = n + 1
      <4>1. i - 1 = n
        BY <3>4
      <4>2. g[i] = f[n] \o s[i]
        BY <2>2, <3>4
      <4> HIDE DEF g
      <4> QED
        BY <2>2, <3>3, <4>1, <4>2, Zenon
    <3>5. CASE i # n + 1
      <4>1. i \in 1 .. n /\ g[i] = f[i]
        BY <2>2, <3>5
      <4>2. f[i] = f[i - 1] \o s[i]
        BY <2>2, <4>1 DEF IsFlat
      <4> QED
        BY <2>2, <3>3, <4>1, <4>2
    <3> QED
      BY <3>4, <3>5
  <2> QED
    BY <2>1, <2>2
<1>2. g = [i \in 1 .. n + 1 |-> g[i]]
  OBVIOUS
<1>3. IsFlat(g, s, n + 1)
  <2> HIDE DEF g
  <2> QED
    BY <1>1, <1>2 DEF IsFlat
<1> QED
  BY <1>3

LEMMA FlatIsThere ==
  ASSUME NEW s, NEW n \in Nat
  PROVE  \E f : IsFlat(f, s, n)
<1> DEFINE Without == {k \in Nat : ~\E f : IsFlat(f, s, k)}
<1>1. SUFFICES ASSUME Without # {} PROVE FALSE
  OBVIOUS
<1>2. PICK m \in Without : \A k \in Without : m <= k
  BY <1>1, LeastIsThere
<1>3. CASE m = 0
  <2> DEFINE f == [i \in 1 .. 0 |-> s[i]]
  <2>1. 1 .. 0 = {}
    OBVIOUS
  <2>2. IsFlat(f, s, 0)
    BY <2>1 DEF IsFlat
  <2> QED
    BY <1>3, <2>2
<1>4. CASE m # 0
  <2>1. m \in Nat /\ m - 1 \in Nat /\ m - 1 \notin Without /\ (m - 1) + 1 = m
    BY <1>2, <1>4
  <2>2. PICK f : IsFlat(f, s, m - 1)
    BY <2>1
  <2>3. \E g : IsFlat(g, s, (m - 1) + 1)
    BY <2>1, <2>2, FlatLonger
  <2> QED
    BY <2>1, <2>3
<1> QED
  BY <1>3, <1>4

(* What FlattenSeq(s) is made of.                                           *)
LEMMA FlattenIsFlat ==
  ASSUME NEW s, Len(s) \in Nat, Len(s) # 0
  PROVE  \E f : IsFlat(f, s, Len(s)) /\ L!FlattenSeq(s) = f[Len(s)]
<1> DEFINE F == CHOOSE f : f = [i \in 1 .. Len(s) |-> IF i = 1 THEN s[i] ELSE f[i - 1] \o s[i]]
<1>1. IsFlat(F, s, Len(s))
  BY FlatIsThere DEF IsFlat
<1>2. L!FlattenSeq(s) = F[Len(s)]
  BY DEF L!FlattenSeq
<1> QED
  BY <1>1, <1>2

(* The shorter of two of them is the beginning of the longer one.           *)
LEMMA FlatsAgree ==
  ASSUME NEW s, NEW t, NEW n \in Nat, NEW k \in Nat, k <= n,
         \A i \in 1 .. k : s[i] = t[i],
         NEW f, IsFlat(f, s, n), NEW g, IsFlat(g, t, k)
  PROVE  \A i \in 1 .. k : f[i] = g[i]
<1> DEFINE Bad == {i \in 1 .. k : f[i] # g[i]}
<1>1. SUFFICES ASSUME Bad # {} PROVE FALSE
  OBVIOUS
<1>2. PICK b \in Bad : \A i \in Bad : b <= i
  <2>1. Bad \in SUBSET Nat
    OBVIOUS
  <2> HIDE DEF Bad
  <2> QED
    BY <1>1, <2>1, LeastIsThere
<1>3. b \in 1 .. k /\ b \in 1 .. n /\ b \in Nat
  BY <1>2
<1>4. /\ f[b] = IF b = 1 THEN s[b] ELSE f[b - 1] \o s[b]
      /\ g[b] = IF b = 1 THEN t[b] ELSE g[b - 1] \o t[b]
  BY <1>3 DEF IsFlat
<1>5. b # 1 => f[b - 1] = g[b - 1]
  <2> SUFFICES ASSUME b # 1, f[b - 1] # g[b - 1] PROVE FALSE
    OBVIOUS
  <2>1. b - 1 \in 1 .. k /\ ~(b <= b - 1)
    BY <1>3
  <2>2. b - 1 \in Bad
    BY <2>1
  <2> QED
    BY <1>2, <2>1, <2>2
<1>6. s[b] = t[b]
  BY <1>3
<1>7. f[b] = g[b]
  BY <1>4, <1>5, <1>6
<1> QED
  BY <1>2, <1>7

LEMMA FlatType ==
  ASSUME NEW S, NEW s, NEW n \in Nat, \A i \in 1 .. n : s[i] \in Seq(S),
         NEW f, IsFlat(f, s, n)
  PROVE  \A i \in 1 .. n : f[i] \in Seq(S)
<1> DEFINE Bad == {i \in 1 .. n : f[i] \notin Seq(S)}
<1>1. SUFFICES ASSUME Bad # {} PROVE FALSE
  OBVIOUS
<1>2. PICK b \in Bad : \A i \in Bad : b <= i
  <2>1. Bad \in SUBSET Nat
    OBVIOUS
  <2> HIDE DEF Bad
  <2> QED
    BY <1>1, <2>1, LeastIsThere
<1>3. b \in 1 .. n /\ b \in Nat /\ s[b] \in Seq(S)
  BY <1>2
<1>4. f[b] = IF b = 1 THEN s[b] ELSE f[b - 1] \o s[b]
  BY <1>3 DEF IsFlat
<1>5. b # 1 => f[b - 1] \in Seq(S)
  <2> SUFFICES ASSUME b # 1, f[b - 1] \notin Seq(S) PROVE FALSE
    OBVIOUS
  <2>1. b - 1 \in 1 .. n /\ ~(b <= b - 1)
    BY <1>3
  <2>2. b - 1 \in Bad
    BY <2>1
  <2> QED
    BY <1>2, <2>1, <2>2
<1>6. f[b] \in Seq(S)
  <2> HIDE DEF Bad
  <2> QED
    BY <1>3, <1>4, <1>5, ConcatProperties
<1> QED
  BY <1>2, <1>6

-----------------------------------------------------------------------------
(* What a call asks for *)

LEMMA ExpandType ==
  ASSUME NEW a \in Entries
  PROVE  /\ L!Expand(a) \in Seq(Addresses)
         /\ Len(L!Expand(a)) = IF a.ip = "" THEN 2 ELSE 1
<1>1. ASSUME NEW i \in DOMAIN L!Expand(a) PROVE L!Expand(a)[i] \in Addresses
  BY <1>1 DEF Addresses, ToSet
<1> DEFINE x == L!Expand(a)[1]
           y == L!Expand(a)[2]
<1>2. CASE a.ip = ""
  <2>1. L!Expand(a) = <<x, y>>
    BY <1>2 DEF L!Expand
  <2>2. 1 \in DOMAIN L!Expand(a) /\ 2 \in DOMAIN L!Expand(a)
    <3> HIDE DEF x, y
    <3>1. 1 \in DOMAIN <<x, y>> /\ 2 \in DOMAIN <<x, y>>
      OBVIOUS
    <3> QED
      BY <2>1, <3>1
  <2>3. x \in Addresses /\ y \in Addresses
    BY <1>1, <2>2
  <2> HIDE DEF x, y
  <2>4. <<x, y>> \in Seq(Addresses) /\ Len(<<x, y>>) = 2
    BY <2>3
  <2> QED
    BY <1>2, <2>1, <2>4
<1>3. CASE a.ip # ""
  <2>1. L!Expand(a) = <<x>>
    BY <1>3 DEF L!Expand
  <2>2. 1 \in DOMAIN L!Expand(a)
    <3> HIDE DEF x, y
    <3>1. 1 \in DOMAIN <<x>>
      OBVIOUS
    <3> QED
      BY <2>1, <3>1
  <2>3. x \in Addresses
    BY <1>1, <2>2
  <2> HIDE DEF x
  <2>4. <<x>> \in Seq(Addresses) /\ Len(<<x>>) = 1
    BY <2>3
  <2> QED
    BY <1>3, <2>1, <2>4
<1> QED
  BY <1>2, <1>3

Expanded(r, n) == [i \in 1 .. n |-> L!Expand(r[i])]

LEMMA AskedIsFlat ==
  ASSUME NEW r \in Seq(Entries), NEW n \in 0 .. Len(r)
  PROVE  /\ n = 0 => L!Asked(SubSeq(r, 1, n)) = <<>>
         /\ n # 0 => \E f : /\ IsFlat(f, Expanded(r, n), n)
                            /\ L!Asked(SubSeq(r, 1, n)) = f[n]
<1>1. /\ n \in Nat /\ Len(SubSeq(r, 1, n)) = n /\ DOMAIN SubSeq(r, 1, n) = 1 .. n
      /\ \A i \in 1 .. n : SubSeq(r, 1, n)[i] = r[i]
  OBVIOUS
<1>2. L!Asked(SubSeq(r, 1, n)) = L!FlattenSeq(Expanded(r, n))
  BY <1>1 DEF L!Asked, Expanded
<1>3. Expanded(r, n) \in Seq(Seq(Addresses)) /\ Len(Expanded(r, n)) = n
  <2>1. ASSUME NEW i \in 1 .. n PROVE L!Expand(r[i]) \in Seq(Addresses)
    <3>1. r[i] \in Entries
      OBVIOUS
    <3> QED
      BY <3>1, ExpandType
  <2> DEFINE x == [i \in 1 .. n |-> L!Expand(r[i])]
  <2>2. x \in Seq(Seq(Addresses)) /\ Len(x) = n
    BY <1>1, <2>1
  <2> QED
    BY <2>2 DEF Expanded
<1>4. CASE n = 0
  <2>1. Expanded(r, n) = <<>>
    BY <1>3, <1>4
  <2> QED
    BY <1>2, <1>4, <2>1 DEF L!FlattenSeq
<1>5. CASE n # 0
  BY <1>2, <1>3, <1>5, FlattenIsFlat
<1> QED
  BY <1>4, <1>5

(* Entry by entry, Asked grows by what the entry stands for.                *)
LEMMA AskedGrows ==
  ASSUME NEW r \in Seq(Entries), NEW e \in 1 .. Len(r)
  PROVE  /\ L!Asked(SubSeq(r, 1, e - 1)) \in Seq(Addresses)
         /\ L!Asked(SubSeq(r, 1, e)) = L!Asked(SubSeq(r, 1, e - 1)) \o L!Expand(r[e])
<1>1. /\ e \in 0 .. Len(r) /\ e - 1 \in 0 .. Len(r) /\ e # 0 /\ e \in Nat /\ e - 1 \in Nat
      /\ e - 1 <= e /\ e \in 1 .. e /\ (e - 1 # 0 => e - 1 \in 1 .. e - 1)
  OBVIOUS
<1>2. \A i \in 1 .. e : L!Expand(r[i]) \in Seq(Addresses)
  <2> SUFFICES ASSUME NEW i \in 1 .. e PROVE L!Expand(r[i]) \in Seq(Addresses)
    OBVIOUS
  <2>1. r[i] \in Entries
    OBVIOUS
  <2> QED
    BY <2>1, ExpandType
<1>3. PICK f : IsFlat(f, Expanded(r, e), e) /\ L!Asked(SubSeq(r, 1, e)) = f[e]
  BY <1>1, AskedIsFlat
<1>4. f[e] = IF e = 1 THEN L!Expand(r[e]) ELSE f[e - 1] \o L!Expand(r[e])
  BY <1>1, <1>3 DEF IsFlat, Expanded
<1>5. CASE e - 1 = 0
  <2>1. L!Asked(SubSeq(r, 1, e - 1)) = <<>> /\ e = 1
    BY <1>1, <1>5, AskedIsFlat
  <2>2. <<>> \o L!Expand(r[e]) = L!Expand(r[e]) /\ <<>> \in Seq(Addresses)
    BY <1>1, <1>2
  <2> QED
    BY <1>3, <1>4, <2>1, <2>2
<1>6. CASE e - 1 # 0
  <2>1. PICK g : /\ IsFlat(g, Expanded(r, e - 1), e - 1)
                 /\ L!Asked(SubSeq(r, 1, e - 1)) = g[e - 1]
    BY <1>1, <1>6, AskedIsFlat
  <2>2. \A i \in 1 .. e - 1 : Expanded(r, e)[i] = Expanded(r, e - 1)[i]
    BY <1>1 DEF Expanded
  <2>3. f[e - 1] = g[e - 1]
    <3>1. /\ IsFlat(f, Expanded(r, e), e) /\ IsFlat(g, Expanded(r, e - 1), e - 1)
          /\ e \in Nat /\ e - 1 \in Nat /\ e - 1 <= e /\ e - 1 <= e - 1
      BY <1>1, <1>3, <2>1
    <3>2. \A i \in 1 .. e - 1 : f[i] = g[i]
      <4> DEFINE s == Expanded(r, e)
                 t == Expanded(r, e - 1)
                 k == e - 1
      <4>1. /\ IsFlat(f, s, e) /\ IsFlat(g, t, k)
            /\ \A i \in 1 .. k : s[i] = t[i]
            /\ e \in Nat /\ k \in Nat /\ k <= e
        BY <2>2, <3>1
      <4> HIDE DEF s, t, k
      <4>2. \A i \in 1 .. k : f[i] = g[i]
        BY <4>1, FlatsAgree
      <4> QED
        BY <4>2 DEF k
    <3> QED
      BY <1>1, <1>6, <3>2
  <2>4. \A i \in 1 .. e - 1 : Expanded(r, e - 1)[i] \in Seq(Addresses)
    BY <1>1, <1>2 DEF Expanded
  <2>5. g[e - 1] \in Seq(Addresses)
    BY <1>1, <1>6, <2>1, <2>4, FlatType
  <2> QED
    <3>1. e # 1
      BY <1>1, <1>6
    <3>2. f[e] = g[e - 1] \o L!Expand(r[e])
      BY <1>4, <2>3, <3>1
    <3> QED
      BY <1>3, <2>1, <2>5, <3>2
<1> QED
  BY <1>5, <1>6

LEMMA AskedAll ==
  ASSUME NEW r \in Seq(Entries)
  PROVE  L!Asked(SubSeq(r, 1, Len(r))) = L!Asked(r)
<1>1. SubSeq(r, 1, Len(r)) = r
  OBVIOUS
<1> QED
  BY <1>1

-----------------------------------------------------------------------------
(* What is bound *)

LEMMA ListedAt ==
  ASSUME BTypes
  PROVE  /\ Len(listed) \in Nat /\ DOMAIN listed = 1 .. Len(listed)
         /\ \A i \in 1 .. Len(listed) : listed[i].fd \in Nat /\ listed[i].addr \in Addresses
         /\ Fds = {listed[i].fd : i \in 1 .. Len(listed)}
         /\ Bound \in Seq(Addresses) /\ Len(Bound) = Len(listed)
         /\ \A i \in 1 .. Len(listed) : Bound[i] = listed[i].addr
<1>1. /\ Len(listed) \in Nat /\ DOMAIN listed = 1 .. Len(listed)
      /\ \A i \in 1 .. Len(listed) : listed[i] \in [fd : Nat, addr : Addresses]
  <2> DEFINE R == [fd : Nat, addr : Addresses]
  <2>1. listed \in Seq(R)
    BY DEF BTypes
  <2> HIDE DEF R
  <2>2. /\ Len(listed) \in Nat /\ DOMAIN listed = 1 .. Len(listed)
        /\ \A i \in 1 .. Len(listed) : listed[i] \in R
    BY <2>1
  <2> QED
    BY <2>2 DEF R
<1>2. \A i \in 1 .. Len(listed) : listed[i].fd \in Nat /\ listed[i].addr \in Addresses
  BY <1>1
<1>3. Fds = {listed[i].fd : i \in 1 .. Len(listed)}
  BY <1>1 DEF Fds
<1>4. Bound \in Seq(Addresses) /\ Len(Bound) = Len(listed)
  BY <1>1, <1>2 DEF Bound
<1> QED
  BY <1>1, <1>2, <1>3, <1>4 DEF Bound

(* binds(), as the refinement sees it: during a call, what was there before *)
Binds0 == IF at = "idle" THEN Bound ELSE SubSeq(Bound, 1, oldSize)

LEMMA BindsAre ==
  ASSUME BInv
  PROVE  (IF at = "idle" THEN Served ELSE SubSeq(Served, 1, oldSize)) = Binds0
<1>1. BTypes /\ Listening /\ Accounted /\ Making /\ Progress
  BY DEF BInv
<1> DEFINE a == [i \in DOMAIN listed |->
                   IF listed[i].fd \in DOMAIN kernel THEN kernel[listed[i].fd].addr ELSE NoAddr]
           c == Cardinality(DOMAIN kernel \ Fds)
           b == [i \in 1 .. c |-> NoAddr]
<1>2. a = Bound
  <2>1. \A i \in 1 .. Len(listed) : /\ listed[i].fd \in DOMAIN kernel
                                   /\ kernel[listed[i].fd].addr = listed[i].addr
    <3>1. Fds = {listed[i].fd : i \in 1 .. Len(listed)} /\ Fds \subseteq DOMAIN kernel
      BY <1>1, ListedAt DEF Accounted
    <3>2. \A i \in 1 .. Len(listed) : kernel[listed[i].fd].addr = listed[i].addr
      <4> SUFFICES ASSUME NEW i \in 1 .. Len(listed)
                   PROVE  kernel[listed[i].fd].addr = listed[i].addr
        OBVIOUS
      <4>1. kernel[listed[i].fd] = [addr |-> listed[i].addr, listening |-> TRUE]
        BY <1>1 DEF Listening
      <4> QED
        BY <4>1
    <3> QED
      BY <3>1, <3>2
  <2> QED
    BY <1>1, <2>1, ListedAt DEF Bound
<1>3. Served = a \o b
  BY DEF Served
<1>4. c \in Nat
  <2>1. IsFiniteSet(DOMAIN kernel \ Fds)
    BY <1>1, FS_Difference DEF BTypes
  <2> QED
    BY <2>1, FS_CardinalityType
<1>5. b \in Seq({NoAddr}) /\ Len(b) = c
  <2> HIDE DEF c
  <2> QED
    BY <1>4
<1>6. Bound \in Seq(Addresses) /\ Len(Bound) = Len(listed) /\ Len(listed) \in Nat
  BY <1>1, ListedAt
<1>7. CASE at = "idle"
  <2>1. DOMAIN kernel \ Fds = {}
    BY <1>1, <1>7 DEF Accounted, Making
  <2>2. c = 0
    BY <2>1, FS_EmptySet
  <2>3. b = <<>>
    <3> HIDE DEF a, b, c
    <3> QED
      BY <1>5, <2>2
  <2>4. Bound \o <<>> = Bound
    BY <1>6
  <2> QED
    BY <1>2, <1>3, <1>7, <2>3, <2>4 DEF Binds0
<1>8. CASE at # "idle"
  <2>1. oldSize \in Nat /\ oldSize <= Len(Bound)
    BY <1>1, <1>6, <1>8 DEF Progress, BTypes
  <2> HIDE DEF a, b
  <2>2. SubSeq(Bound \o b, 1, oldSize) = SubSeq(Bound, 1, oldSize)
    BY <1>5, <1>6, <2>1, <1>4
  <2> QED
    BY <1>2, <1>3, <1>8, <2>2 DEF Binds0
<1> QED
  BY <1>7, <1>8

(* The address that is bound, and what was bound before it.                 *)
LEMMA AddrType ==
  ASSUME BTypes, Progress, at # "idle"
  PROVE  /\ request[entry] \in Entries /\ Addr \in Addresses
         /\ Done \in Seq(Addresses)
         /\ Len(Bound) = oldSize + Len(Done) /\ Len(Done) \in Nat
         /\ single => Len(Done) = IF second THEN 1 ELSE 0
<1>1. /\ request \in Seq(Entries) /\ entry \in 1 .. Len(request) /\ request[entry] \in Entries
      /\ single => entry = 1
  <2>1. request \in Seq(Entries) /\ entry \in 1 .. Len(request) /\ (single => Len(request) = 1)
    BY DEF BTypes, Progress
  <2> QED
    BY <2>1
<1>2. Addr \in Addresses /\ L!Expand(request[entry])[1] \in Addresses
  <2>1. L!Expand(request[entry]) \in Seq(Addresses)
        /\ Len(L!Expand(request[entry])) = IF request[entry].ip = "" THEN 2 ELSE 1
    BY <1>1, ExpandType
  <2>2. second => request[entry].ip = ""
    BY DEF Progress
  <2> DEFINE x == L!Expand(request[entry])
  <2>3. x[1] \in Addresses /\ (second => x[2] \in Addresses)
    <3>1. x \in Seq(Addresses) /\ Len(x) \in {1, 2} /\ (second => Len(x) = 2)
      BY <2>1, <2>2
    <3> HIDE DEF x
    <3>2. 1 \in 1 .. Len(x) /\ (second => 2 \in 1 .. Len(x))
      BY <3>1
    <3> QED
      BY <3>1, <3>2
  <2> QED
    BY <2>3 DEF Addr
<1> DEFINE a == L!Asked(SubSeq(request, 1, entry - 1))
           b == IF second THEN <<L!Expand(request[entry])[1]>> ELSE <<>>
<1>3. b \in Seq(Addresses) /\ Len(b) = IF second THEN 1 ELSE 0
  <2> DEFINE x == L!Expand(request[entry])[1]
  <2>1. x \in Addresses
    BY <1>2
  <2> HIDE DEF x
  <2>2. <<x>> \in Seq(Addresses) /\ Len(<<x>>) = 1
    BY <2>1
  <2> QED
    BY <2>2 DEF x
<1>4. a \in Seq(Addresses)
  BY <1>1, AskedGrows
<1>5. single => Len(a) = 0
  <2> SUFFICES ASSUME single PROVE Len(a) = 0
    OBVIOUS
  <2>1. entry - 1 = 0 /\ 0 \in 0 .. Len(request)
    BY <1>1
  <2>2. a = <<>>
    BY <1>1, <2>1, AskedIsFlat
  <2> QED
    BY <2>2
<1>6. Done = a \o b
  BY DEF Done
<1> HIDE DEF a, b
<1>7. Done \in Seq(Addresses) /\ Len(Done) = Len(a) + Len(b) /\ Len(Done) \in Nat
  <2>1. Len(a) \in Nat /\ Len(b) \in Nat
    BY <1>3, <1>4
  <2>2. a \o b \in Seq(Addresses) /\ Len(a \o b) = Len(a) + Len(b)
    BY <1>3, <1>4, ConcatProperties
  <2> QED
    BY <1>6, <2>1, <2>2
<1>8. Len(Bound) = oldSize + Len(Done)
  <2>1. Bound \in Seq(Addresses) /\ oldSize \in Nat /\ oldSize <= Len(Bound)
        /\ Bound = SubSeq(Bound, 1, oldSize) \o Done
    BY ListedAt DEF BTypes, Progress
  <2>2. SubSeq(Bound, 1, oldSize) \in Seq(Addresses) /\ Len(SubSeq(Bound, 1, oldSize)) = oldSize
    BY <2>1
  <2>3. Len(SubSeq(Bound, 1, oldSize) \o Done) = oldSize + Len(Done)
    BY <1>7, <2>2
  <2> QED
    BY <2>1, <2>3
<1> QED
  BY <1>1, <1>2, <1>3, <1>4, <1>5, <1>7, <1>8

-----------------------------------------------------------------------------
(* The steps *)

(* What a step may make of the addresses that are bound.                    *)
Changes(b, c) ==
  \/ c = b \/ c = <<>>
  \/ \E r \in Requests : L!Free(b \o L!Asked(r)) /\ c = b \o L!Asked(r)

(* Everything but the kernel, when a call goes on and m_listens stays.      *)
LEMMA CallGoesOn ==
  ASSUME BInv, at # "idle", at' \in {"bind", "listen", "failed"},
         UNCHANGED <<request, single, entry, second, oldSize, listed, calls>>
  PROVE  /\ Fds' = Fds /\ Addr' = Addr /\ Bound' = Bound /\ Binds0' = Binds0
         /\ Progress' /\ L!Free(Bound)'
         /\ IsFiniteSet(DOMAIN kernel') /\ DOMAIN kernel' \subseteq Nat => BTypes'
<1>1. Fds' = Fds /\ Addr' = Addr /\ Bound' = Bound /\ Done' = Done
  BY DEF Fds, Addr, Bound, Done
<1>2. Binds0' = Binds0
  BY <1>1 DEF Binds0
<1>3. Progress'
  BY <1>1 DEF BInv, Progress
<1>4. L!Free(Bound)'
  BY <1>1 DEF BInv, Exclusive, L!Free, L!Clash
<1>5. IsFiniteSet(DOMAIN kernel') /\ DOMAIN kernel' \subseteq Nat => BTypes'
  BY DEF BInv, BTypes
<1> QED
  BY <1>1, <1>2, <1>3, <1>4, <1>5

LEMMA CallStep ==
  ASSUME BInv, Call
  PROVE  BInv' /\ Changes(Binds0, Binds0')
<1>1. PICK r \in Requests, s \in BOOLEAN :
        /\ s => Len(r) = 1
        /\ request' = r /\ single' = s
        /\ at' = IF r = <<>> THEN at ELSE "socket"
  BY DEF Call
<1>2. /\ at = "idle" /\ entry' = 1 /\ second' = FALSE /\ oldSize' = Len(listed)
      /\ calls < MaxCalls /\ calls' = calls + 1 /\ UNCHANGED <<sd, listed, kernel>>
  BY DEF Call
<1>3. r \in Seq(Entries) /\ Len(r) \in Nat
  BY BindingAssumption
<1>4. Len(listed) \in Nat /\ Bound \in Seq(Addresses) /\ Len(Bound) = Len(listed)
  BY ListedAt DEF BInv
<1>5. Fds' = Fds /\ Bound' = Bound
  BY <1>2 DEF Fds, Bound
<1>6. SubSeq(Bound, 1, Len(listed)) = Bound
  BY <1>4
<1>7. BTypes'
  <2>1. calls' \in 0 .. MaxCalls
    BY <1>2, BindingAssumption DEF BInv, BTypes
  <2>2. at' \in {"idle", "socket"}
    BY <1>1, <1>2
  <2>3. request' \in Seq(Entries) /\ single' \in BOOLEAN /\ second' \in BOOLEAN
        /\ entry' \in Nat \ {0} /\ oldSize' \in Nat
    <3>1. 1 \in Nat \ {0}
      OBVIOUS
    <3>2. entry' \in Nat \ {0} /\ oldSize' \in Nat /\ second' \in BOOLEAN
      BY <1>2, <1>4, <3>1
    <3> QED
      BY <1>1, <1>3, <3>2
  <2> QED
    BY <1>2, <2>1, <2>2, <2>3 DEF BInv, BTypes
<1>8. Listening' /\ Accounted' /\ Making' /\ Exclusive'
  <2>1. sd = -1 /\ at' # "listen"
    BY <1>1, <1>2 DEF BInv, Making
  <2>2. Listening'
    BY <1>2 DEF BInv, Listening
  <2>3. Accounted'
    BY <1>2, <1>5 DEF BInv, Accounted
  <2>4. Making'
    BY <1>1, <1>2, <2>1 DEF Making
  <2>5. Exclusive'
    BY <1>5, <2>1 DEF BInv, Exclusive, L!Free, L!Clash
  <2> QED
    BY <2>2, <2>3, <2>4, <2>5
<1>9. Progress'
  <2> SUFFICES ASSUME r # <<>> PROVE Progress'
    BY <1>1, <1>2 DEF Progress
  <2>1. 1 \in 1 .. Len(r) /\ 0 \in 0 .. Len(r) /\ 1 - 1 = 0
    BY <1>3
  <2>2. L!Asked(SubSeq(r, 1, 0)) = <<>>
    BY <1>3, <2>1, AskedIsFlat
  <2>3. Done' = <<>> \o <<>>
    BY <1>1, <1>2, <2>1, <2>2 DEF Done
  <2>4. Bound = SubSeq(Bound, 1, Len(listed)) \o (<<>> \o <<>>)
    BY <1>4, <1>6
  <2>5. Len(listed) <= Len(listed)
    BY <1>4
  <2> QED
    BY <1>1, <1>2, <1>5, <2>1, <2>3, <2>4, <2>5 DEF Progress
<1>10. Binds0' = Binds0
  BY <1>1, <1>2, <1>5, <1>6 DEF Binds0
<1> QED
  BY <1>7, <1>8, <1>9, <1>10 DEF BInv, Changes

(* There is always a descriptor for a new socket, and it is a free one.     *)
LEMMA DescriptorIsFree ==
  ASSUME NEW F, IsFiniteSet(F)
  PROVE  LET d == Min(0 .. Cardinality(F) \ F)
         IN  d \in Nat /\ d \notin F
<1> DEFINE c == Cardinality(F)
           T == 0 .. c \ F
<1>1. c \in Nat
  BY FS_CardinalityType
<1>2. T # {}
  <2> SUFFICES ASSUME 0 .. c \subseteq F PROVE FALSE
    OBVIOUS
  <2>1. Cardinality(0 .. c) <= c
    BY FS_Subset
  <2>2. Cardinality(0 .. c) = c + 1
    <3> HIDE DEF c
    <3>1. Cardinality(0 .. c) = c - 0 + 1
      BY <1>1, FS_Interval
    <3> QED
      BY <1>1, <3>1
  <2> QED
    BY <1>1, <2>1, <2>2
<1>3. T \in SUBSET Nat
  BY <1>1
<1> HIDE DEF T
<1>4. Min(T) \in T
  BY <1>2, <1>3, LeastIsThere
<1> QED
  BY <1>1, <1>4 DEF T

LEMMA NewSocketStep ==
  ASSUME BInv, NewSocket
  PROVE  BInv' /\ Changes(Binds0, Binds0')
<1>1. /\ at = "socket" /\ sd = -1
      /\ UNCHANGED <<request, single, entry, second, oldSize, listed, calls>>
      /\ at' \in {"bind", "failed"}
      /\ IsFiniteSet(DOMAIN kernel) /\ DOMAIN kernel \subseteq Nat /\ DOMAIN kernel = Fds
  BY DEF BInv, BTypes, Making, Accounted, NewSocket
<1>2. CASE at' = "failed" /\ sd' = -1 /\ UNCHANGED kernel
  <2>1. Fds' = Fds /\ Binds0' = Binds0 /\ Progress' /\ L!Free(Bound)' /\ BTypes'
    BY <1>1, <1>2, CallGoesOn
  <2>2. Listening' /\ Accounted'
    BY <1>1, <1>2, <2>1 DEF BInv, Listening, Accounted
  <2>3. Making' /\ Exclusive'
    BY <1>2, <2>1 DEF Making, Exclusive
  <2> QED
    BY <2>1, <2>2, <2>3 DEF BInv, Changes
<1>3. ASSUME NEW d, d = sd', d \in Nat, d \notin DOMAIN kernel, at' = "bind",
             kernel' = [f \in DOMAIN kernel \cup {d} |->
               IF f = d THEN [addr |-> NoAddr, listening |-> FALSE] ELSE kernel[f]]
      PROVE  BInv' /\ Changes(Binds0, Binds0')
  <2> DEFINE s == [addr |-> NoAddr, listening |-> FALSE]
  <2>1. DOMAIN kernel' = DOMAIN kernel \cup {d}
        /\ kernel'[d] = s /\ \A f \in DOMAIN kernel : kernel'[f] = kernel[f]
    BY <1>3
  <2>2. s \in [addr : Addresses, listening : BOOLEAN]
    BY DEF Addresses
  <2>3. IsFiniteSet(DOMAIN kernel') /\ DOMAIN kernel' \subseteq Nat
    <3>1. IsFiniteSet(DOMAIN kernel \cup {d})
      BY <1>1, FS_AddElement
    <3> QED
      BY <1>1, <1>3, <2>1, <3>1
  <2>4. Fds' = Fds /\ Binds0' = Binds0 /\ Progress' /\ L!Free(Bound)' /\ BTypes'
    BY <1>1, <2>3, CallGoesOn
  <2>5. Listening'
    <3>1. \A i \in 1 .. Len(listed) : kernel'[listed[i].fd] = kernel[listed[i].fd]
      BY <1>1, <2>1, ListedAt DEF BInv
    <3> QED
      BY <1>1, <3>1 DEF BInv, Listening
  <2>6. Accounted' /\ d # -1
    BY <1>1, <1>3, <2>1, <2>4 DEF Accounted
  <2>7. Making' /\ Exclusive'
    BY <1>3, <2>1, <2>2, <2>4, <2>6 DEF Making, Exclusive
  <2> QED
    BY <2>4, <2>5, <2>6, <2>7 DEF BInv, Changes
<1>4. sd' = Min(0 .. Cardinality(DOMAIN kernel) \ DOMAIN kernel) =>
        sd' \in Nat /\ sd' \notin DOMAIN kernel
  BY <1>1, DescriptorIsFree
<1> QED
  BY <1>2, <1>3, <1>4 DEF NewSocket

LEMMA BindSocketStep ==
  ASSUME BInv, BindSocket
  PROVE  BInv' /\ Changes(Binds0, Binds0')
<1>1. /\ at = "bind" /\ sd # -1 /\ sd \in DOMAIN kernel
      /\ UNCHANGED <<request, single, entry, second, oldSize, sd, listed, calls>>
      /\ IsFiniteSet(DOMAIN kernel) /\ DOMAIN kernel \subseteq Nat
  BY DEF BInv, BTypes, Making, Accounted, BindSocket
<1>2. CASE at' = "failed" /\ UNCHANGED kernel
  <2>1. Fds' = Fds /\ Binds0' = Binds0 /\ Progress' /\ L!Free(Bound)' /\ BTypes'
    BY <1>1, <1>2, CallGoesOn
  <2>2. Listening' /\ Accounted'
    BY <1>1, <1>2, <2>1 DEF BInv, Listening, Accounted
  <2>3. Making' /\ Exclusive'
    BY <1>1, <1>2, <2>1 DEF BInv, Making, Exclusive
  <2> QED
    BY <2>1, <2>2, <2>3 DEF BInv, Changes
<1>3. CASE /\ at' = "listen" /\ kernel' = [kernel EXCEPT ![sd].addr = Addr]
           /\ \A f \in DOMAIN kernel : kernel[f].listening => ~L!Clash(kernel[f].addr, Addr)
  <2>1. Fds' = Fds /\ Addr' = Addr /\ Binds0' = Binds0 /\ Progress' /\ L!Free(Bound)' /\ BTypes'
    BY <1>1, <1>3, CallGoesOn
  <2>2. DOMAIN kernel' = DOMAIN kernel /\ \A f \in DOMAIN kernel \ {sd} : kernel'[f] = kernel[f]
    BY <1>3
  <2>3. /\ kernel'[sd] \in [addr : Addresses, listening : BOOLEAN]
        /\ kernel'[sd].addr = Addr
    <3> DEFINE k == kernel[sd]
               a == Addr
    <3>1. k \in [addr : Addresses, listening : BOOLEAN] /\ a \in Addresses
      BY <1>1, AddrType DEF BInv, Making
    <3>2. kernel'[sd] = [k EXCEPT !.addr = a]
      BY <1>1, <1>3
    <3> HIDE DEF k, a
    <3>3. /\ kernel'[sd] \in [addr : Addresses, listening : BOOLEAN]
          /\ kernel'[sd].addr = a
      BY <3>1, <3>2
    <3> QED
      BY <3>3 DEF a
  <2>4. \A i \in 1 .. Len(listed) :
          /\ listed[i].fd \in DOMAIN kernel \ {sd} /\ kernel[listed[i].fd].listening = TRUE
          /\ kernel[listed[i].fd].addr = listed[i].addr
    <3> SUFFICES ASSUME NEW i \in 1 .. Len(listed)
                 PROVE  /\ listed[i].fd \in DOMAIN kernel \ {sd}
                        /\ kernel[listed[i].fd].listening = TRUE
                        /\ kernel[listed[i].fd].addr = listed[i].addr
      OBVIOUS
    <3>1. listed[i].fd \in Fds
      BY ListedAt DEF BInv
    <3>2. kernel[listed[i].fd] = [addr |-> listed[i].addr, listening |-> TRUE]
      BY DEF BInv, Listening
    <3> QED
      BY <3>1, <3>2 DEF BInv, Accounted
  <2>5. Listening'
    BY <1>1, <2>2, <2>4 DEF BInv, Listening
  <2>6. Accounted'
    BY <1>1, <2>1, <2>2 DEF BInv, Accounted
  <2>7. Making'
    BY <1>1, <1>3, <2>1, <2>3 DEF Making
  <2>8. Exclusive'
    <3>1. \A i \in 1 .. Len(listed) : ~L!Clash(listed[i].addr, Addr)
      BY <1>3, <2>4
    <3> QED
      BY <1>1, <2>1, <3>1 DEF Exclusive, L!Clash
  <2> QED
    BY <2>1, <2>5, <2>6, <2>7, <2>8 DEF BInv, Changes
<1> QED
  BY <1>2, <1>3 DEF BindSocket

LEMMA ListenFailsStep ==
  ASSUME BInv, ListenFails
  PROVE  BInv' /\ Changes(Binds0, Binds0')
<1>1. /\ at = "listen" /\ at' = "failed"
      /\ UNCHANGED <<request, single, entry, second, oldSize, sd, listed, kernel, calls>>
      /\ IsFiniteSet(DOMAIN kernel) /\ DOMAIN kernel \subseteq Nat
  BY DEF BInv, BTypes, ListenFails
<1>2. Fds' = Fds /\ Binds0' = Binds0 /\ Progress' /\ L!Free(Bound)' /\ BTypes'
  BY <1>1, CallGoesOn
<1>3. Listening' /\ Accounted' /\ Making' /\ Exclusive'
  BY <1>1, <1>2 DEF BInv, Listening, Accounted, Making, Exclusive
<1> QED
  BY <1>2, <1>3 DEF BInv, Changes

(* m_listens.resize(n): the sockets behind the n-th, and the one that was   *)
(* being made, are closed.                                                  *)
LEMMA ResizeStep ==
  ASSUME BInv, NEW n \in 0 .. Len(listed), Resize(n), at' = "idle", sd' = -1,
         UNCHANGED <<request, single, entry, oldSize, calls>>, second' \in BOOLEAN
  PROVE  BInv' /\ Binds0' = SubSeq(Bound, 1, n)
<1>1. /\ n \in Nat /\ n <= Len(listed) /\ Len(listed) \in Nat
      /\ 1 .. n \subseteq 1 .. Len(listed)
      /\ Fds = {listed[i].fd : i \in 1 .. Len(listed)}
  BY ListedAt DEF BInv
<1>2. /\ listed' \in Seq([fd : Nat, addr : Addresses]) /\ Len(listed') = n
      /\ \A i \in 1 .. n : listed'[i] = listed[i]
  <2> DEFINE R == [fd : Nat, addr : Addresses]
  <2>1. listed \in Seq(R) /\ listed' = SubSeq(listed, 1, n)
    BY DEF BInv, BTypes, Resize
  <2> HIDE DEF R
  <2>2. listed' \in Seq(R) /\ Len(listed') = n /\ \A i \in 1 .. n : listed'[i] = listed[i]
    BY <1>1, <2>1
  <2> QED
    BY <2>2 DEF R
<1>3. Fds' = {listed[i].fd : i \in 1 .. n}
  <2>1. DOMAIN listed' = 1 .. n
    BY <1>2
  <2> QED
    BY <1>2, <2>1 DEF Fds
<1>4. Closing(n) = {listed[i].fd : i \in n + 1 .. Len(listed)}
  BY DEF Closing
<1>5. DOMAIN kernel' = Fds' /\ \A f \in Fds' : kernel'[f] = kernel[f]
  <2>1. kernel' = [f \in DOMAIN kernel \ (Closing(n) \cup {sd}) |-> kernel[f]]
    BY DEF Resize, Restrict
  <2>2. DOMAIN kernel \ {sd} = Fds
    BY DEF BInv, Accounted
  <2>3. Fds \ Closing(n) = Fds'
    <3>1. ASSUME NEW i \in 1 .. n, NEW j \in n + 1 .. Len(listed)
          PROVE  listed[i].fd # listed[j].fd
      <4>1. i \in 1 .. Len(listed) /\ j \in 1 .. Len(listed) /\ i # j
        BY <1>1
      <4> QED
        BY <4>1 DEF BInv, Listening
    <3>2. \A i \in 1 .. Len(listed) : i \in 1 .. n \/ i \in n + 1 .. Len(listed)
      BY <1>1
    <3> QED
      BY <1>1, <1>3, <1>4, <3>1, <3>2
  <2> QED
    BY <2>1, <2>2, <2>3
<1>6. IsFiniteSet(DOMAIN kernel') /\ DOMAIN kernel' \subseteq Nat
  <2>1. Fds' \subseteq DOMAIN kernel
    BY <1>1, <1>3 DEF BInv, Accounted
  <2> QED
    BY <1>5, <2>1, FS_Subset DEF BInv, BTypes
<1>7. BTypes'
  BY <1>2, <1>6 DEF BInv, BTypes
<1>8. Listening'
  <2>1. \A i \in 1 .. n : kernel'[listed'[i].fd] = kernel[listed[i].fd]
    BY <1>2, <1>3, <1>5
  <2>2. ASSUME NEW i \in 1 .. Len(listed')
        PROVE  kernel'[listed'[i].fd] = [addr |-> listed'[i].addr, listening |-> TRUE]
    <3>1. i \in 1 .. n /\ i \in 1 .. Len(listed)
      BY <1>1, <1>2
    <3>2. kernel[listed[i].fd] = [addr |-> listed[i].addr, listening |-> TRUE]
      BY <3>1 DEF BInv, Listening
    <3> QED
      BY <1>2, <2>1, <3>1, <3>2
  <2>3. ASSUME NEW i \in 1 .. Len(listed'), NEW j \in 1 .. Len(listed'),
               listed'[i].fd = listed'[j].fd
        PROVE  i = j
    BY <1>1, <1>2, <2>3 DEF BInv, Listening
  <2> QED
    BY <2>2, <2>3 DEF Listening
<1>9. -1 \notin Fds'
  BY <1>5, <1>6
<1>10. Accounted' /\ Making'
  BY <1>5, <1>9 DEF Accounted, Making
<1>11. Bound' = SubSeq(Bound, 1, n) /\ DOMAIN Bound' = 1 .. n
       /\ \A i \in 1 .. n : Bound'[i] = Bound[i]
  <2>1. Bound \in Seq(Addresses) /\ Len(Bound) = Len(listed)
        /\ \A i \in 1 .. Len(listed) : Bound[i] = listed[i].addr
    BY ListedAt DEF BInv
  <2>2. Bound' = [i \in 1 .. n |-> listed'[i].addr]
    BY <1>2 DEF Bound
  <2>3. \A i \in 1 .. n : Bound'[i] = Bound[i]
    BY <1>1, <1>2, <2>1, <2>2
  <2>4. SubSeq(Bound, 1, n) = [i \in 1 .. n |-> Bound[i]]
    <3> HIDE DEF Bound
    <3> QED
      BY <1>1, <2>1
  <2> QED
    BY <2>2, <2>3, <2>4
<1>12. Exclusive'
  <2>1. DOMAIN Bound = 1 .. Len(listed)
    BY DEF Bound
  <2>2. L!Free(Bound)
    BY DEF BInv, Exclusive
  <2>3. \A i, j \in DOMAIN Bound' : i # j => ~L!Clash(Bound'[i], Bound'[j])
    BY <1>1, <1>11, <2>1, <2>2 DEF L!Free
  <2> QED
    BY <2>3 DEF Exclusive, L!Free, L!Clash
<1>13. Progress'
  BY DEF Progress
<1>14. Binds0' = SubSeq(Bound, 1, n)
  BY <1>11 DEF Binds0
<1> QED
  BY <1>7, <1>8, <1>10, <1>12, <1>13, <1>14 DEF BInv

LEMMA CloseStep ==
  ASSUME BInv, at = "idle", Resize(0),
         UNCHANGED <<at, request, single, entry, second, oldSize, sd, calls>>
  PROVE  BInv' /\ Changes(Binds0, Binds0')
<1>1. 0 \in 0 .. Len(listed) /\ sd' = -1 /\ second' \in BOOLEAN /\ Bound \in Seq(Addresses)
  BY ListedAt DEF BInv, Making, BTypes
<1>2. BInv' /\ Binds0' = SubSeq(Bound, 1, 0)
  BY <1>1, ResizeStep
<1>3. SubSeq(Bound, 1, 0) = <<>>
  BY <1>1
<1> QED
  BY <1>2, <1>3 DEF Changes

LEMMA FailedStep ==
  ASSUME BInv, Failed
  PROVE  BInv' /\ Changes(Binds0, Binds0')
<1>1. /\ at = "failed" /\ at' = "idle" /\ sd' = -1 /\ second' = FALSE
      /\ Resize(SizeAfter)
      /\ UNCHANGED <<request, single, entry, oldSize, calls>>
  BY DEF Failed
<1>2. SizeAfter = oldSize
  <2>1. CASE single
    <3>1. /\ Len(Bound) = oldSize + Len(Done) /\ Len(Done) = IF second THEN 1 ELSE 0
          /\ Len(Bound) = Len(listed) /\ oldSize \in Nat
      BY <1>1, <2>1, AddrType, ListedAt DEF BInv, BTypes
    <3> QED
      BY <2>1, <3>1 DEF SizeAfter
  <2>2. CASE ~single
    BY <2>2 DEF SizeAfter
  <2> QED
    BY <2>1, <2>2
<1>3. oldSize \in 0 .. Len(listed)
  <2>1. oldSize \in Nat /\ oldSize <= Len(listed) /\ Len(listed) \in Nat
    BY <1>1, ListedAt DEF BInv, BTypes, Progress
  <2> QED
    BY <2>1
<1>4. BInv' /\ Binds0' = SubSeq(Bound, 1, oldSize)
  BY <1>1, <1>2, <1>3, ResizeStep
<1> QED
  BY <1>1, <1>4 DEF Changes, Binds0

LEMMA Appending ==
  ASSUME NEW S, NEW p \in Seq(S), NEW d \in Seq(S), NEW x \in S
  PROVE  /\ Append(p \o d, x) = p \o Append(d, x)
         /\ Append(d, x) = d \o <<x>> /\ Append(d, x) \in Seq(S)
         /\ d \o <<>> = d /\ Append(d, x) \o <<>> = Append(d, x)
  BY SMTT(30)

LEMMA AppendLater ==
  ASSUME NEW p \in Seq(Addresses), NEW d \in Seq(Addresses), NEW x \in Addresses
  PROVE  Append(p \o d, x) = p \o Append(d, x)
OBVIOUS

LEMMA AppendingTwo ==
  ASSUME NEW S, NEW d \in Seq(S), NEW x \in S, NEW y \in S
  PROVE  /\ Append(d \o <<x>>, y) = d \o <<x, y>>
         /\ (d \o <<x, y>>) \o <<>> = d \o <<x, y>>
         /\ Append(d \o <<>>, x) = d \o <<x>>
         /\ (d \o <<x>>) \o <<>> = d \o <<x>>
  OBVIOUS

LEMMA AppendedIs ==
  ASSUME NEW S, NEW d \in Seq(S), NEW x \in S, NEW n \in Nat, Len(d) = n,
         NEW m \in 0 .. n
  PROVE  /\ Append(d, x) = [i \in 1 .. n + 1 |-> IF i = n + 1 THEN x ELSE d[i]]
         /\ SubSeq(Append(d, x), 1, m) = SubSeq(d, 1, m)
         /\ SubSeq(d, 1, m) \in Seq(S)
<1>1. Append(d, x) = [i \in 1 .. n + 1 |-> IF i = n + 1 THEN x ELSE d[i]]
  <2> DEFINE f == [i \in 1 .. n + 1 |-> IF i = n + 1 THEN x ELSE d[i]]
  <2>1. \A i \in 1 .. n + 1 : i \in 1 .. n \/ i = n + 1
    OBVIOUS
  <2>2. \A i \in 1 .. n + 1 : f[i] \in S
    BY <2>1
  <2>3. f \in Seq(S)
    BY <2>2, IsASeq
  <2>4. Append(d, x) \in Seq(S) /\ Len(Append(d, x)) = n + 1 /\ Len(f) = n + 1
    OBVIOUS
  <2>5. \A i \in 1 .. n + 1 : Append(d, x)[i] = f[i]
    BY <2>1
  <2> HIDE DEF f
  <2>6. Append(d, x) = f
    BY <2>3, <2>4, <2>5, SeqEqual
  <2> QED
    BY <2>6 DEF f
<1>2. m \in Nat /\ m <= n /\ m <= n + 1
  OBVIOUS
<1>3. SubSeq(Append(d, x), 1, m) = [i \in 1 .. m |-> Append(d, x)[i]]
  BY <1>2
<1>4. SubSeq(d, 1, m) = [i \in 1 .. m |-> d[i]]
  BY <1>2
<1>5. \A i \in 1 .. m : i \in 1 .. n + 1 /\ i # n + 1 /\ d[i] \in S
  BY <1>2
<1>6. \A i \in 1 .. m : Append(d, x)[i] = d[i]
  BY <1>1, <1>5
<1>7. SubSeq(d, 1, m) \in Seq(S)
  BY <1>2, <1>4, <1>5
<1> QED
  BY <1>1, <1>3, <1>4, <1>6, <1>7

(* The next address of the entry, or the next entry.                        *)
GoesOn ==
  /\ second' = (~second /\ request[entry].ip = "")
  /\ entry' = IF second' THEN entry ELSE entry + 1
  /\ request' = request

(* What has been added when the listen_t is there.                          *)
LEMMA DoneGrows ==
  ASSUME BTypes, Progress, at # "idle", GoesOn
  PROVE  Append(Done, Addr) = Done'
<1> DEFINE r == request[entry]
           a == L!Asked(SubSeq(request, 1, entry - 1))
           x == L!Expand(r)[1]
           y == L!Expand(r)[2]
<1>1. request \in Seq(Entries) /\ entry \in 1 .. Len(request) /\ r \in Entries
      /\ (second => r.ip = "") /\ (entry + 1) - 1 = entry
  <2>1. request \in Seq(Entries) /\ entry \in 1 .. Len(request)
        /\ (second => request[entry].ip = "")
    BY DEF BTypes, Progress
  <2>2. request[entry] \in Entries
    BY <2>1, ElementOfSeq
  <2>3. entry \in Nat
    BY DEF BTypes
  <2>4. (entry + 1) - 1 = entry
    BY <2>3
  <2> QED
    BY <2>1, <2>2, <2>4
<1>2. /\ a \in Seq(Addresses) /\ x \in Addresses
      /\ L!Asked(SubSeq(request, 1, entry)) = a \o L!Expand(r)
  <2>1. L!Expand(r) \in Seq(Addresses) /\ Len(L!Expand(r)) \in {1, 2}
    BY <1>1, ExpandType
  <2>2. x \in Addresses
    <3> DEFINE e == L!Expand(r)
    <3> HIDE DEF e
    <3>1. e \in Seq(Addresses) /\ Len(e) \in {1, 2}
      BY <2>1 DEF e
    <3>2. 1 \in 1 .. Len(e)
      <4>1. Len(e) = 1 \/ Len(e) = 2
        BY <3>1
      <4> QED
        BY <4>1
    <3>3. e[1] \in Addresses
      BY <3>1, <3>2, ElementOfSeq
    <3> QED
      BY <3>3 DEF e
  <2> QED
    BY <1>1, <2>2, AskedGrows
<1>3. CASE second
  <2>1. r.ip = "" /\ L!Expand(r) = <<x, y>> /\ second' = FALSE /\ entry' = entry + 1
    BY <1>1, <1>3 DEF L!Expand, GoesOn
  <2>2. Addr = y /\ y \in Addresses
    BY <1>3, AddrType DEF Addr
  <2>3. Done = a \o <<x>>
    BY <1>3 DEF Done
  <2>4. Done' = (a \o L!Expand(r)) \o <<>>
    BY <1>1, <1>2, <2>1 DEF Done, GoesOn
  <2> HIDE DEF x, y, a, r
  <2>5. Append(a \o <<x>>, y) = a \o <<x, y>> /\ (a \o <<x, y>>) \o <<>> = a \o <<x, y>>
    <3>1. a \in Seq(Addresses) /\ x \in Addresses /\ y \in Addresses
      BY <1>2, <2>2
    <3> QED
      BY <3>1, AppendingTwo
  <2> QED
    BY <2>1, <2>2, <2>3, <2>4, <2>5
<1>4. CASE ~second /\ r.ip = ""
  <2>1. second' = TRUE /\ entry' = entry
    BY <1>4 DEF GoesOn
  <2>2. Addr = x
    BY <1>4 DEF Addr
  <2>3. Done = a \o <<>> /\ Done' = a \o <<x>>
    BY <1>4, <2>1 DEF Done, GoesOn
  <2> HIDE DEF x, y, a, r
  <2>4. Append(a \o <<>>, x) = a \o <<x>>
    BY <1>2, AppendingTwo
  <2> QED
    BY <2>2, <2>3, <2>4
<1>5. CASE ~second /\ r.ip # ""
  <2>1. L!Expand(r) = <<x>> /\ second' = FALSE /\ entry' = entry + 1
    BY <1>5 DEF L!Expand, GoesOn
  <2>2. Addr = x
    BY <1>5 DEF Addr
  <2>3. Done = a \o <<>>
    BY <1>5 DEF Done
  <2>4. Done' = (a \o L!Expand(r)) \o <<>>
    BY <1>1, <1>2, <2>1 DEF Done, GoesOn
  <2> HIDE DEF x, y, a, r
  <2>5. Append(a \o <<>>, x) = a \o <<x>> /\ (a \o <<x>>) \o <<>> = a \o <<x>>
    BY <1>2, AppendingTwo
  <2> QED
    BY <2>1, <2>2, <2>3, <2>4, <2>5
<1> QED
  BY <1>3, <1>4, <1>5

LEMMA ListenSocketStep ==
  ASSUME BInv, ListenSocket
  PROVE  BInv' /\ Changes(Binds0, Binds0')
<1> DEFINE P == SubSeq(Bound, 1, oldSize)
           n == Len(listed)
           s == sd
           a == Addr
<1>1. /\ at = "listen" /\ s # -1 /\ kernel' = [kernel EXCEPT ![s].listening = TRUE]
      /\ listed' = Append(listed, [fd |-> s, addr |-> a]) /\ sd' = -1
      /\ second' = (~second /\ request[entry].ip = "")
      /\ entry' = IF second' THEN entry ELSE entry + 1
      /\ at' = IF entry' > Len(request) THEN "idle" ELSE "socket"
      /\ UNCHANGED <<request, single, oldSize, calls>>
  BY DEF BInv, Making, ListenSocket
<1>2. /\ BTypes /\ Progress /\ a \in Addresses /\ Done \in Seq(Addresses)
      /\ request \in Seq(Entries) /\ request \in Requests /\ entry \in 1 .. Len(request)
      /\ Bound \in Seq(Addresses) /\ Len(Bound) = n /\ n \in Nat
      /\ oldSize \in Nat /\ oldSize <= n
      /\ s \in DOMAIN kernel /\ s \in Nat /\ s \notin Fds
      /\ kernel[s] \in [addr : Addresses, listening : BOOLEAN] /\ kernel[s].addr = a
  BY <1>1, AddrType, ListedAt DEF BInv, BTypes, Progress, Accounted, Making
<1> HIDE DEF s, a, n
<1>3. /\ listed' \in Seq([fd : Nat, addr : Addresses])
      /\ Len(listed') = n + 1 /\ \A i \in 1 .. n : listed'[i] = listed[i]
      /\ listed'[n + 1] = [fd |-> s, addr |-> a]
  <2> DEFINE R == [fd : Nat, addr : Addresses]
             x == [fd |-> s, addr |-> a]
  <2>1. listed \in Seq(R) /\ x \in R /\ listed' = Append(listed, x)
    BY <1>1, <1>2 DEF BTypes
  <2> HIDE DEF R, x
  <2>2. listed' \in Seq(R) /\ Len(listed') = n + 1 /\ listed'[n + 1] = x
        /\ \A i \in 1 .. n : listed'[i] = listed[i]
    BY <2>1 DEF n
  <2> QED
    BY <2>2 DEF R, x
<1>4. \A i \in 1 .. n + 1 : i \in 1 .. n \/ i = n + 1
  BY <1>2
<1>5. /\ DOMAIN kernel' = DOMAIN kernel /\ \A f \in DOMAIN kernel \ {s} : kernel'[f] = kernel[f]
      /\ kernel'[s] = [addr |-> a, listening |-> TRUE]
  <2> DEFINE k == kernel[s]
  <2>1. k \in [addr : Addresses, listening : BOOLEAN] /\ k.addr = a
        /\ kernel'[s] = [k EXCEPT !.listening = TRUE]
    BY <1>1, <1>2
  <2> HIDE DEF k
  <2>2. kernel'[s] = [addr |-> a, listening |-> TRUE]
    BY <2>1
  <2> QED
    BY <1>1, <2>2
<1>6. Fds' = Fds \cup {s}
  <2>1. Fds = {listed[i].fd : i \in 1 .. n} /\ DOMAIN listed' = 1 .. n + 1
    BY <1>2, <1>3, ListedAt DEF n
  <2>2. Fds' = {listed'[i].fd : i \in 1 .. n + 1} /\ n + 1 \in 1 .. n + 1
        /\ 1 .. n \subseteq 1 .. n + 1
    BY <1>2, <2>1 DEF Fds
  <2>3. listed'[n + 1].fd = s
    BY <1>3
  <2> QED
    BY <1>3, <1>4, <2>1, <2>2, <2>3
<1>7. BTypes'
  <2>1. at' \in {"idle", "socket"} /\ second' \in BOOLEAN /\ entry' \in Nat \ {0}
    <3>1. entry \in Nat \ {0} /\ entry + 1 \in Nat \ {0}
      BY <1>2 DEF BTypes
    <3> QED
      BY <1>1, <3>1
  <2> QED
    BY <1>1, <1>2, <1>3, <1>5, <2>1 DEF BTypes
<1>8. Listening'
  <2>1. ASSUME NEW i \in 1 .. n
        PROVE  /\ listed'[i] = listed[i] /\ listed[i].fd \in DOMAIN kernel \ {s}
               /\ kernel[listed[i].fd] = [addr |-> listed[i].addr, listening |-> TRUE]
               /\ kernel'[listed[i].fd] = kernel[listed[i].fd]
    <3>1. listed[i].fd \in Fds
      BY <1>2, ListedAt DEF n
    <3>2. listed[i].fd \in DOMAIN kernel \ {s}
      BY <1>2, <3>1 DEF BInv, Accounted
    <3>3. kernel[listed[i].fd] = [addr |-> listed[i].addr, listening |-> TRUE]
      BY DEF BInv, Listening, n
    <3> QED
      BY <1>3, <1>5, <3>2, <3>3
  <2>2. listed'[n + 1].fd = s /\ listed'[n + 1].addr = a
    BY <1>3
  <2>3. ASSUME NEW i \in 1 .. n + 1
        PROVE  kernel'[listed'[i].fd] = [addr |-> listed'[i].addr, listening |-> TRUE]
    <3>1. CASE i = n + 1
      BY <1>5, <2>2, <3>1
    <3>2. CASE i \in 1 .. n
      BY <2>1, <3>2
    <3> QED
      BY <1>4, <3>1, <3>2
  <2>4. ASSUME NEW i \in 1 .. n + 1, NEW j \in 1 .. n + 1, listed'[i].fd = listed'[j].fd
        PROVE  i = j
    <3>1. CASE i \in 1 .. n /\ j \in 1 .. n
      BY <2>1, <2>4, <3>1 DEF BInv, Listening, n
    <3>2. CASE i = n + 1 \/ j = n + 1
      BY <1>4, <2>1, <2>2, <2>4, <3>2
    <3> QED
      BY <1>4, <3>1, <3>2
  <2> QED
    BY <1>3, <2>3, <2>4 DEF Listening
<1>9. Accounted'
  <2>1. DOMAIN kernel = Fds \cup {s} /\ -1 \notin Fds'
    BY <1>2, <1>6 DEF BInv, BTypes, Accounted, s
  <2> QED
    BY <1>1, <1>5, <1>6, <2>1 DEF Accounted
<1>10. Making'
  BY <1>1 DEF Making
<1>11. Bound' = Append(Bound, a) /\ Len(Bound') = n + 1
       /\ (\A i \in 1 .. n : Bound'[i] = listed[i].addr) /\ Bound'[n + 1] = a
  <2>1. Bound' = [i \in 1 .. n + 1 |-> listed'[i].addr]
    BY <1>3 DEF Bound
  <2>2. n + 1 \in 1 .. n + 1 /\ 1 .. n \subseteq 1 .. n + 1
    BY <1>2
  <2>3. (\A i \in 1 .. n : Bound'[i] = listed[i].addr) /\ Bound'[n + 1] = a
    BY <1>3, <2>1, <2>2
  <2>4. \A i \in 1 .. n : Bound[i] = listed[i].addr
    BY DEF Bound, n
  <2>5. Append(Bound, a) = [i \in 1 .. n + 1 |-> IF i = n + 1 THEN a ELSE Bound[i]]
    <3>1. n \in 0 .. n /\ n \in Nat /\ Bound \in Seq(Addresses) /\ a \in Addresses
          /\ Len(Bound) = n
      BY <1>2
    <3> HIDE DEF Bound
    <3> QED
      BY <3>1, AppendedIs
  <2>6. \A i \in 1 .. n + 1 : listed'[i].addr = IF i = n + 1 THEN a ELSE Bound[i]
    BY <1>3, <1>4, <2>4
  <2>7. Len(Bound') = n + 1
    BY <1>2, <2>1
  <2> QED
    BY <2>1, <2>3, <2>5, <2>6, <2>7
<1>12. Exclusive'
  <2>1. DOMAIN Bound' = 1 .. n + 1 /\ DOMAIN Bound = 1 .. n
    BY <1>3 DEF Bound, n
  <2>2. ASSUME NEW i \in 1 .. n + 1, NEW j \in 1 .. n + 1, i # j
        PROVE  ~L!Clash(Bound'[i], Bound'[j])
    <3>1. CASE i \in 1 .. n /\ j \in 1 .. n
      <4>1. Bound'[i] = Bound[i] /\ Bound'[j] = Bound[j]
        BY <1>11, <3>1 DEF Bound, n
      <4> QED
        BY <2>1, <2>2, <3>1, <4>1 DEF BInv, Exclusive, L!Free
    <3>2. \A k \in 1 .. n : ~L!Clash(Bound'[k], a)
      BY <1>1, <1>11 DEF BInv, Exclusive, n, a
    <3>3. \A k \in 1 .. n : ~L!Clash(a, Bound'[k])
      BY <3>2 DEF L!Clash
    <3>4. CASE i = n + 1 \/ j = n + 1
      BY <1>4, <1>11, <2>2, <3>2, <3>3, <3>4
    <3> QED
      BY <1>4, <3>1, <3>4
  <2> QED
    BY <1>1, <2>1, <2>2 DEF Exclusive, L!Free, L!Clash
<1>13. /\ SubSeq(Bound', 1, oldSize) = P
       /\ Bound' = P \o Done' /\ Done' = Append(Done, a)
  <2>0. oldSize \in 0 .. n
    BY <1>2
  <2>1. P \in Seq(Addresses)
    BY <1>2, <2>0, AppendedIs
  <2>2. Bound = P \o Done
    BY <1>1, <1>2 DEF Progress
  <2>3. Append(P \o Done, a) = P \o Append(Done, a)
    <3>1. Done \in Seq(Addresses) /\ a \in Addresses
      BY <1>2
    <3> HIDE DEF P
    <3> QED
      BY <2>1, <3>1, AppendLater
  <2>4. Append(Done, a) = Done'
    BY <1>1, <1>2, DoneGrows DEF a, GoesOn
  <2>5. SubSeq(Append(Bound, a), 1, oldSize) = SubSeq(Bound, 1, oldSize)
    BY <1>2, <2>0, AppendedIs
  <2> HIDE DEF P
  <2> QED
    BY <1>11, <2>2, <2>3, <2>4, <2>5 DEF P
<1>14. Progress'
  <2> SUFFICES ASSUME at' # "idle" PROVE Progress'
    BY DEF Progress
  <2>1. entry' \in 1 .. Len(request)
    <3>1. entry' \in Nat \ {0}
      BY <1>7 DEF BTypes
    <3>2. ~(entry' > Len(request))
      BY <1>1
    <3>3. Len(request) \in Nat
      BY <1>2
    <3> QED
      BY <3>1, <3>2, <3>3
  <2>2. oldSize <= n + 1
    BY <1>2
  <2>3. (single => Len(request) = 1) /\ (second' => request[entry'].ip = "")
    BY <1>1, <1>2 DEF Progress
  <2> QED
    BY <1>1, <1>2, <1>3, <1>13, <2>1, <2>2, <2>3 DEF Progress
<1>15. Changes(Binds0, Binds0')
  <2>1. Binds0 = P
    BY <1>1 DEF Binds0
  <2>2. CASE at' # "idle"
    <3>1. Binds0' = P
      BY <1>1, <1>13, <2>2 DEF Binds0
    <3> QED
      BY <2>1, <3>1 DEF Changes
  <2>3. CASE at' = "idle"
    <3>1. second' = FALSE /\ entry' = Len(request) + 1
      <4>1. entry' > Len(request) /\ entry <= Len(request) /\ entry \in Nat /\ Len(request) \in Nat
        <5>1. entry' > Len(request)
          BY <1>1, <2>3
        <5>2. entry \in 1 .. Len(request) /\ Len(request) \in Nat
          BY <1>2
        <5>3. entry \in Nat /\ entry <= Len(request)
          BY <5>2
        <5> QED
          BY <5>1, <5>2, <5>3
      <4>2. second' = FALSE
        <5>1. second' \in BOOLEAN
          BY <1>7 DEF BTypes
        <5>2. second' => entry' = entry
          BY <1>1
        <5>3. entry' # entry
          BY <4>1
        <5> QED
          BY <5>1, <5>2, <5>3
      <4>3. entry' = entry + 1
        BY <1>1, <4>2
      <4> QED
        BY <4>1, <4>2, <4>3
    <3>2. Done' = L!Asked(SubSeq(request, 1, Len(request))) \o <<>>
      <4>1. (Len(request) + 1) - 1 = Len(request)
        BY <1>2
      <4> QED
        BY <1>1, <3>1, <4>1 DEF Done
    <3>3. Done' = L!Asked(request)
      <4>1. L!Asked(SubSeq(request, 1, Len(request))) = L!Asked(request)
        BY <1>2, AskedAll
      <4>2. Len(request) \in 1 .. Len(request)
        BY <1>2
      <4> DEFINE e == L!Asked(SubSeq(request, 1, Len(request)))
      <4>3. Append(Done, a) = e \o <<>> /\ Append(Done, a) \in Seq(Addresses)
        BY <1>2, <1>13, <3>2, Appending
      <4>4. e \in Seq(Addresses)
        <5>1. /\ L!Asked(SubSeq(request, 1, Len(request) - 1)) \in Seq(Addresses)
              /\ e = L!Asked(SubSeq(request, 1, Len(request) - 1)) \o L!Expand(request[Len(request)])
          BY <1>2, <4>2, AskedGrows
        <5>2. L!Expand(request[Len(request)]) \in Seq(Addresses)
          <6>1. request[Len(request)] \in Entries
            BY <1>2, <4>2
          <6> QED
            BY <6>1, ExpandType
        <5> QED
          BY <5>1, <5>2, ConcatProperties
      <4> HIDE DEF e
      <4>5. e \o <<>> = e
        BY <4>4
      <4> QED
        BY <3>2, <4>1, <4>5 DEF e
    <3>4. Binds0' = P \o L!Asked(request)
      BY <1>13, <2>3, <3>3 DEF Binds0
    <3>5. L!Free(P \o L!Asked(request))
      <4>1. \A i, j \in DOMAIN Bound' : i # j => ~L!Clash(Bound'[i], Bound'[j])
        BY <1>12 DEF Exclusive, L!Free, L!Clash
      <4>2. Bound' = P \o L!Asked(request)
        BY <1>13, <3>3
      <4> QED
        BY <4>1, <4>2 DEF L!Free
    <3> QED
      BY <1>2, <2>1, <3>4, <3>5 DEF Changes
  <2> QED
    BY <2>2, <2>3
<1> QED
  BY <1>7, <1>8, <1>9, <1>10, <1>12, <1>14, <1>15 DEF BInv

-----------------------------------------------------------------------------
(* The theorems *)

LEMMA BindStarts == BindInit => BInv /\ Binds0 = <<>>
<1> SUFFICES ASSUME BindInit PROVE BInv /\ Binds0 = <<>>
  OBVIOUS
<1>1. /\ at = "idle" /\ request = <<>> /\ single = FALSE /\ entry = 1 /\ second = FALSE
      /\ oldSize = 0 /\ calls = 0 /\ sd = -1 /\ listed = <<>> /\ kernel = << >>
  BY DEF BindInit
<1>2. DOMAIN listed = {} /\ Len(listed) = 0 /\ DOMAIN kernel = {} /\ 1 .. 0 = {}
  BY <1>1
<1>3. Fds = {} /\ Bound = <<>> /\ DOMAIN Bound = {}
  BY <1>2 DEF Fds, Bound
<1>4. BTypes
  <2>1. 1 \in Nat \ {0} /\ 0 \in Nat /\ 0 \in 0 .. MaxCalls
    BY BindingAssumption
  <2>2. IsFiniteSet(DOMAIN kernel) /\ DOMAIN kernel \subseteq Nat
    BY <1>2, FS_EmptySet
  <2>3. request \in Seq(Entries) /\ listed \in Seq([fd : Nat, addr : Addresses])
    BY <1>1
  <2> QED
    BY <1>1, <2>1, <2>2, <2>3 DEF BTypes
<1>5. Listening /\ Accounted /\ Making /\ Progress
  BY <1>1, <1>2, <1>3 DEF Listening, Accounted, Making, Progress
<1>6. Exclusive
  BY <1>1, <1>3 DEF Exclusive, L!Free
<1> QED
  BY <1>1, <1>3, <1>4, <1>5, <1>6 DEF BInv, Binds0

LEMMA NothingBinds ==
  ASSUME BInv, UNCHANGED bindVars
  PROVE  BInv' /\ Binds0' = Binds0
<1>1. UNCHANGED <<at, request, single, entry, second, oldSize, sd, listed, kernel, calls>>
  BY DEF bindVars
<1>2. /\ BTypes' = BTypes /\ Listening' = Listening /\ Accounted' = Accounted
      /\ Making' = Making /\ Exclusive' = Exclusive /\ Progress' = Progress
      /\ Binds0' = Binds0
  BY <1>1 DEF BTypes, Listening, Accounted, Fds, Making, Addr, Exclusive, Bound, L!Free,
              Progress, Done, Binds0
<1> QED
  BY <1>2 DEF BInv

LEMMA BindStep ==
  ASSUME BInv, [BindNext]_bindVars
  PROVE  BInv' /\ Changes(Binds0, Binds0')
<1>1. CASE Call
  BY <1>1, CallStep
<1>2. CASE NewSocket
  BY <1>2, NewSocketStep
<1>3. CASE BindSocket
  BY <1>3, BindSocketStep
<1>4. CASE ListenSocket
  BY <1>4, ListenSocketStep
<1>5. CASE ListenFails
  BY <1>5, ListenFailsStep
<1>6. CASE Failed
  BY <1>6, FailedStep
<1>7. CASE Close
  BY <1>7, CloseStep DEF Close
<1>8. CASE UNCHANGED bindVars
  BY <1>8, NothingBinds DEF Changes
<1> QED
  BY <1>1, <1>2, <1>3, <1>4, <1>5, <1>6, <1>7, <1>8 DEF BindNext

LEMMA BInvTypes == BInv => BindTypeOK
<1> SUFFICES ASSUME BInv PROVE BindTypeOK
  OBVIOUS
<1>1. at # "idle" => entry \in DOMAIN request
  <2>1. request \in Seq(Entries)
    BY DEF BInv, BTypes
  <2>2. DOMAIN request = 1 .. Len(request)
    BY <2>1
  <2> QED
    BY <2>2 DEF BInv, Progress
<1>2. Len(listed) >= oldSize \/ at = "idle"
  <2>1. Len(listed) \in Nat /\ oldSize \in Nat /\ (at # "idle" => oldSize <= Len(listed))
    BY ListedAt DEF BInv, BTypes, Progress
  <2> QED
    BY <2>1
<1>3. sd = -1 \/ sd \in DOMAIN kernel
  BY DEF BInv, Accounted
<1> QED
  BY <1>1, <1>2, <1>3 DEF BInv, BTypes, BindTypeOK

(* Binds0 is what Binding gives Listeners for its variable.                 *)
BindsAgree ==
  (IF at = "idle" THEN Served ELSE SubSeq(Served, 1, oldSize)) = Binds0

(* What binds() returns is what Listeners has, and changes as it says.      *)
LEMMA BindsChange ==
  Changes(Binds0, Binds0') /\ BindsAgree /\ BindsAgree' => [L!Next]_(L!vars)
BY DEF Changes, BindsAgree, L!Next, L!CloseAll, L!Bind, L!vars

(* bind(), close(): in every behaviour m_listens and the kernel agree on    *)
(* what is open, and nothing that is open excludes another.                 *)
THEOREM BindingInvariant == BindInit /\ [][BindNext]_bindVars => []BInv
<1>1. BInv /\ [BindNext]_bindVars => BInv'
  BY BindStep
<1> QED
  BY <1>1, BindStarts, PTL

(* bind(): a call refers to an entry of its request and to what it added.   *)
THEOREM BindTypeCorrect == BindInit /\ [][BindNext]_bindVars => []BindTypeOK
BY BindingInvariant, BInvTypes, PTL

(* bind() adds all that it was asked for, in order, or nothing, and close() *)
(* gives up everything, whichever of their system calls fails.              *)
THEOREM BindingImplementsListeners ==
  BindInit /\ [][BindNext]_bindVars => BindsAllOrNothing
<1>1. BindInit => L!BInit
  BY BindStarts, BindsAre DEF L!BInit
<1>2. BInv => BindsAgree
  BY BindsAre DEF BindsAgree
<1>3. BInv /\ BindsAgree /\ BindsAgree' /\ [BindNext]_bindVars => [L!Next]_(L!vars)
  BY BindStep, BindsChange
<1> QED
  BY <1>1, <1>2, <1>3, BindingInvariant, PTL DEF BindsAllOrNothing, L!Spec
=============================================================================
