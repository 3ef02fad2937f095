---------------------------- MODULE ListsProofs ----------------------------
(***************************************************************************)
(* The linked lists of a daemon stay well formed and implement the table   *)
(* and the queue, for lists of every length, every set of addresses and    *)
(* every set of frames.                                                    *)
(***************************************************************************)
EXTENDS Lists, SequenceTheorems, TLAPS

\* The backends tried in turn for a leaf that names none.
USE SMT, Zenon, Z3, SMTT(20)

-----------------------------------------------------------------------------
(* Sequences. *)

\* An element put in front of a sequence.
LEMMA FrontFacts ==
  ASSUME NEW S, NEW s \in Seq(S), NEW x \in S
  PROVE  /\ <<x>> \o s \in Seq(S)
         /\ Len(<<x>> \o s) = Len(s) + 1
         /\ (<<x>> \o s)[1] = x
         /\ \A i \in 2 .. (Len(s) + 1) : (<<x>> \o s)[i] = s[i - 1]
<1>1. <<x>> \in Seq(S) /\ Len(<<x>>) = 1 /\ <<x>>[1] = x
  OBVIOUS
<1> QED
  BY <1>1, ConcatProperties, LenProperties

\* A sequence without its i-th element.
LEMMA RemoveFacts ==
  ASSUME NEW S, NEW s \in Seq(S), NEW i \in 1 .. Len(s)
  PROVE  /\ remove_pending(s, i) \in Seq(S)
         /\ Len(remove_pending(s, i)) = Len(s) - 1
         /\ \A j \in 1 .. (Len(s) - 1) :
              remove_pending(s, i)[j] = IF j < i THEN s[j] ELSE s[j + 1]
<1> DEFINE p == SubSeq(s, 1, i - 1)
           q == SubSeq(s, i + 1, Len(s))
<1>1. Len(s) \in Nat /\ \A j \in 1 .. Len(s) : s[j] \in S
  BY LenProperties, ElementOfSeq
<1>2. /\ p \in Seq(S) /\ Len(p) = i - 1
      /\ \A j \in 1 .. (i - 1) : p[j] = s[j]
  <2>1. 1 \in Int /\ i - 1 \in Int /\ \A j \in 1 .. (i - 1) : s[j] \in S
    BY <1>1
  <2>2. /\ p \in Seq(S) /\ Len(p) = IF 1 <= i - 1 THEN i - 1 - 1 + 1 ELSE 0
        /\ \A j \in 1 .. i - 1 - 1 + 1 : p[j] = s[1 + j - 1]
    BY <2>1, SubSeqProperties
  <2> HIDE DEF p
  <2> QED
    BY <1>1, <2>2
<1>3. /\ q \in Seq(S) /\ Len(q) = Len(s) - i
      /\ \A j \in 1 .. (Len(s) - i) : q[j] = s[i + j]
  <2>1. i + 1 \in Int /\ Len(s) \in Int /\ \A j \in (i + 1) .. Len(s) : s[j] \in S
    BY <1>1
  <2>2. /\ q \in Seq(S) /\ Len(q) = IF i + 1 <= Len(s) THEN Len(s) - (i + 1) + 1 ELSE 0
        /\ \A j \in 1 .. Len(s) - (i + 1) + 1 : q[j] = s[i + 1 + j - 1]
    BY <2>1, SubSeqProperties
  <2> HIDE DEF q
  <2> QED
    BY <1>1, <2>2
<1>4. /\ p \o q \in Seq(S) /\ Len(p \o q) = Len(p) + Len(q)
      /\ \A j \in 1 .. Len(p) + Len(q) :
           (p \o q)[j] = IF j <= Len(p) THEN p[j] ELSE q[j - Len(p)]
  BY <1>2, <1>3, ConcatProperties, Zenon
<1>5. remove_pending(s, i) = p \o q
  BY DEF remove_pending
<1> HIDE DEF p, q
<1>6. Len(p \o q) = Len(s) - 1
  BY <1>1, <1>2, <1>3, <1>4
<1>7. ASSUME NEW j \in 1 .. (Len(s) - 1)
      PROVE  (p \o q)[j] = IF j < i THEN s[j] ELSE s[j + 1]
  <2>1. (p \o q)[j] = IF j <= i - 1 THEN p[j] ELSE q[j - (i - 1)]
    BY <1>1, <1>2, <1>3, <1>4
  <2>2. CASE j < i
    BY <1>1, <1>2, <2>1, <2>2
  <2>3. CASE ~(j < i)
    <3>1. j - (i - 1) \in 1 .. (Len(s) - i) /\ i + (j - (i - 1)) = j + 1
      BY <1>1, <2>3
    <3>2. q[j - (i - 1)] = s[j + 1]
      BY <1>3, <3>1
    <3> QED
      BY <1>1, <2>1, <2>3, <3>2
  <2> QED
    BY <2>2, <2>3, Zenon
<1> QED
  BY <1>4, <1>5, <1>6, <1>7

\* Without takes out the one place where x is.
LEMMA WithoutFacts ==
  ASSUME NEW S, NEW s \in Seq(S), NEW i \in 1 .. Len(s),
         \A j, k \in DOMAIN s : s[j] = s[k] => j = k
  PROVE  Without(s, s[i]) = remove_pending(s, i)
<1>1. DOMAIN s = 1 .. Len(s)
  BY LenProperties
<1>2. (CHOOSE j \in DOMAIN s : s[j] = s[i]) = i
  BY <1>1
<1> QED
  BY <1>2 DEF Without

\* What is left of a sequence are its other elements, in the same order.
LEMMA RemoveElements ==
  ASSUME NEW S, NEW s \in Seq(S), NEW i \in 1 .. Len(s)
  PROVE  LET r == remove_pending(s, i) IN
           /\ DOMAIN r = 1 .. (Len(s) - 1)
           /\ \A j \in DOMAIN r : \E k \in DOMAIN s : k # i /\ r[j] = s[k]
           /\ \A k \in DOMAIN s : k # i => \E j \in DOMAIN r : r[j] = s[k]
<1> DEFINE r == remove_pending(s, i)
<1>1. Len(s) \in Nat /\ DOMAIN s = 1 .. Len(s)
  BY LenProperties
<1>2. /\ r \in Seq(S) /\ Len(r) = Len(s) - 1
      /\ \A j \in 1 .. (Len(s) - 1) : r[j] = IF j < i THEN s[j] ELSE s[j + 1]
  BY RemoveFacts, Zenon
<1>3. DOMAIN r = 1 .. (Len(s) - 1)
  BY <1>2, LenProperties
<1> HIDE DEF r
<1>4. ASSUME NEW j \in DOMAIN r PROVE \E k \in DOMAIN s : k # i /\ r[j] = s[k]
  <2>1. CASE j < i
    <3>1. j \in DOMAIN s /\ j # i /\ r[j] = s[j]
      BY <1>1, <1>2, <1>3, <2>1
    <3> QED
      BY <3>1
  <2>2. CASE ~(j < i)
    <3>1. j + 1 \in DOMAIN s /\ j + 1 # i /\ r[j] = s[j + 1]
      BY <1>1, <1>2, <1>3, <2>2
    <3> QED
      BY <3>1
  <2> QED
    BY <2>1, <2>2
<1>5. ASSUME NEW k \in DOMAIN s, k # i PROVE \E j \in DOMAIN r : r[j] = s[k]
  <2>1. CASE k < i
    <3>1. k \in DOMAIN r /\ r[k] = s[k]
      BY <1>1, <1>2, <1>3, <2>1
    <3> QED
      BY <3>1
  <2>2. CASE ~(k < i)
    <3>1. k - 1 \in 1 .. (Len(s) - 1) /\ ~(k - 1 < i) /\ k - 1 + 1 = k
      BY <1>1, <1>5, <2>2
    <3>2. k - 1 \in DOMAIN r /\ r[k - 1] = s[k]
      BY <1>2, <1>3, <3>1
    <3> QED
      BY <3>2
  <2> QED
    BY <2>1, <2>2
<1> QED
  BY <1>3, <1>4, <1>5 DEF r

\* What the cells of a sequence hold, in its order.
LEMMA ImageSeq ==
  ASSUME NEW S, NEW s \in Seq(S), NEW dt, NEW D, \A i \in DOMAIN s : dt[s[i]] \in D
  PROVE  LET r == [i \in DOMAIN s |-> dt[s[i]]] IN
           /\ r \in Seq(D) /\ Len(r) = Len(s) /\ DOMAIN r = 1 .. Len(s)
           /\ \A i \in 1 .. Len(s) : r[i] = dt[s[i]]
<1> DEFINE r == [i \in DOMAIN s |-> dt[s[i]]]
<1>1. DOMAIN s = 1 .. Len(s) /\ Len(s) \in Nat
  BY LenProperties
<1>2. r \in [1 .. Len(s) -> D] /\ \A i \in 1 .. Len(s) : r[i] = dt[s[i]]
  BY <1>1
<1> HIDE DEF r
<1>3. r \in Seq(D)
  BY <1>1, <1>2, SeqDef
<1>4. DOMAIN r = 1 .. Len(s) /\ DOMAIN r = 1 .. Len(r) /\ Len(r) \in Nat
  BY <1>2, <1>3, LenProperties
<1>5. Len(r) = Len(s)
  BY <1>1, <1>4
<1> QED
  BY <1>2, <1>3, <1>4, <1>5 DEF r

-----------------------------------------------------------------------------
(* One list. *)

\* What Linked says, of given pointers.
Chain(order, head, nx, pv, u) ==
  /\ head = IF order = <<>> THEN NULL ELSE order[1]
  /\ \A i, j \in DOMAIN order : order[i] = order[j] => i = j
  /\ \A i \in DOMAIN order :
       /\ order[i] \in 1 .. u
       /\ nx[order[i]] = IF i < Len(order) THEN order[i + 1] ELSE NULL
       /\ i > 1 => pv[order[i]] = order[i - 1]

\* Pointers, NULL or to a cell.
Pointers == [Addr -> 0 .. MaxAlloc]

\* InsertCell in front of a list.
LEMMA ChainInsert ==
  ASSUME NEW o \in Seq(Addr), NEW h, NEW nx \in Pointers, NEW pv \in Pointers,
         NEW u \in Nat, u < MaxAlloc, Chain(o, h, nx, pv, u)
  PROVE  Chain(<<u + 1>> \o o, u + 1, [nx EXCEPT ![u + 1] = h],
               IF h # NULL THEN [pv EXCEPT ![h] = u + 1] ELSE pv, u + 1)
<1> DEFINE x  == u + 1
           w  == <<x>> \o o
           n2 == [nx EXCEPT ![x] = h]
           p2 == IF h # NULL THEN [pv EXCEPT ![h] = x] ELSE pv
<1>1. x \in Addr /\ MaxAlloc \in Nat
  BY AllocAssumption DEF Addr
<1>2. /\ Len(o) \in Nat /\ DOMAIN o = 1 .. Len(o) /\ o \in [1 .. Len(o) -> Addr]
      /\ (o = <<>> <=> Len(o) = 0)
  BY LenProperties, EmptySeq
<1>3. /\ w \in Seq(Addr) /\ Len(w) = Len(o) + 1 /\ w[1] = x
      /\ \A i \in 2 .. (Len(o) + 1) : w[i] = o[i - 1]
  BY <1>1, FrontFacts
<1>4. DOMAIN w = 1 .. (Len(o) + 1) /\ w # <<>>
  BY <1>2, <1>3, LenProperties, EmptySeq
<1>5. \A i \in 1 .. Len(o) : o[i] \in 1 .. u /\ o[i] # x /\ o[i] # NULL
  BY <1>2 DEF Chain, NULL
<1>6. /\ n2[x] = h /\ \A y \in Addr : y # x => n2[y] = nx[y]
      /\ \A y \in Addr : p2[y] = IF h # NULL /\ y = h THEN x ELSE pv[y]
  BY <1>1 DEF Pointers, Chain
<1> HIDE DEF w, n2, p2
<1>7. \A i, j \in DOMAIN w : w[i] = w[j] => i = j
  <2> SUFFICES ASSUME NEW i \in DOMAIN w, NEW j \in DOMAIN w, w[i] = w[j] PROVE i = j
    OBVIOUS
  <2>1. CASE i = 1 \/ j = 1
    BY <1>2, <1>3, <1>4, <1>5, <2>1
  <2>2. CASE i # 1 /\ j # 1
    <3>1. i - 1 \in DOMAIN o /\ j - 1 \in DOMAIN o /\ o[i - 1] = o[j - 1]
      BY <1>2, <1>3, <1>4, <2>2
    <3>2. i - 1 = j - 1
      BY <3>1 DEF Chain
    <3> QED
      BY <1>2, <1>4, <3>2
  <2> QED
    BY <2>1, <2>2
<1>8. ASSUME NEW i \in DOMAIN w
      PROVE  /\ w[i] \in 1 .. (u + 1)
             /\ n2[w[i]] = IF i < Len(w) THEN w[i + 1] ELSE NULL
             /\ i > 1 => p2[w[i]] = w[i - 1]
  <2>1. CASE i = 1
    <3>1. n2[w[i]] = h /\ w[i] = x
      BY <1>3, <1>6, <2>1
    <3>2. h = IF Len(o) = 0 THEN NULL ELSE o[1]
      BY <1>2 DEF Chain
    <3>3. Len(o) # 0 => w[2] = o[1]
      BY <1>2, <1>3
    <3> QED
      BY <1>2, <1>3, <2>1, <3>1, <3>2, <3>3
  <2>2. CASE i # 1
    <3>1. i - 1 \in 1 .. Len(o) /\ w[i] = o[i - 1]
      BY <1>2, <1>3, <1>4, <2>2
    <3>2. o[i - 1] \in Addr /\ o[i - 1] \in 1 .. u /\ o[i - 1] # x
      BY <1>2, <1>5, <3>1
    <3>3. nx[o[i - 1]] = IF i - 1 < Len(o) THEN o[i - 1 + 1] ELSE NULL
      BY <1>2, <3>1 DEF Chain
    <3>4. n2[w[i]] = IF i < Len(w) THEN w[i + 1] ELSE NULL
      <4>1. i < Len(w) => w[i + 1] = o[i]
        BY <1>2, <1>3, <3>1
      <4> QED
        BY <1>2, <1>3, <1>6, <3>1, <3>2, <3>3, <4>1
    <3>5. h = o[1] /\ h # NULL
      BY <1>2, <1>5, <3>1 DEF Chain
    <3>6. p2[w[i]] = w[i - 1]
      <4>1. CASE i = 2
        BY <1>3, <1>6, <3>1, <3>2, <3>5, <4>1
      <4>2. CASE i # 2
        <5>1. i - 1 > 1 /\ w[i - 1] = o[i - 1 - 1]
          <6>1. i - 1 > 1 /\ i - 1 \in 2 .. (Len(o) + 1)
            BY <1>2, <2>2, <3>1, <4>2
          <6> QED
            BY <1>3, <6>1
        <5>2. pv[o[i - 1]] = o[i - 1 - 1]
          BY <1>2, <3>1, <5>1 DEF Chain
        <5>3. o[i - 1] # o[1]
          <6>1. i - 1 \in DOMAIN o /\ 1 \in DOMAIN o /\ i - 1 # 1
            BY <1>2, <3>1, <5>1
          <6>2. \A j, k \in DOMAIN o : o[j] = o[k] => j = k
            BY DEF Chain
          <6> QED
            BY <6>1, <6>2, Zenon
        <5> QED
          BY <1>6, <3>1, <3>2, <3>5, <5>1, <5>2, <5>3
      <4> QED
        BY <4>1, <4>2
    <3> QED
      BY <3>1, <3>2, <3>4, <3>6
  <2> QED
    BY <2>1, <2>2
<1>9. x = IF w = <<>> THEN NULL ELSE w[1]
  BY <1>3, <1>4
<1>10. Chain(w, x, n2, p2, u + 1)
  BY <1>7, <1>8, <1>9 DEF Chain
<1> QED
  BY <1>10 DEF w, n2, p2

\* A list whose own pointers do not change.
LEMMA ChainKept ==
  ASSUME NEW o, NEW h, NEW nx, NEW pv, NEW u \in Nat, NEW n2, NEW p2, NEW v \in Nat,
         Chain(o, h, nx, pv, u), u <= v,
         \A i \in DOMAIN o : n2[o[i]] = nx[o[i]] /\ (i > 1 => p2[o[i]] = pv[o[i]])
  PROVE  Chain(o, h, n2, p2, v)
<1>1. \A i \in DOMAIN o : o[i] \in 1 .. v
  BY DEF Chain
<1>2. \A i \in DOMAIN o : n2[o[i]] = IF i < Len(o) THEN o[i + 1] ELSE NULL
  BY DEF Chain
<1>3. \A i \in DOMAIN o : i > 1 => p2[o[i]] = o[i - 1]
  BY DEF Chain
<1> QED
  BY <1>1, <1>2, <1>3 DEF Chain

\* The pointers n2 and p2 lead past the i-th cell of a list, and are nx and pv
\* elsewhere on it.  The pointer back of a new head may be anything.
LinkedPast(o, i, nx, pv, n2, p2) ==
  \A k \in DOMAIN o : k # i =>
    /\ n2[o[k]] = IF k = i - 1 THEN nx[o[i]] ELSE nx[o[k]]
    /\ k > 1 /\ k # i + 1 => p2[o[k]] = pv[o[k]]
    /\ k = i + 1 /\ i > 1 => p2[o[k]] = pv[o[i]]

\* A list whose i-th cell is linked past.
LEMMA ChainUnlink ==
  ASSUME NEW o \in Seq(Addr), NEW h, NEW nx, NEW pv, NEW u \in Nat, NEW n2, NEW p2,
         Chain(o, h, nx, pv, u), NEW i \in DOMAIN o,
         LinkedPast(o, i, nx, pv, n2, p2)
  PROVE  Chain(remove_pending(o, i), IF i = 1 THEN nx[o[i]] ELSE h, n2, p2, u)
<1> DEFINE w == remove_pending(o, i)
           g == IF i = 1 THEN nx[o[i]] ELSE h
<1>1. /\ Len(o) \in Nat /\ DOMAIN o = 1 .. Len(o)
      /\ (o = <<>> <=> Len(o) = 0)
  BY LenProperties, EmptySeq
<1>2. /\ w \in Seq(Addr) /\ Len(w) = Len(o) - 1
      /\ \A j \in 1 .. (Len(o) - 1) : w[j] = IF j < i THEN o[j] ELSE o[j + 1]
  <2>1. i \in 1 .. Len(o)
    BY <1>1
  <2> HIDE DEF w
  <2>2. w = remove_pending(o, i)
    BY DEF w
  <2> QED
    BY <2>1, <2>2, RemoveFacts, ZenonT(30)
<1>3. DOMAIN w = 1 .. (Len(o) - 1) /\ (w = <<>> <=> Len(o) = 1)
  BY <1>1, <1>2, LenProperties, EmptySeq
<1>4. /\ h = IF o = <<>> THEN NULL ELSE o[1]
      /\ \A j, k \in DOMAIN o : o[j] = o[k] => j = k
      /\ \A k \in DOMAIN o :
           /\ o[k] \in 1 .. u
           /\ nx[o[k]] = IF k < Len(o) THEN o[k + 1] ELSE NULL
           /\ k > 1 => pv[o[k]] = o[k - 1]
  BY Zenon DEF Chain
<1>5. \A k \in DOMAIN o : k # i =>
        /\ n2[o[k]] = IF k = i - 1 THEN nx[o[i]] ELSE nx[o[k]]
        /\ k > 1 /\ k # i + 1 => p2[o[k]] = pv[o[k]]
        /\ k = i + 1 /\ i > 1 => p2[o[k]] = pv[o[i]]
  BY DEF LinkedPast
<1> HIDE DEF w
<1>6. g = IF w = <<>> THEN NULL ELSE w[1]
  <2>1. CASE i = 1
    <3>1. nx[o[1]] = IF 1 < Len(o) THEN o[1 + 1] ELSE NULL
      BY <1>4, <2>1
    <3>2. 1 < Len(o) => w[1] = o[1 + 1] /\ w # <<>>
      BY <1>1, <1>2, <1>3, <2>1
    <3>3. ~(1 < Len(o)) => w = <<>>
      BY <1>1, <1>3, <2>1
    <3> QED
      BY <2>1, <3>1, <3>2, <3>3
  <2>2. CASE i # 1
    BY <1>1, <1>2, <1>3, <1>4, <2>2
  <2> QED
    BY <2>1, <2>2
<1>7. \A j, k \in DOMAIN w : w[j] = w[k] => j = k
  <2> SUFFICES ASSUME NEW j \in DOMAIN w, NEW k \in DOMAIN w, w[j] = w[k] PROVE j = k
    OBVIOUS
  <2> DEFINE at(m) == IF m < i THEN m ELSE m + 1
  <2>1. w[j] = o[at(j)] /\ w[k] = o[at(k)] /\ at(j) \in DOMAIN o /\ at(k) \in DOMAIN o
    BY <1>1, <1>2, <1>3
  <2>2. at(j) = at(k)
    <3> HIDE DEF at
    <3> QED
      BY <1>4, <2>1, Zenon
  <2> QED
    BY <1>1, <1>3, <2>2
<1>8. ASSUME NEW j \in DOMAIN w
      PROVE  /\ w[j] \in 1 .. u
             /\ n2[w[j]] = IF j < Len(w) THEN w[j + 1] ELSE NULL
             /\ j > 1 => p2[w[j]] = w[j - 1]
  <2>1. CASE j < i - 1
    <3>1. w[j] = o[j] /\ w[j + 1] = o[j + 1] /\ j \in DOMAIN o /\ j # i /\ j < Len(w)
      <4>1. /\ j \in 1 .. (Len(o) - 1) /\ j < i
            /\ j + 1 \in 1 .. (Len(o) - 1) /\ j + 1 < i
        BY <1>1, <1>3, <2>1
      <4> QED
        BY <1>1, <1>2, <4>1
    <3>2. j > 1 => w[j - 1] = o[j - 1]
      BY <1>1, <1>2, <1>3, <2>1
    <3>3. j + 1 # i /\ j # i + 1 /\ j # i - 1 /\ j < Len(o)
      BY <1>1, <1>3, <2>1
    <3> QED
      BY <1>4, <1>5, <3>1, <3>2, <3>3
  <2>2. CASE j = i - 1
    <3>1. w[j] = o[j] /\ j \in DOMAIN o /\ j # i /\ j # i + 1
      BY <1>1, <1>2, <1>3, <2>2
    <3>2. n2[o[j]] = IF i < Len(o) THEN o[i + 1] ELSE NULL
      BY <1>4, <1>5, <2>2, <3>1, ZenonT(30)
    <3>3. i < Len(o) <=> j < Len(w)
      BY <1>1, <1>2, <1>3, <2>2
    <3>4. j < Len(w) => w[j + 1] = o[i + 1]
      BY <1>1, <1>2, <1>3, <2>2
    <3>5. j > 1 => w[j - 1] = o[j - 1]
      BY <1>1, <1>2, <1>3, <2>2
    <3> QED
      BY <1>4, <1>5, <3>1, <3>2, <3>3, <3>4, <3>5
  <2>3. CASE j >= i
    <3>1. w[j] = o[j + 1] /\ j + 1 \in DOMAIN o /\ j + 1 # i /\ j + 1 # i - 1
      BY <1>1, <1>2, <1>3, <2>3
    <3>2. n2[o[j + 1]] = IF j + 1 < Len(o) THEN o[j + 1 + 1] ELSE NULL
      BY <1>4, <1>5, <3>1
    <3>3. j < Len(w) => w[j + 1] = o[j + 1 + 1]
      BY <1>1, <1>2, <1>3, <2>3
    <3>4. j < Len(w) <=> j + 1 < Len(o)
      BY <1>1, <1>2, <1>3
    <3>5. ASSUME j > 1 PROVE p2[o[j + 1]] = w[j - 1]
      <4>1. CASE j = i
        <5>1. p2[o[j + 1]] = pv[o[i]] /\ pv[o[i]] = o[i - 1]
          BY <1>1, <1>3, <1>4, <1>5, <3>1, <3>5, <4>1, ZenonT(30)
        <5>2. w[j - 1] = o[i - 1]
          BY <1>1, <1>2, <1>3, <3>5, <4>1
        <5> QED
          BY <5>1, <5>2
      <4>2. CASE j # i
        <5>1. p2[o[j + 1]] = pv[o[j + 1]] /\ pv[o[j + 1]] = o[j]
          <6>1. PICK k \in DOMAIN o : k = j + 1 /\ k > 1 /\ k # i /\ k # i + 1 /\ k - 1 = j
            BY <1>1, <1>3, <3>1, <4>2
          <6>2. pv[o[k]] = o[k - 1]
            BY <1>4, <6>1, ZenonT(30)
          <6>3. p2[o[k]] = pv[o[k]]
            BY <1>5, <6>1
          <6> QED
            BY <6>1, <6>2, <6>3
        <5>2. w[j - 1] = o[j]
          <6>1. j - 1 \in 1 .. (Len(o) - 1) /\ ~(j - 1 < i) /\ j - 1 + 1 = j
            BY <1>1, <1>3, <2>3, <3>5, <4>2
          <6> QED
            BY <1>2, <6>1
        <5> QED
          BY <5>1, <5>2
      <4> QED
        BY <4>1, <4>2
    <3> QED
      BY <1>4, <3>1, <3>2, <3>3, <3>4, <3>5
  <2> QED
    BY <1>1, <1>3, <2>1, <2>2, <2>3
<1> QED
  BY <1>6, <1>7, <1>8 DEF Chain, w

\* What LinkPast says, of given pointers.
PastCell(x, nx, pv, n2, p2) ==
  /\ n2 = IF pv[x] # NULL THEN [nx EXCEPT ![pv[x]] = nx[x]] ELSE nx
  /\ p2 = IF nx[x] # NULL THEN [pv EXCEPT ![nx[x]] = pv[x]] ELSE pv

\* The pointers lead past the i-th cell, touch no cell that is not on the list,
\* and a new head has no pointer back.
CleanPast(o, i, nx, pv, n2, p2) ==
  /\ n2 \in Pointers /\ p2 \in Pointers
  /\ LinkedPast(o, i, nx, pv, n2, p2)
  /\ \A y \in Addr : (\A k \in DOMAIN o : o[k] # y) => n2[y] = nx[y] /\ p2[y] = pv[y]
  /\ i = 1 /\ Len(o) > 1 => p2[o[2]] = NULL

\* LinkPast does that, where the head has no pointer back.
LEMMA LinkPastFacts ==
  ASSUME NEW o \in Seq(Addr), NEW h, NEW nx \in Pointers, NEW pv \in Pointers,
         NEW u \in Nat, Chain(o, h, nx, pv, u), NEW i \in DOMAIN o,
         i = 1 => pv[o[i]] = NULL, NEW n2, NEW p2,
         PastCell(o[i], nx, pv, n2, p2)
  PROVE  CleanPast(o, i, nx, pv, n2, p2)
<1>1. Len(o) \in Nat /\ DOMAIN o = 1 .. Len(o) /\ \A k \in DOMAIN o : o[k] \in Addr
  BY LenProperties, ElementOfSeq
<1>2. \A j, k \in DOMAIN o : o[j] = o[k] => j = k
  BY DEF Chain
<1>3. NULL \notin Addr /\ NULL \in 0 .. MaxAlloc /\ \A y \in Addr : y \in 0 .. MaxAlloc
  BY AllocAssumption DEF NULL, Addr
<1>4. /\ nx[o[i]] = IF i < Len(o) THEN o[i + 1] ELSE NULL
      /\ i > 1 => pv[o[i]] = o[i - 1]
  BY DEF Chain
<1>5. pv[o[i]] = IF i = 1 THEN NULL ELSE o[i - 1]
  BY <1>1, <1>4
<1>6. n2 \in Pointers /\ p2 \in Pointers
  BY <1>1, Zenon DEF Pointers, PastCell
<1>7. \A y \in Addr : n2[y] = IF i > 1 /\ y = o[i - 1] THEN nx[o[i]] ELSE nx[y]
  <2>1. CASE i = 1
    BY <1>5, <2>1 DEF PastCell
  <2>2. CASE i # 1
    <3>1. i > 1 /\ i - 1 \in DOMAIN o /\ o[i - 1] \in Addr
      BY <1>1, <2>2
    <3>2. n2 = [nx EXCEPT ![o[i - 1]] = nx[o[i]]]
      BY <1>3, <1>5, <2>2, <3>1 DEF PastCell
    <3> QED
      BY <3>1, <3>2 DEF Pointers
  <2> QED
    BY <2>1, <2>2
<1>8. \A y \in Addr : p2[y] = IF i < Len(o) /\ y = o[i + 1] THEN pv[o[i]] ELSE pv[y]
  <2>1. CASE ~(i < Len(o))
    BY <1>4, <2>1 DEF PastCell
  <2>2. CASE i < Len(o)
    <3>1. i + 1 \in DOMAIN o /\ o[i + 1] \in Addr
      BY <1>1, <2>2
    <3>2. p2 = [pv EXCEPT ![o[i + 1]] = pv[o[i]]]
      BY <1>3, <1>4, <2>2, <3>1 DEF PastCell
    <3> QED
      BY <2>2, <3>1, <3>2 DEF Pointers
  <2> QED
    BY <2>1, <2>2
<1>9. LinkedPast(o, i, nx, pv, n2, p2)
  <2> SUFFICES ASSUME NEW k \in DOMAIN o, k # i
               PROVE  /\ n2[o[k]] = IF k = i - 1 THEN nx[o[i]] ELSE nx[o[k]]
                      /\ k # i + 1 => p2[o[k]] = pv[o[k]]
                      /\ k = i + 1 => p2[o[k]] = pv[o[i]]
    BY DEF LinkedPast
  <2>1. (i > 1 /\ o[k] = o[i - 1]) <=> k = i - 1
    <3>1. i > 1 => i - 1 \in DOMAIN o
      BY <1>1
    <3> QED
      BY <1>1, <1>2, <3>1
  <2>2. (i < Len(o) /\ o[k] = o[i + 1]) <=> k = i + 1
    <3>1. i < Len(o) => i + 1 \in DOMAIN o
      BY <1>1
    <3> QED
      BY <1>1, <1>2, <3>1
  <2> QED
    BY <1>1, <1>7, <1>8, <2>1, <2>2
<1>10. ASSUME NEW y \in Addr, \A k \in DOMAIN o : o[k] # y
       PROVE  n2[y] = nx[y] /\ p2[y] = pv[y]
  <2>1. (i > 1 => i - 1 \in DOMAIN o) /\ (i < Len(o) => i + 1 \in DOMAIN o)
    BY <1>1
  <2> QED
    BY <1>7, <1>8, <1>10, <2>1
<1>11. ASSUME i = 1, Len(o) > 1 PROVE p2[o[2]] = NULL
  <2>1. o[2] \in Addr /\ i + 1 = 2 /\ i < Len(o)
    BY <1>1, <1>11
  <2> QED
    BY <1>5, <1>8, <1>11, <2>1
<1> QED
  BY <1>6, <1>9, <1>10, <1>11 DEF CleanPast

-----------------------------------------------------------------------------
(* The inductive invariant. *)

HeapType ==
  /\ used \in 0 .. MaxAlloc
  /\ data = [x \in Addr |-> data[x]]
  /\ next \in Pointers /\ prev \in Pointers
  /\ rorder \in Seq(Addr) /\ porder \in Seq(Addr)
  /\ \A x \in Addr : x > used => prev[x] = NULL

\* e is a record with the fields of r_entry_t, whatever is in them.
IsEntry(e) ==
  e = [destip |-> e.destip, next_hop |-> e.next_hop, if_no |-> e.if_no,
       no_hops |-> e.no_hops, broadcast_id |-> e.broadcast_id, age |-> e.age]

\* No two routing entries are for one destination.
RouteData ==
  /\ \A i \in DOMAIN rorder : IsEntry(data[rorder[i]])
  /\ \A i, j \in DOMAIN rorder :
       data[rorder[i]].destip = data[rorder[j]].destip => i = j

\* A search is at a cell of its list, or at its end, and what lies behind it is
\* not what it looks for.
RouteSearch ==
  \/ curr = NULL /\ \A i \in DOMAIN rorder : data[rorder[i]].destip # key
  \/ \E i \in DOMAIN rorder :
       /\ curr = rorder[i]
       /\ \A j \in DOMAIN rorder : j < i => data[rorder[j]].destip # key

PendingSearch ==
  \/ curr = NULL /\ \A i \in DOMAIN porder : data[porder[i]].dest_ip # key
  \/ \E i \in DOMAIN porder :
       /\ curr = porder[i]
       /\ \A j \in DOMAIN porder : j < i => data[porder[j]].dest_ip # key

Calls ==
  /\ pc \in {"idle", "peek", "learn", "release"}
  /\ pc = "idle" => key = NULL /\ flag = 0 /\ news = Nothing
  /\ pc = "learn" => key = news.src_ip /\ flag = 0 /\ used < MaxAlloc
  /\ pc \in {"peek", "learn"} => RouteSearch
  /\ pc = "release" => PendingSearch

LInv == HeapType /\ ListsLinked /\ RouteData /\ Calls

\* What the invariant says of the two lists, in terms of Chain.
LEMMA ListFacts ==
  ASSUME LInv
  PROVE  /\ Chain(rorder, rhead, next, prev, used)
         /\ Chain(porder, phead, next, prev, used)
         /\ rorder # <<>> => prev[rhead] = NULL
         /\ \A i \in DOMAIN rorder, j \in DOMAIN porder : rorder[i] # porder[j]
         /\ used \in Nat /\ MaxAlloc \in Nat
         /\ Len(rorder) \in Nat /\ DOMAIN rorder = 1 .. Len(rorder)
         /\ Len(porder) \in Nat /\ DOMAIN porder = 1 .. Len(porder)
         /\ \A i \in DOMAIN rorder : rorder[i] \in Addr /\ rorder[i] # NULL
         /\ \A i \in DOMAIN porder : porder[i] \in Addr /\ porder[i] # NULL
         /\ (rorder = <<>> <=> Len(rorder) = 0) /\ (porder = <<>> <=> Len(porder) = 0)
<1>1. /\ Chain(rorder, rhead, next, prev, used) /\ Chain(porder, phead, next, prev, used)
      /\ rorder # <<>> => prev[rhead] = NULL
      /\ \A i \in DOMAIN rorder, j \in DOMAIN porder : rorder[i] # porder[j]
  BY DEF LInv, ListsLinked, Linked, Chain
<1>2. rorder \in Seq(Addr) /\ porder \in Seq(Addr) /\ used \in Nat /\ MaxAlloc \in Nat
  BY AllocAssumption DEF LInv, HeapType
<1>3. /\ Len(rorder) \in Nat /\ DOMAIN rorder = 1 .. Len(rorder)
      /\ Len(porder) \in Nat /\ DOMAIN porder = 1 .. Len(porder)
      /\ (rorder = <<>> <=> Len(rorder) = 0) /\ (porder = <<>> <=> Len(porder) = 0)
  BY <1>2, LenProperties, EmptySeq
<1>4. /\ \A i \in DOMAIN rorder : rorder[i] \in Addr
      /\ \A i \in DOMAIN porder : porder[i] \in Addr
  BY <1>2, <1>3, ElementOfSeq
<1>5. NULL \notin Addr
  BY DEF NULL, Addr
<1> QED
  BY <1>1, <1>2, <1>3, <1>4, <1>5

\* The parts of the invariant, put together.
LEMMA MakeLists ==
  ASSUME Chain(rorder, rhead, next, prev, used)', Chain(porder, phead, next, prev, used)',
         (rorder # <<>> => prev[rhead] = NULL)',
         (\A i \in DOMAIN rorder, j \in DOMAIN porder : rorder[i] # porder[j])'
  PROVE  ListsLinked'
BY DEF ListsLinked, Linked, Chain

\* The heap does not change.
LEMMA SameHeap ==
  ASSUME LInv, UNCHANGED heap
  PROVE  HeapType' /\ ListsLinked' /\ RouteData'
<1>1. HeapType'
  BY DEF LInv, heap, HeapType
<1>2. ListsLinked'
  BY DEF LInv, heap, ListsLinked, Linked
<1>3. RouteData'
  BY DEF LInv, heap, RouteData, IsEntry
<1> QED
  BY <1>1, <1>2, <1>3

\* A search starts at the head of its list.
LEMMA StartStep ==
  ASSUME LInv, UNCHANGED heap,
         \/ pc' \in {"peek", "learn"} /\ curr' = rhead
         \/ pc' = "release" /\ curr' = phead,
         pc' = "learn" => key' = news'.src_ip /\ flag' = 0 /\ used < MaxAlloc
  PROVE  LInv'
<1>1. HeapType' /\ ListsLinked' /\ RouteData'
  BY SameHeap
<1>2. /\ rhead = IF rorder = <<>> THEN NULL ELSE rorder[1]
      /\ phead = IF porder = <<>> THEN NULL ELSE porder[1]
  BY ListFacts DEF Chain
<1>3. UNCHANGED <<used, data, rorder, porder>>
  BY DEF heap
<1>4. ASSUME curr' = rhead PROVE RouteSearch'
  <2>1. CASE rorder = <<>>
    BY <1>2, <1>3, <1>4, <2>1, ListFacts DEF RouteSearch
  <2>2. CASE rorder # <<>>
    <3>1. 1 \in DOMAIN rorder /\ \A j \in DOMAIN rorder : ~(j < 1)
      BY <2>2, ListFacts
    <3> QED
      BY <1>2, <1>3, <1>4, <2>2, <3>1 DEF RouteSearch
  <2> QED
    BY <2>1, <2>2
<1>5. ASSUME curr' = phead PROVE PendingSearch'
  <2>1. CASE porder = <<>>
    BY <1>2, <1>3, <1>5, <2>1, ListFacts DEF PendingSearch
  <2>2. CASE porder # <<>>
    <3>1. 1 \in DOMAIN porder /\ \A j \in DOMAIN porder : ~(j < 1)
      BY <2>2, ListFacts
    <3> QED
      BY <1>2, <1>3, <1>5, <2>2, <3>1 DEF PendingSearch
  <2> QED
    BY <2>1, <2>2
<1>6. Calls'
  BY <1>3, <1>4, <1>5 DEF Calls
<1> QED
  BY <1>1, <1>6 DEF LInv

\* The search goes on with the next cell.
LEMMA AdvanceStep ==
  ASSUME LInv, RouteNext \/ PendingNext
  PROVE  LInv'
<1>1. UNCHANGED <<heap, call, answer>> /\ curr' = next[curr] /\ curr # NULL
  BY DEF RouteNext, PendingNext, Advance
<1>2. HeapType' /\ ListsLinked' /\ RouteData'
  BY <1>1, SameHeap
<1>3. UNCHANGED <<used, data, rorder, porder, pc, key, flag, news>>
  BY <1>1 DEF heap, call
<1>4. ASSUME RouteNext PROVE RouteSearch'
  <2>1. PICK i \in DOMAIN rorder :
          /\ curr = rorder[i]
          /\ \A j \in DOMAIN rorder : j < i => data[rorder[j]].destip # key
    BY <1>1, <1>4 DEF RouteNext, InRoutes, LInv, Calls, RouteSearch
  <2>2. data[rorder[i]].destip # key
    BY <1>4, <2>1 DEF RouteNext, RouteHit
  <2>3. next[rorder[i]] = IF i < Len(rorder) THEN rorder[i + 1] ELSE NULL
    BY ListFacts DEF Chain
  <2>4. \A j \in DOMAIN rorder : j < i + 1 => data[rorder[j]].destip # key
    BY <2>1, <2>2, ListFacts
  <2>5. CASE i < Len(rorder)
    <3>1. i + 1 \in DOMAIN rorder /\ curr' = rorder[i + 1]
      BY <1>1, <2>1, <2>3, <2>5, ListFacts
    <3> QED
      BY <1>3, <2>4, <3>1 DEF RouteSearch
  <2>6. CASE ~(i < Len(rorder))
    <3>1. \A j \in DOMAIN rorder : j < i + 1
      BY <2>6, ListFacts
    <3> QED
      BY <1>1, <1>3, <2>1, <2>3, <2>4, <2>6, <3>1 DEF RouteSearch
  <2> QED
    BY <2>5, <2>6
<1>5. ASSUME PendingNext PROVE PendingSearch'
  <2>1. PICK i \in DOMAIN porder :
          /\ curr = porder[i]
          /\ \A j \in DOMAIN porder : j < i => data[porder[j]].dest_ip # key
    BY <1>1, <1>5 DEF PendingNext, LInv, Calls, PendingSearch
  <2>2. data[porder[i]].dest_ip # key
    BY <1>5, <2>1, ZenonT(30) DEF PendingNext, PendingHit
  <2>3. next[porder[i]] = IF i < Len(porder) THEN porder[i + 1] ELSE NULL
    BY ListFacts DEF Chain
  <2>4. \A j \in DOMAIN porder : j < i + 1 => data[porder[j]].dest_ip # key
    BY <2>1, <2>2, ListFacts
  <2>5. CASE i < Len(porder)
    <3>1. i + 1 \in DOMAIN porder /\ curr' = porder[i + 1]
      BY <1>1, <2>1, <2>3, <2>5, ListFacts
    <3> QED
      BY <1>3, <2>4, <3>1 DEF PendingSearch
  <2>6. CASE ~(i < Len(porder))
    <3>1. \A j \in DOMAIN porder : j < i + 1
      BY <2>6, ListFacts
    <3> QED
      BY <1>1, <1>3, <2>1, <2>3, <2>4, <2>6, <3>1 DEF PendingSearch
  <2> QED
    BY <2>5, <2>6
<1>6. (pc' \in {"peek", "learn"} => RouteSearch') /\ (pc' = "release" => PendingSearch')
  BY <1>3, <1>4, <1>5 DEF RouteNext, PendingNext, InRoutes
<1>7. Calls'
  BY <1>3, <1>6 DEF LInv, Calls
<1> QED
  BY <1>2, <1>7 DEF LInv

-----------------------------------------------------------------------------
(* The steps that change a list: each keeps the invariant, and does to the *)
(* table and the queue what the operation of module Tables does.           *)

\* The table and the queue that the lists stand for.
Routes == {data[rorder[i]] : i \in DOMAIN rorder}
Queue  == [i \in DOMAIN porder |-> data[porder[i]]]

\* An entry is dropped.
LEMMA RouteDropStep ==
  ASSUME LInv, RouteDrop
  PROVE  LInv' /\ Routes' = after_r_lookup(Routes, key, flag) /\ Queue' = Queue
<1>1. PICK i \in DOMAIN rorder :
        /\ curr = rorder[i]
        /\ \A j \in DOMAIN rorder : j < i => data[rorder[j]].destip # key
  BY DEF LInv, Calls, RouteSearch, RouteDrop, InRoutes, RouteHit
<1>2. data[rorder[i]].destip = key /\ (stale(data[rorder[i]]) \/ flag = 1)
  BY <1>1 DEF RouteDrop, RouteHit
<1>3. /\ rorder \in Seq(Addr) /\ porder \in Seq(Addr)
      /\ next \in Pointers /\ prev \in Pointers /\ used \in 0 .. MaxAlloc
      /\ data = [x \in Addr |-> data[x]] /\ \A x \in Addr : x > used => prev[x] = NULL
  BY DEF LInv, HeapType
<1>4. rorder' = remove_pending(rorder, i)
  <2>1. \A j, k \in DOMAIN rorder : rorder[j] = rorder[k] => j = k
    BY ListFacts DEF Chain
  <2>2. rorder' = Without(rorder, rorder[i]) /\ i \in 1 .. Len(rorder)
    BY <1>1, ListFacts DEF RouteDrop
  <2> QED
    BY <1>3, <2>1, <2>2, WithoutFacts
<1>5. PastCell(rorder[i], next, prev, next', prev')
  BY <1>1 DEF RouteDrop, LinkPast, PastCell
<1>6. UNCHANGED <<used, data, phead, porder, pc, key, flag, news>> /\ curr' = NULL
  BY DEF RouteDrop, call
<1>7. i = 1 => prev[rorder[i]] = NULL
  BY ListFacts DEF Chain
<1>8. /\ next' \in Pointers /\ prev' \in Pointers
      /\ LinkedPast(rorder, i, next, prev, next', prev')
      /\ \A y \in Addr : (\A k \in DOMAIN rorder : rorder[k] # y) =>
           next'[y] = next[y] /\ prev'[y] = prev[y]
      /\ i = 1 /\ Len(rorder) > 1 => prev'[rorder[2]] = NULL
  <2>1. Chain(rorder, rhead, next, prev, used) /\ used \in Nat
    BY ListFacts
  <2>2. CleanPast(rorder, i, next, prev, next', prev')
    BY <1>3, <1>5, <1>7, <2>1, LinkPastFacts
  <2> QED
    BY <2>2 DEF CleanPast
<1>9. rhead' = IF i = 1 THEN next[rorder[i]] ELSE rhead
  <2>1. rhead = rorder[1] /\ 1 \in DOMAIN rorder
    BY ListFacts DEF Chain
  <2>2. rhead = curr <=> i = 1
    BY <1>1, <2>1, ListFacts DEF Chain
  <2> QED
    BY <1>1, <2>2 DEF RouteDrop
<1>10. Chain(rorder', rhead', next', prev', used')
  BY <1>3, <1>4, <1>6, <1>8, <1>9, ListFacts, ChainUnlink
<1>11. Chain(porder', phead', next', prev', used')
  <2>1. \A j \in DOMAIN porder :
          next'[porder[j]] = next[porder[j]] /\ (j > 1 => prev'[porder[j]] = prev[porder[j]])
    BY <1>8, ListFacts
  <2>2. used \in Nat /\ used <= used /\ Chain(porder, phead, next, prev, used)
    BY ListFacts
  <2> QED
    BY <1>6, <2>1, <2>2, ChainKept, ZenonT(30)
<1>12. /\ rorder' \in Seq(Addr) /\ DOMAIN rorder' = 1 .. (Len(rorder) - 1)
       /\ \A j \in DOMAIN rorder' : \E k \in DOMAIN rorder : k # i /\ rorder'[j] = rorder[k]
       /\ \A k \in DOMAIN rorder : k # i => \E j \in DOMAIN rorder' : rorder'[j] = rorder[k]
  <2>1. i \in 1 .. Len(rorder)
    BY ListFacts
  <2>2. rorder' \in Seq(Addr)
    BY <1>3, <1>4, <2>1, RemoveFacts
  <2> QED
    BY <1>3, <1>4, <2>1, <2>2, RemoveElements
<1>13. rorder' # <<>> => prev'[rhead'] = NULL
  <2>1. CASE i # 1
    <3>1. rhead' = rorder[1] /\ 1 \in DOMAIN rorder /\ prev[rorder[1]] = NULL
      BY <1>9, <2>1, ListFacts DEF Chain
    <3>2. prev'[rorder[1]] = prev[rorder[1]]
      <4>1. next[rorder[i]] # rorder[1]
        <5>1. next[rorder[i]] = IF i < Len(rorder) THEN rorder[i + 1] ELSE NULL
          BY ListFacts DEF Chain
        <5>2. i < Len(rorder) => i + 1 \in DOMAIN rorder /\ i + 1 # 1
          BY ListFacts
        <5>3. \A j, k \in DOMAIN rorder : rorder[j] = rorder[k] => j = k
          BY ListFacts DEF Chain
        <5> QED
          BY <3>1, <5>1, <5>2, <5>3, ListFacts, ZenonT(30)
      <4> QED
        BY <1>3, <1>5, <3>1, <4>1, ListFacts DEF Pointers, PastCell
    <3> QED
      BY <3>1, <3>2
  <2>2. CASE i = 1
    <3>1. next[rorder[1]] = IF 1 < Len(rorder) THEN rorder[1 + 1] ELSE NULL
      BY <2>2, ListFacts DEF Chain
    <3>2. rorder' # <<>> => 1 < Len(rorder)
      BY <1>3, <1>4, <2>2, ListFacts, RemoveFacts, EmptySeq
    <3> QED
      BY <1>8, <1>9, <2>2, <3>1, <3>2, ListFacts
  <2> QED
    BY <2>1, <2>2
<1>14. \A j \in DOMAIN rorder', k \in DOMAIN porder' : rorder'[j] # porder'[k]
  BY <1>6, <1>12, ListFacts
<1>15. ListsLinked'
  BY <1>10, <1>11, <1>13, <1>14, MakeLists
<1>16. HeapType'
  <2>1. \A x \in Addr : x > used' => prev'[x] = NULL
    <3> SUFFICES ASSUME NEW x \in Addr, x > used PROVE prev'[x] = NULL
      BY <1>6
    <3>1. \A k \in DOMAIN rorder : rorder[k] # x
      BY ListFacts DEF Chain, Addr
    <3> QED
      BY <1>3, <1>8, <3>1
  <2> QED
    BY <1>3, <1>6, <1>8, <1>12, <2>1 DEF HeapType
<1>17. \A j \in DOMAIN rorder' : \E k \in DOMAIN rorder :
         k # i /\ data'[rorder'[j]] = data[rorder[k]]
  BY <1>6, <1>12
<1>18. \A k \in DOMAIN rorder : k # i => data[rorder[k]].destip # key
  BY <1>2, ZenonT(30) DEF LInv, RouteData
<1>19. RouteData'
  <2>1. \A j \in DOMAIN rorder' : IsEntry(data'[rorder'[j]])
    BY <1>17 DEF LInv, RouteData
  <2>2. \A j, k \in DOMAIN rorder' :
          data'[rorder'[j]].destip = data'[rorder'[k]].destip => j = k
    <3> SUFFICES ASSUME NEW j \in DOMAIN rorder', NEW k \in DOMAIN rorder',
                        data'[rorder'[j]].destip = data'[rorder'[k]].destip
                 PROVE  j = k
      OBVIOUS
    <3>1. PICK m \in DOMAIN rorder : rorder'[j] = rorder[m]
      BY <1>12
    <3>2. PICK n \in DOMAIN rorder : rorder'[k] = rorder[n]
      BY <1>12
    <3>3. m = n
      BY <1>6, <3>1, <3>2 DEF LInv, RouteData
    <3> QED
      BY <1>10, <3>1, <3>2, <3>3 DEF Chain
  <2> QED
    BY <2>1, <2>2 DEF RouteData, IsEntry
<1>20. Calls'
  <2>1. RouteSearch'
    BY <1>6, <1>17, <1>18 DEF RouteSearch
  <2>2. pc \in {"peek", "learn"}
    BY DEF RouteDrop, InRoutes
  <2> QED
    BY <1>6, <2>1, <2>2 DEF LInv, Calls
<1>21. Routes' = after_r_lookup(Routes, key, flag)
  <2>1. \A e \in Routes' : e \in Routes /\ e.destip # key
    BY <1>17, <1>18 DEF Routes
  <2>2. \A e \in Routes : e.destip # key => e \in Routes'
    <3> SUFFICES ASSUME NEW k \in DOMAIN rorder, data[rorder[k]].destip # key
                 PROVE  data[rorder[k]] \in Routes'
      BY DEF Routes
    <3>1. PICK j \in DOMAIN rorder' : rorder'[j] = rorder[k]
      BY <1>2, <1>12
    <3> QED
      BY <1>6, <3>1 DEF Routes
  <2>3. \A e \in Routes : e.destip = key => stale(e) \/ flag = 1
    BY <1>2, <1>18 DEF Routes
  <2> QED
    BY <2>1, <2>2, <2>3 DEF after_r_lookup
<1>22. Queue' = Queue
  BY <1>6, ZenonT(30) DEF Queue
<1> QED
  BY <1>15, <1>16, <1>19, <1>20, <1>21, <1>22, ZenonT(30) DEF LInv

\* What a frame makes of the entry for its source.
New == update_r_entry(news, news.if_no, news.next_hop)

\* An entry is found; a frame may replace what it says.
LEMMA RouteFoundStep ==
  ASSUME LInv, RouteFound
  PROVE  /\ LInv' /\ Queue' = Queue
         /\ after_r_lookup(Routes, key, flag) = Routes
         /\ \E e \in Routes :
              /\ got_r_entry(Routes, key, flag) = {e}
              /\ IF pc = "learn" /\ check_r_entry(news, e)
                 THEN Routes' = (Routes \ {e}) \cup {New} /\ answer' = {New}
                 ELSE Routes' = Routes /\ answer' = {e}
<1>1. PICK i \in DOMAIN rorder : curr = rorder[i]
  BY DEF LInv, Calls, RouteSearch, RouteFound, InRoutes, RouteHit
<1> DEFINE e == data[rorder[i]]
<1>2. e.destip = key /\ ~stale(e) /\ flag # 1
  BY <1>1 DEF RouteFound, RouteHit
<1>3. /\ data = [x \in Addr |-> data[x]] /\ rorder[i] \in Addr
  BY ListFacts DEF LInv, HeapType
<1>4. UNCHANGED <<used, next, prev, rhead, phead, rorder, porder>>
  BY DEF RouteFound
<1>5. pc' = "idle" /\ key' = NULL /\ flag' = 0 /\ news' = Nothing
  BY DEF RouteFound, Return
<1>6. Calls'
  BY <1>5 DEF Calls
<1>7. \A k \in DOMAIN rorder : data[rorder[k]].destip = key => k = i
  BY <1>2 DEF LInv, RouteData
<1>8. got_r_entry(Routes, key, flag) = {e} /\ after_r_lookup(Routes, key, flag) = Routes
  BY <1>2, <1>7 DEF got_r_entry, after_r_lookup, Routes
<1>9. ListsLinked'
  BY <1>4 DEF LInv, ListsLinked, Linked
<1>10. CASE pc = "learn" /\ check_r_entry(news, e)
  <2>1. data' = [data EXCEPT ![rorder[i]] = New] /\ answer' = {data'[rorder[i]]}
    BY <1>1, <1>10 DEF RouteFound, Return, New
  <2>2. \A x \in Addr : data'[x] = IF x = rorder[i] THEN New ELSE data[x]
    BY <1>3, <2>1
  <2>3. data' = [x \in Addr |-> data'[x]]
    BY <1>3, <2>1
  <2>4. HeapType'
    BY <1>4, <2>3 DEF LInv, HeapType
  <2>5. IsEntry(New) /\ New.destip = key
    BY <1>10 DEF New, update_r_entry, IsEntry, LInv, Calls
  <2>6. \A k \in DOMAIN rorder : data'[rorder[k]] = IF k = i THEN New ELSE data[rorder[k]]
    BY <2>2, ListFacts, ZenonT(30) DEF Chain
  <2> HIDE DEF e
  <2>7. RouteData'
    <3>1. \A k \in DOMAIN rorder : data'[rorder[k]].destip = data[rorder[k]].destip
      BY <1>2, <2>5, <2>6 DEF e
    <3>2. \A k \in DOMAIN rorder : IsEntry(data'[rorder[k]])
      BY <2>5, <2>6, ZenonT(30) DEF LInv, RouteData
    <3> QED
      BY <1>4, <3>1, <3>2 DEF LInv, RouteData, IsEntry
  <2>8. Queue' = Queue
    <3>1. \A k \in DOMAIN porder : data'[porder[k]] = data[porder[k]]
      BY <2>2, ListFacts
    <3> QED
      BY <1>4, <3>1, ZenonT(30) DEF Queue
  <2>9. Routes' = (Routes \ {e}) \cup {New}
    <3>1. \A k \in DOMAIN rorder : k # i => data[rorder[k]] # e
      BY <1>2, <1>7 DEF e
    <3> QED
      BY <1>4, <2>6, <3>1 DEF Routes, e
  <2>10. e \in Routes
    BY DEF Routes, e
  <2>11. answer' = {New}
    BY <1>3, <2>1, <2>2, ZenonT(30)
  <2> QED
    BY <1>6, <1>8, <1>9, <1>10, <2>4, <2>7, <2>8, <2>9, <2>10, <2>11 DEF LInv
<1>11. CASE ~(pc = "learn" /\ check_r_entry(news, e))
  <2>1. data' = data /\ answer' = {e}
    BY <1>1, <1>11 DEF RouteFound, Return
  <2>2. HeapType' /\ RouteData'
    BY <1>4, <2>1, Zenon DEF LInv, HeapType, RouteData, IsEntry
  <2>3. Queue' = Queue /\ Routes' = Routes /\ e \in Routes
    BY <1>4, <2>1 DEF Queue, Routes
  <2> QED
    BY <1>6, <1>8, <1>9, <1>11, <2>1, <2>2, <2>3 DEF LInv
<1> QED
  BY <1>10, <1>11, ZenonT(30)

\* The new cell is in front of o, and q is as it was.
Inserted(o, q, g, value) ==
  /\ Chain(<<used + 1>> \o o, used + 1, next', prev', used')
  /\ Chain(q, g, next', prev', used')
  /\ <<used + 1>> \o o \in Seq(Addr)
  /\ used' \in 0 .. MaxAlloc /\ next' \in Pointers /\ prev' \in Pointers
  /\ data' = [x \in Addr |-> data'[x]]
  /\ \A x \in Addr : data'[x] = IF x = used + 1 THEN value ELSE data[x]
  /\ \A x \in Addr : x > used' => prev'[x] = NULL
  /\ prev'[used + 1] = NULL
  /\ \A j \in DOMAIN q : q[j] # used + 1 /\ prev'[q[j]] = prev[q[j]]

\* A cell in front of a list, in terms of Chain and of the other list.
LEMMA InsertCellFacts ==
  ASSUME LInv, used < MaxAlloc, NEW value,
         NEW o \in Seq(Addr), NEW h, Chain(o, h, next, prev, used),
         NEW q \in Seq(Addr), NEW g, Chain(q, g, next, prev, used),
         \A i \in DOMAIN o, j \in DOMAIN q : o[i] # q[j],
         InsertCell(h, value)
  PROVE  Inserted(o, q, g, value)
<1>1. /\ next \in Pointers /\ prev \in Pointers /\ used \in 0 .. MaxAlloc /\ used \in Nat
      /\ data = [x \in Addr |-> data[x]] /\ MaxAlloc \in Nat
      /\ \A x \in Addr : x > used => prev[x] = NULL
  BY AllocAssumption DEF LInv, HeapType
<1>2. /\ used' = used + 1
      /\ data' = [data EXCEPT ![used + 1] = value]
      /\ next' = [next EXCEPT ![used + 1] = h]
      /\ prev' = IF h # NULL THEN [prev EXCEPT ![h] = used + 1] ELSE prev
  BY DEF InsertCell
<1>3. used + 1 \in Addr
  BY <1>1 DEF Addr
<1>4. /\ Len(o) \in Nat /\ DOMAIN o = 1 .. Len(o) /\ (o = <<>> <=> Len(o) = 0)
      /\ \A i \in DOMAIN o : o[i] \in Addr
  BY LenProperties, EmptySeq, ElementOfSeq
<1>5. DOMAIN q = 1 .. Len(q) /\ Len(q) \in Nat /\ \A j \in DOMAIN q : q[j] \in Addr
  BY LenProperties, ElementOfSeq
<1>6. h = NULL \/ \E i \in DOMAIN o : h = o[i]
  BY <1>4 DEF Chain
<1>7. h \in 0 .. MaxAlloc /\ h # used + 1
  <2>1. \A i \in DOMAIN o : o[i] \in 1 .. used
    BY DEF Chain
  <2> QED
    BY <1>1, <1>6, <2>1 DEF NULL
<1>8. Chain(<<used + 1>> \o o, used + 1, next', prev', used')
  BY <1>1, <1>2, ChainInsert, Zenon
<1>9. \A y \in Addr : /\ next'[y] = IF y = used + 1 THEN h ELSE next[y]
                      /\ prev'[y] = IF h # NULL /\ y = h THEN used + 1 ELSE prev[y]
  <2>1. h # NULL => h \in Addr
    BY <1>4, <1>6
  <2> QED
    BY <1>1, <1>2, <1>3, <2>1 DEF Pointers
<1>10. \A j \in DOMAIN q : q[j] # used + 1 /\ (h # NULL => q[j] # h)
  <2>1. \A j \in DOMAIN q : q[j] \in 1 .. used
    BY DEF Chain
  <2> QED
    BY <1>1, <1>6, <2>1
<1>11. Chain(q, g, next', prev', used')
  <2>1. \A j \in DOMAIN q : next'[q[j]] = next[q[j]] /\ (j > 1 => prev'[q[j]] = prev[q[j]])
    BY <1>5, <1>9, <1>10
  <2>2. used' \in Nat /\ used <= used'
    BY <1>1, <1>2
  <2> QED
    BY <1>1, <2>1, <2>2, ChainKept
<1>12. <<used + 1>> \o o \in Seq(Addr)
  BY <1>3, FrontFacts
<1>13. used' \in 0 .. MaxAlloc /\ next' \in Pointers /\ prev' \in Pointers
  <2>1. used + 1 \in 0 .. MaxAlloc
    BY <1>1
  <2> QED
    BY <1>1, <1>2, <1>7, <2>1, Zenon DEF Pointers
<1>14. /\ data' = [x \in Addr |-> data'[x]]
       /\ \A x \in Addr : data'[x] = IF x = used + 1 THEN value ELSE data[x]
  BY <1>1, <1>2, <1>3, Zenon
<1>15. \A x \in Addr : x > used' => prev'[x] = NULL
  <2> SUFFICES ASSUME NEW x \in Addr, x > used + 1 PROVE prev'[x] = NULL
    BY <1>2
  <2>1. x > used /\ (h # NULL => x # h)
    <3>1. \A i \in DOMAIN o : o[i] \in 1 .. used
      BY DEF Chain
    <3> QED
      BY <1>1, <1>6, <3>1 DEF Addr
  <2> QED
    BY <1>1, <1>9, <2>1
<1>16. prev'[used + 1] = NULL
  <2>1. used + 1 > used
    BY <1>1
  <2> QED
    BY <1>1, <1>3, <1>7, <1>9, <2>1, ZenonT(30)
<1> QED
  BY <1>5, <1>8, <1>9, <1>10, <1>11, <1>12, <1>13, <1>14, <1>15, <1>16 DEF Inserted

\* An entry for a source that has none.
LEMMA InsertRouteStep ==
  ASSUME LInv, insert_r_entry
  PROVE  /\ LInv' /\ Queue' = Queue
         /\ after_r_lookup(Routes, key, flag) = Routes
         /\ got_r_entry(Routes, key, flag) = {}
         /\ Routes' = Routes \cup {New} /\ answer' = {New}
<1> DEFINE x == used + 1
<1>1. /\ pc = "learn" /\ curr = NULL /\ InsertCell(rhead, New) /\ rhead' = x
      /\ rorder' = <<x>> \o rorder /\ phead' = phead /\ porder' = porder
      /\ pc' = "idle" /\ key' = NULL /\ flag' = 0 /\ news' = Nothing /\ answer' = {New}
  BY ZenonT(30) DEF insert_r_entry, Return, New
<1>2. \A i \in DOMAIN rorder : data[rorder[i]].destip # key
  BY <1>1, ListFacts DEF LInv, Calls, RouteSearch
<1>3. used < MaxAlloc /\ key = news.src_ip /\ flag = 0
  BY <1>1 DEF LInv, Calls
<1>4. rorder \in Seq(Addr) /\ porder \in Seq(Addr) /\ used \in Nat
  BY ListFacts DEF LInv, HeapType
<1>5. /\ Chain(rorder', rhead', next', prev', used')
      /\ Chain(porder', phead', next', prev', used')
      /\ rorder' \in Seq(Addr)
      /\ used' \in 0 .. MaxAlloc /\ next' \in Pointers /\ prev' \in Pointers
      /\ data' = [y \in Addr |-> data'[y]]
      /\ \A y \in Addr : data'[y] = IF y = x THEN New ELSE data[y]
      /\ \A y \in Addr : y > used' => prev'[y] = NULL
      /\ prev'[x] = NULL
      /\ \A j \in DOMAIN porder : porder[j] # x
  <2>1. Chain(rorder, rhead, next, prev, used) /\ Chain(porder, phead, next, prev, used)
    BY ListFacts
  <2>2. \A i \in DOMAIN rorder, j \in DOMAIN porder : rorder[i] # porder[j]
    BY ListFacts
  <2>3. Inserted(rorder, porder, phead, New)
    BY <1>1, <1>3, <1>4, <2>1, <2>2, InsertCellFacts
  <2> QED
    BY <1>1, <2>3 DEF Inserted
<1>6. HeapType'
  BY <1>1, <1>4, <1>5 DEF HeapType
<1>7. /\ Len(rorder) \in Nat /\ DOMAIN rorder = 1 .. Len(rorder)
      /\ DOMAIN rorder' = 1 .. (Len(rorder) + 1)
      /\ rorder'[1] = x /\ \A i \in 2 .. (Len(rorder) + 1) : rorder'[i] = rorder[i - 1]
  <2>1. x \in Addr
    BY <1>3, <1>4, ListFacts DEF Addr
  <2> QED
    BY <1>1, <1>4, <1>5, <2>1, FrontFacts, LenProperties
<1>8. \A i \in DOMAIN rorder' : i = 1 \/ (i - 1 \in DOMAIN rorder /\ rorder'[i] = rorder[i - 1])
  BY <1>7
<1>9. \A i \in DOMAIN rorder : rorder[i] \in Addr /\ rorder[i] # x
  <2>1. \A i \in DOMAIN rorder : rorder[i] \in 1 .. used
    BY ListFacts DEF Chain
  <2> QED
    BY <1>4, <2>1, ListFacts
<1>10. ListsLinked'
  <2>1. \A i \in DOMAIN rorder', j \in DOMAIN porder' : rorder'[i] # porder'[j]
    BY <1>1, <1>5, <1>7, <1>8, ListFacts
  <2> QED
    BY <1>1, <1>5, <2>1, MakeLists, ZenonT(30)
<1>11. /\ data'[rorder'[1]] = New
       /\ \A i \in DOMAIN rorder : data'[rorder[i]] = data[rorder[i]]
  <2>1. x \in Addr
    BY <1>3, <1>4, ListFacts DEF Addr
  <2> QED
    BY <1>5, <1>7, <1>9, <2>1, ZenonT(30)
<1>12. IsEntry(New) /\ New.destip = key
  BY <1>3, ZenonT(30) DEF New, update_r_entry, IsEntry
<1> HIDE DEF x
<1>13. RouteData'
  <2>1. \A i \in DOMAIN rorder' : IsEntry(data'[rorder'[i]])
    BY <1>8, <1>11, <1>12 DEF LInv, RouteData
  <2>2. ASSUME NEW i \in DOMAIN rorder', NEW j \in DOMAIN rorder',
               data'[rorder'[i]].destip = data'[rorder'[j]].destip
        PROVE  i = j
    <3>1. CASE i = 1 \/ j = 1
      BY <1>2, <1>8, <1>11, <1>12, <2>2, <3>1
    <3>2. CASE i # 1 /\ j # 1
      <4>1. i - 1 = j - 1
        BY <1>8, <1>11, <2>2, <3>2 DEF LInv, RouteData
      <4> QED
        BY <1>7, <4>1
    <3> QED
      BY <3>1, <3>2
  <2> QED
    BY <2>1, <2>2 DEF RouteData, IsEntry
<1>14. Calls'
  BY <1>1 DEF Calls
<1>15. after_r_lookup(Routes, key, flag) = Routes /\ got_r_entry(Routes, key, flag) = {}
  BY <1>2 DEF Routes, after_r_lookup, got_r_entry
<1>16. Routes' = Routes \cup {New}
  <2>1. \A r \in Routes' : r \in Routes \cup {New}
    BY <1>8, <1>11 DEF Routes
  <2>2. New \in Routes'
    BY <1>7, <1>11 DEF Routes
  <2>3. ASSUME NEW i \in DOMAIN rorder PROVE data[rorder[i]] \in Routes'
    <3>1. i + 1 \in DOMAIN rorder' /\ rorder'[i + 1] = rorder[i]
      BY <1>7
    <3> QED
      BY <1>11, <3>1 DEF Routes
  <2> QED
    BY <2>1, <2>2, <2>3 DEF Routes
<1>17. Queue' = Queue
  <2>1. \A j \in DOMAIN porder : data'[porder[j]] = data[porder[j]]
    BY <1>5, ListFacts
  <2> QED
    BY <1>1, <2>1 DEF Queue
<1> QED
  BY <1>1, <1>6, <1>10, <1>13, <1>14, <1>15, <1>16, <1>17 DEF LInv

\* A frame is parked.
LEMMA InsertPendingStep ==
  ASSUME LInv, NEW f, insert_pending_queue(f)
  PROVE  LInv' /\ Routes' = Routes /\ Queue' = <<f>> \o Queue
<1> DEFINE x == used + 1
<1>1. /\ pc = "idle" /\ used < MaxAlloc /\ InsertCell(phead, f) /\ phead' = x
      /\ porder' = <<x>> \o porder /\ rhead' = rhead /\ rorder' = rorder
      /\ UNCHANGED <<pc, key, flag, news>>
  BY DEF insert_pending_queue, call
<1>2. rorder \in Seq(Addr) /\ porder \in Seq(Addr) /\ used \in Nat /\ x \in Addr
  BY <1>1, ListFacts DEF LInv, HeapType, Addr
<1>3. /\ Chain(porder', phead', next', prev', used')
      /\ Chain(rorder', rhead', next', prev', used')
      /\ porder' \in Seq(Addr)
      /\ used' \in 0 .. MaxAlloc /\ next' \in Pointers /\ prev' \in Pointers
      /\ data' = [y \in Addr |-> data'[y]]
      /\ \A y \in Addr : data'[y] = IF y = x THEN f ELSE data[y]
      /\ \A y \in Addr : y > used' => prev'[y] = NULL
      /\ \A j \in DOMAIN rorder : rorder[j] # x /\ prev'[rorder[j]] = prev[rorder[j]]
  <2>1. Chain(rorder, rhead, next, prev, used) /\ Chain(porder, phead, next, prev, used)
    BY ListFacts
  <2>2. \A i \in DOMAIN porder, j \in DOMAIN rorder : porder[i] # rorder[j]
    BY ListFacts
  <2>3. Inserted(porder, rorder, rhead, f)
    BY <1>1, <1>2, <2>1, <2>2, InsertCellFacts
  <2> QED
    BY <1>1, <2>3 DEF Inserted
<1>4. HeapType'
  BY <1>1, <1>2, <1>3 DEF HeapType
<1>5. /\ Len(porder) \in Nat /\ DOMAIN porder = 1 .. Len(porder)
      /\ Len(porder') = Len(porder) + 1 /\ DOMAIN porder' = 1 .. (Len(porder) + 1)
      /\ porder'[1] = x /\ \A i \in 2 .. (Len(porder) + 1) : porder'[i] = porder[i - 1]
  BY <1>1, <1>2, <1>3, FrontFacts, LenProperties
<1>6. \A i \in DOMAIN porder' : i = 1 \/ (i - 1 \in DOMAIN porder /\ porder'[i] = porder[i - 1])
  BY <1>5
<1>7. ListsLinked'
  <2>1. \A i \in DOMAIN rorder', j \in DOMAIN porder' : rorder'[i] # porder'[j]
    BY <1>1, <1>3, <1>5, <1>6, ListFacts
  <2>2. rorder' # <<>> => prev'[rhead'] = NULL
    <3>1. rorder # <<>> => 1 \in DOMAIN rorder /\ rhead = rorder[1] /\ prev[rhead] = NULL
      BY ListFacts DEF Chain
    <3> QED
      BY <1>1, <1>3, <3>1
  <2> QED
    BY <1>3, <2>1, <2>2, MakeLists, ZenonT(30)
<1>8. \A i \in DOMAIN rorder : data'[rorder[i]] = data[rorder[i]]
  BY <1>3, ListFacts, ZenonT(30)
<1>9. RouteData' /\ Routes' = Routes
  BY <1>1, <1>8 DEF LInv, RouteData, IsEntry, Routes
<1>10. Calls'
  BY <1>1 DEF LInv, Calls
<1>11. Queue' = <<f>> \o Queue
  <2> DEFINE D == {data[y] : y \in Addr} \cup {f}
  <2>1. /\ Queue \in Seq(D) /\ Len(Queue) = Len(porder)
        /\ \A i \in 1 .. Len(porder) : Queue[i] = data[porder[i]]
    <3>1. \A i \in DOMAIN porder : data[porder[i]] \in D
      BY ListFacts
    <3> HIDE DEF D
    <3> QED
      BY <1>2, <3>1, ImageSeq, ZenonT(30) DEF Queue
  <2>2. \A i \in DOMAIN porder' : data'[porder'[i]] =
          IF i = 1 THEN f ELSE data[porder[i - 1]]
    <3>1. \A i \in DOMAIN porder : porder[i] \in Addr /\ porder[i] # x
      <4>1. \A i \in DOMAIN porder : porder[i] \in 1 .. used
        BY ListFacts DEF Chain
      <4> QED
        BY <1>2, <4>1, ListFacts
    <3> HIDE DEF x
    <3> QED
      BY <1>2, <1>3, <1>5, <1>6, <3>1
  <2>3. /\ Queue' \in Seq(D) /\ Len(Queue') = Len(porder')
        /\ \A i \in 1 .. Len(porder') : Queue'[i] = data'[porder'[i]]
    <3>1. \A i \in DOMAIN porder' : data'[porder'[i]] \in D
      BY <1>6, <2>2, ListFacts
    <3> HIDE DEF D
    <3> QED
      BY <1>3, <3>1, ImageSeq DEF Queue
  <2>4. f \in D
    OBVIOUS
  <2> HIDE DEF D
  <2>5. /\ <<f>> \o Queue \in Seq(D)
        /\ Len(<<f>> \o Queue) = Len(Queue) + 1
        /\ (<<f>> \o Queue)[1] = f
        /\ \A i \in 2 .. (Len(Queue) + 1) : (<<f>> \o Queue)[i] = Queue[i - 1]
    BY <2>1, <2>4, FrontFacts
  <2>6. ASSUME NEW i \in 1 .. Len(Queue') PROVE Queue'[i] = (<<f>> \o Queue)[i]
    <3>1. CASE i = 1
      BY <1>5, <2>2, <2>3, <2>5, <3>1, Zenon
    <3>2. CASE i # 1
      <4>1. i \in 2 .. (Len(Queue) + 1) /\ i - 1 \in 1 .. Len(porder) /\ i \in DOMAIN porder'
        BY <1>5, <2>1, <2>3, <3>2
      <4>2. Queue'[i] = data'[porder'[i]] /\ data'[porder'[i]] = data[porder[i - 1]]
        BY <2>2, <2>3, <3>2, <4>1
      <4>3. (<<f>> \o Queue)[i] = Queue[i - 1] /\ Queue[i - 1] = data[porder[i - 1]]
        BY <2>1, <2>5, <4>1, ZenonT(30)
      <4> QED
        BY <4>2, <4>3, ZenonT(30)
    <3> QED
      BY <3>1, <3>2, Zenon
  <2> QED
    BY <1>5, <2>1, <2>3, <2>5, <2>6, SeqEqual, ZenonT(30)
<1> QED
  BY <1>4, <1>7, <1>9, <1>10, <1>11 DEF LInv

\* A parked frame is released.
LEMMA PendingFoundStep ==
  ASSUME LInv, PendingFound
  PROVE  /\ LInv' /\ Routes' = Routes
         /\ \E i \in DOMAIN Queue :
              /\ lookup_pending_queue(Queue, i, key)
              /\ Queue' = remove_pending(Queue, i)
              /\ answer' = {Queue[i]}
<1>1. PICK i \in DOMAIN porder :
        /\ curr = porder[i]
        /\ \A j \in DOMAIN porder : j < i => data[porder[j]].dest_ip # key
  BY DEF LInv, Calls, PendingSearch, PendingFound, PendingHit
<1>2. /\ data[porder[i]].dest_ip = key /\ answer' = {data[porder[i]]}
      /\ UNCHANGED <<used, data, rhead, rorder>>
      /\ pc' = "idle" /\ key' = NULL /\ flag' = 0 /\ news' = Nothing
  BY <1>1 DEF PendingFound, PendingHit, Return
<1>3. /\ rorder \in Seq(Addr) /\ porder \in Seq(Addr) /\ i \in 1 .. Len(porder)
      /\ next \in Pointers /\ prev \in Pointers /\ used \in 0 .. MaxAlloc
      /\ data = [x \in Addr |-> data[x]] /\ \A x \in Addr : x > used => prev[x] = NULL
  BY ListFacts DEF LInv, HeapType
<1>4. /\ \A j, k \in DOMAIN porder : porder[j] = porder[k] => j = k
      /\ porder[1] = phead /\ 1 \in DOMAIN porder
  BY ListFacts DEF Chain
<1>5. porder' = remove_pending(porder, i)
  <2>1. porder' = Without(porder, porder[i])
    BY <1>1, ZenonT(30) DEF PendingFound
  <2> QED
    BY <1>3, <1>4, <2>1, WithoutFacts, ZenonT(30)
<1>6. /\ next' \in Pointers /\ prev' \in Pointers
      /\ LinkedPast(porder, i, next, prev, next', prev')
      /\ \A y \in Addr : (\A k \in DOMAIN porder : porder[k] # y) =>
           next'[y] = next[y] /\ prev'[y] = prev[y]
      /\ phead' = IF i = 1 THEN next[porder[i]] ELSE phead
  <2>1. CASE i = 1
    <3>1. next' = [next EXCEPT ![porder[1]] = NULL] /\ prev' = prev /\ phead' = next[porder[1]]
      BY <1>1, <1>4, <2>1 DEF PendingFound
    <3>2. NULL \in 0 .. MaxAlloc /\ porder[1] \in Addr
      BY <1>4, ListFacts DEF NULL
    <3>3. next' \in Pointers /\ \A y \in Addr : y # porder[1] => next'[y] = next[y]
      BY <1>3, <3>1, <3>2, ZenonT(30) DEF Pointers
    <3>4. \A k \in DOMAIN porder : k # 1 => next'[porder[k]] = next[porder[k]] /\ k # 0
      BY <1>4, <3>3, ListFacts
    <3>5. LinkedPast(porder, i, next, prev, next', prev')
      BY <2>1, <3>1, <3>4 DEF LinkedPast
    <3> QED
      BY <1>3, <1>4, <2>1, <3>1, <3>3, <3>5, ZenonT(30)
  <2>2. CASE i # 1
    <3>1. PastCell(porder[i], next, prev, next', prev') /\ phead' = phead
      BY <1>1, <1>4, <2>2 DEF PendingFound, LinkPast, PastCell
    <3>2. Chain(porder, phead, next, prev, used) /\ used \in Nat
      BY ListFacts
    <3>3. CleanPast(porder, i, next, prev, next', prev')
      BY <1>3, <2>2, <3>1, <3>2, LinkPastFacts, ZenonT(30)
    <3> QED
      BY <2>2, <3>1, <3>3 DEF CleanPast
  <2> QED
    BY <2>1, <2>2
<1>7. Chain(porder', phead', next', prev', used')
  BY <1>2, <1>3, <1>5, <1>6, ListFacts, ChainUnlink
<1>8. \A j \in DOMAIN rorder :
        next'[rorder[j]] = next[rorder[j]] /\ prev'[rorder[j]] = prev[rorder[j]]
  BY <1>6, ListFacts, ZenonT(30)
<1>9. Chain(rorder', rhead', next', prev', used')
  <2>1. used \in Nat /\ used <= used /\ Chain(rorder, rhead, next, prev, used)
    BY ListFacts
  <2>2. Chain(rorder, rhead, next', prev', used)
    BY <1>8, <2>1, ChainKept
  <2> QED
    BY <1>2, <2>2, ZenonT(30)
<1>10. rorder' # <<>> => prev'[rhead'] = NULL
  <2>1. rorder # <<>> => 1 \in DOMAIN rorder /\ rhead = rorder[1] /\ prev[rhead] = NULL
    BY ListFacts DEF Chain
  <2> QED
    BY <1>2, <1>8, <2>1
<1>11. /\ porder' \in Seq(Addr) /\ Len(porder') = Len(porder) - 1
       /\ \A j \in 1 .. (Len(porder) - 1) :
            porder'[j] = IF j < i THEN porder[j] ELSE porder[j + 1]
       /\ \A j \in DOMAIN porder' : \E k \in DOMAIN porder : k # i /\ porder'[j] = porder[k]
  BY <1>3, <1>5, RemoveFacts, RemoveElements, ZenonT(30)
<1>12. \A j \in DOMAIN rorder', k \in DOMAIN porder' : rorder'[j] # porder'[k]
  BY <1>2, <1>11, ListFacts
<1>13. ListsLinked'
  BY <1>7, <1>9, <1>10, <1>12, MakeLists, ZenonT(30)
<1>14. HeapType'
  <2>1. \A x \in Addr : x > used' => prev'[x] = NULL
    <3> SUFFICES ASSUME NEW x \in Addr, x > used PROVE prev'[x] = NULL
      BY <1>2
    <3>1. \A k \in DOMAIN porder : porder[k] # x
      BY ListFacts DEF Chain, Addr
    <3> QED
      BY <1>3, <1>6, <3>1
  <2> QED
    BY <1>2, <1>3, <1>6, <1>11, <2>1 DEF HeapType
<1>15. RouteData' /\ Calls' /\ Routes' = Routes
  BY <1>2 DEF LInv, RouteData, IsEntry, Calls, Routes
<1>16. i \in DOMAIN Queue /\ lookup_pending_queue(Queue, i, key) /\ answer' = {Queue[i]}
  <2>1. DOMAIN Queue = DOMAIN porder /\ \A j \in DOMAIN porder : Queue[j] = data[porder[j]]
    BY DEF Queue
  <2>2. \A j \in 1 .. (i - 1) : j \in DOMAIN porder /\ j < i
    BY ListFacts
  <2> QED
    BY <1>1, <1>2, <2>1, <2>2 DEF lookup_pending_queue
<1>17. Queue' = remove_pending(Queue, i)
  <2> DEFINE D == {data[y] : y \in Addr}
  <2>1. /\ Queue \in Seq(D) /\ Len(Queue) = Len(porder)
        /\ \A j \in 1 .. Len(porder) : Queue[j] = data[porder[j]]
    <3>1. \A j \in DOMAIN porder : data[porder[j]] \in D
      BY ListFacts
    <3> HIDE DEF D
    <3> QED
      BY <1>3, <3>1, ImageSeq, Zenon DEF Queue
  <2>2. /\ Queue' \in Seq(D) /\ Len(Queue') = Len(porder')
        /\ \A j \in 1 .. Len(porder') : Queue'[j] = data'[porder'[j]]
    <3>1. \A j \in DOMAIN porder' : data'[porder'[j]] \in D
      BY <1>2, <1>11, ListFacts, ZenonT(30)
    <3> HIDE DEF D
    <3> QED
      BY <1>11, <3>1, ImageSeq, Zenon DEF Queue
  <2> HIDE DEF D
  <2>3. /\ remove_pending(Queue, i) \in Seq(D)
        /\ Len(remove_pending(Queue, i)) = Len(porder) - 1
        /\ \A j \in 1 .. (Len(porder) - 1) :
             remove_pending(Queue, i)[j] = IF j < i THEN Queue[j] ELSE Queue[j + 1]
    <3>1. i \in 1 .. Len(Queue)
      BY <1>3, <2>1
    <3> QED
      BY <2>1, <3>1, RemoveFacts
  <2>4. ASSUME NEW j \in 1 .. Len(Queue') PROVE Queue'[j] = remove_pending(Queue, i)[j]
    <3>1. j \in 1 .. (Len(porder) - 1) /\ j \in 1 .. Len(porder) /\ j + 1 \in 1 .. Len(porder)
      BY <1>11, <2>2, ListFacts
    <3>2. Queue'[j] = data[porder'[j]]
      BY <1>2, <1>11, <2>2, <3>1, ZenonT(30)
    <3>3. CASE j < i
      BY <1>11, <2>1, <2>3, <3>1, <3>2, <3>3, ZenonT(30)
    <3>4. CASE ~(j < i)
      <4>1. porder'[j] = porder[j + 1] /\ remove_pending(Queue, i)[j] = Queue[j + 1]
        BY <1>11, <2>3, <3>1, <3>4, ZenonT(30)
      <4> QED
        BY <2>1, <3>1, <3>2, <4>1, ZenonT(30)
    <3> QED
      BY <3>3, <3>4, ZenonT(30)
  <2> QED
    BY <1>11, <2>2, <2>3, <2>4, SeqEqual
<1> QED
  BY <1>13, <1>14, <1>15, <1>16, <1>17, ZenonT(30) DEF LInv

\* A search that finds nothing.
LEMMA MissedStep ==
  ASSUME LInv, RouteMissed \/ PendingMissed
  PROVE  /\ LInv' /\ Routes' = Routes /\ Queue' = Queue
         /\ pc = "peek" => \A e \in Routes : e.destip # key
         /\ pc = "release" => \A i \in DOMAIN Queue : Queue[i].dest_ip # key
<1>1. /\ UNCHANGED heap /\ pc' = "idle" /\ key' = NULL /\ flag' = 0 /\ news' = Nothing
      /\ curr = NULL /\ pc \in {"peek", "release"}
  BY DEF RouteMissed, PendingMissed, Return
<1>2. HeapType' /\ ListsLinked' /\ RouteData'
  BY <1>1, SameHeap
<1>3. Calls'
  BY <1>1 DEF Calls
<1>4. Routes' = Routes /\ Queue' = Queue
  BY <1>1, ZenonT(30) DEF heap, Routes, Queue
<1>5. pc = "peek" => \A i \in DOMAIN rorder : data[rorder[i]].destip # key
  BY <1>1, ListFacts, ZenonT(30) DEF LInv, Calls, RouteSearch
<1>6. pc = "release" => \A i \in DOMAIN porder : data[porder[i]].dest_ip # key
  BY <1>1, ListFacts DEF LInv, Calls, PendingSearch
<1> QED
  BY <1>2, <1>3, <1>4, <1>5, <1>6 DEF LInv, Routes, Queue

\* The clock.
LEMMA AgeStep ==
  ASSUME LInv, Age
  PROVE  LInv' /\ Routes' = {aged(e) : e \in Routes} /\ Queue' = Queue
<1>1. /\ data' = [x \in Addr |-> IF \E i \in DOMAIN rorder : rorder[i] = x
                                 THEN aged(data[x]) ELSE data[x]]
      /\ UNCHANGED <<used, next, prev, rhead, phead, rorder, porder, pc, key, flag, news>>
      /\ pc = "idle"
  BY ZenonT(30) DEF Age, call
<1>2. HeapType' /\ ListsLinked'
  BY <1>1 DEF LInv, HeapType, ListsLinked, Linked
<1>3. /\ \A i \in DOMAIN rorder : data'[rorder[i]] = aged(data[rorder[i]])
      /\ \A i \in DOMAIN porder : data'[porder[i]] = data[porder[i]]
  BY <1>1, ListFacts
<1>4. ASSUME NEW e, IsEntry(e) PROVE IsEntry(aged(e)) /\ aged(e).destip = e.destip
  <2>1. e = [destip |-> e.destip, next_hop |-> e.next_hop, if_no |-> e.if_no,
             no_hops |-> e.no_hops, broadcast_id |-> e.broadcast_id, age |-> e.age]
    BY <1>4, ZenonT(30) DEF IsEntry
  <2> QED
    BY <2>1 DEF IsEntry, aged
<1>5. RouteData'
  <2>1. \A i \in DOMAIN rorder : IsEntry(data[rorder[i]])
    BY ZenonT(30) DEF LInv, RouteData
  <2>2. \A i \in DOMAIN rorder : /\ IsEntry(data'[rorder[i]])
                                 /\ data'[rorder[i]].destip = data[rorder[i]].destip
    BY <1>3, <1>4, <2>1
  <2>3. \A i, j \in DOMAIN rorder :
          data[rorder[i]].destip = data[rorder[j]].destip => i = j
    BY DEF LInv, RouteData
  <2>4. rorder' = rorder
    BY <1>1
  <2>5. \A i, j \in DOMAIN rorder :
          data'[rorder[i]].destip = data'[rorder[j]].destip => i = j
    BY <2>2, <2>3, ZenonT(30)
  <2> QED
    BY <2>2, <2>4, <2>5 DEF RouteData, IsEntry
<1>6. Calls'
  BY <1>1, ZenonT(30) DEF LInv, Calls
<1>7. Routes' = {aged(e) : e \in Routes}
  BY <1>1, <1>3 DEF Routes
<1>8. Queue' = Queue
  BY <1>1, <1>3 DEF Queue
<1> QED
  BY <1>2, <1>5, <1>6, <1>7, <1>8, ZenonT(30) DEF LInv

-----------------------------------------------------------------------------
(* The theorems. *)

\* Two empty lists.
LEMMA InitLInv == Init => LInv
<1> SUFFICES ASSUME Init PROVE LInv
  OBVIOUS
<1>1. HeapType
  BY AllocAssumption DEF Init, HeapType, Pointers, NULL
<1>2. ListsLinked
  BY DEF Init, ListsLinked, Linked
<1>3. RouteData /\ Calls
  BY DEF Init, RouteData, Calls
<1> QED
  BY <1>1, <1>2, <1>3 DEF LInv

\* Every operation on a list keeps the invariant.
LEMMA NextLInv == LInv /\ [Next]_vars => LInv'
<1> SUFFICES ASSUME LInv, [Next]_vars PROVE LInv'
  OBVIOUS
<1>1. ASSUME NEW dst \in Dest, StartRelease(dst) \/ \E fl \in {0, 1} : StartPeek(dst, fl)
      PROVE  LInv'
  BY <1>1, StartStep DEF StartRelease, StartPeek
<1>2. ASSUME NEW f \in News, StartLearn(f) PROVE LInv'
  BY <1>2, StartStep DEF StartLearn
<1>3. ASSUME NEW f \in Parked, insert_pending_queue(f) PROVE LInv'
  BY <1>3, InsertPendingStep, Zenon
<1>4. ASSUME Search PROVE LInv'
  BY <1>4, AdvanceStep, RouteDropStep, RouteFoundStep, MissedStep, InsertRouteStep,
     PendingFoundStep DEF Search
<1>5. ASSUME Age PROVE LInv'
  BY <1>5, AgeStep
<1>6. CASE UNCHANGED vars
  <2>1. UNCHANGED heap /\ UNCHANGED <<used, data, rorder, porder, pc, key, flag, news, curr>>
    BY <1>6 DEF vars, heap, call
  <2>2. HeapType' /\ ListsLinked' /\ RouteData'
    BY <2>1, SameHeap, ZenonT(30)
  <2>3. Calls'
    BY <2>1 DEF LInv, Calls, RouteSearch, PendingSearch
  <2> QED
    BY <2>2, <2>3 DEF LInv
<1> QED
  BY <1>1, <1>2, <1>3, <1>4, <1>5, <1>6 DEF Next

\* The invariant holds for lists of every length.
LEMMA ListInvariance == Spec => []LInv
BY InitLInv, NextLInv, PTL DEF Spec

\* Both lists of a daemon stay linked in both directions, end, and share no
\* cell, however many entries are inserted, dropped and released.
THEOREM ListsStayLinked == Spec => []ListsLinked
<1>1. LInv => ListsLinked
  BY DEF LInv
<1> QED
  BY <1>1, ListInvariance, PTL

\* The operators of Tables, seen through the refinement mapping.
LEMMA SameOperators ==
  /\ \A T, k, fl : Table!got_r_entry(T, k, fl) = got_r_entry(T, k, fl)
  /\ \A T, k, fl : Table!after_r_lookup(T, k, fl) = after_r_lookup(T, k, fl)
  /\ \A f, i, h : Table!update_r_entry(f, i, h) = update_r_entry(f, i, h)
  /\ \A f, e : Table!check_r_entry(f, e) = check_r_entry(f, e)
  /\ \A e : Table!aged(e) = aged(e)
  /\ \A q, i, k : Table!lookup_pending_queue(q, i, k) = lookup_pending_queue(q, i, k)
  /\ \A q, i : Table!remove_pending(q, i) = remove_pending(q, i)
BY DEF got_r_entry, Table!got_r_entry, after_r_lookup, Table!after_r_lookup,
   update_r_entry, Table!update_r_entry, check_r_entry, Table!check_r_entry,
   aged, Table!aged, lookup_pending_queue, Table!lookup_pending_queue,
   remove_pending, Table!remove_pending, stale, Table!stale

\* The actions of the table and the queue, with the mapped state written out.
LEMMA MappedActions ==
  /\ Table!Purge <=> /\ pc \in {"peek", "learn"}
                     /\ Routes' = after_r_lookup(Routes, key, flag)
                     /\ UNCHANGED <<Queue, pc, key, flag, news, answer>>
  /\ Table!Peek <=> /\ pc = "peek"
                    /\ Routes' = after_r_lookup(Routes, key, flag)
                    /\ Table!Return(got_r_entry(Routes, key, flag))
                    /\ Queue' = Queue
  /\ Table!Learn <=>
       /\ pc = "learn"
       /\ LET src  == got_r_entry(Routes, key, flag)
              kept == after_r_lookup(Routes, key, flag)
          IN  IF \A e \in src : check_r_entry(news, e)
              THEN Routes' = (kept \ src) \cup {New} /\ Table!Return({New})
              ELSE Routes' = kept /\ Table!Return(src)
       /\ Queue' = Queue
  /\ Table!Release <=>
       /\ pc = "release"
       /\ \/ \E i \in DOMAIN Queue :
               /\ lookup_pending_queue(Queue, i, key)
               /\ Queue' = remove_pending(Queue, i)
               /\ Table!Return({Queue[i]})
          \/ /\ \A i \in DOMAIN Queue : Queue[i].dest_ip # key
             /\ Queue' = Queue
             /\ Table!Return({})
       /\ Routes' = Routes
  /\ Table!Age <=> /\ pc = "idle"
                   /\ Routes' = {aged(e) : e \in Routes}
                   /\ UNCHANGED <<Queue, pc, key, flag, news, answer>>
  /\ \A f : Table!Park(f) <=> /\ pc = "idle"
                              /\ Queue' = <<f>> \o Queue
                              /\ UNCHANGED <<Routes, pc, key, flag, news, answer>>
<1>1. Table!Purge <=> /\ pc \in {"peek", "learn"}
                      /\ Routes' = after_r_lookup(Routes, key, flag)
                      /\ UNCHANGED <<Queue, pc, key, flag, news, answer>>
  BY SameOperators, ZenonT(30) DEF Table!Purge, Table!call, Routes, Queue
<1>2. Table!Peek <=> /\ pc = "peek"
                     /\ Routes' = after_r_lookup(Routes, key, flag)
                     /\ Table!Return(got_r_entry(Routes, key, flag))
                     /\ Queue' = Queue
  BY SameOperators DEF Table!Peek, Routes, Queue
<1>3. Table!Learn <=>
        /\ pc = "learn"
        /\ LET src  == got_r_entry(Routes, key, flag)
               kept == after_r_lookup(Routes, key, flag)
           IN  IF \A e \in src : check_r_entry(news, e)
               THEN Routes' = (kept \ src) \cup {New} /\ Table!Return({New})
               ELSE Routes' = kept /\ Table!Return(src)
        /\ Queue' = Queue
  BY SameOperators, ZenonT(30) DEF Table!Learn, Routes, Queue, New
<1>4. Table!Release <=>
        /\ pc = "release"
        /\ \/ \E i \in DOMAIN Queue :
                /\ lookup_pending_queue(Queue, i, key)
                /\ Queue' = remove_pending(Queue, i)
                /\ Table!Return({Queue[i]})
           \/ /\ \A i \in DOMAIN Queue : Queue[i].dest_ip # key
              /\ Queue' = Queue
              /\ Table!Return({})
        /\ Routes' = Routes
  BY SameOperators, ZenonT(30) DEF Table!Release, Routes, Queue
<1>5. Table!Age <=> /\ pc = "idle"
                    /\ Routes' = {aged(e) : e \in Routes}
                    /\ UNCHANGED <<Queue, pc, key, flag, news, answer>>
  BY SameOperators, ZenonT(30) DEF Table!Age, Table!call, Routes, Queue
<1>6. ASSUME NEW f
      PROVE  Table!Park(f) <=> /\ pc = "idle"
                               /\ Queue' = <<f>> \o Queue
                               /\ UNCHANGED <<Routes, pc, key, flag, news, answer>>
  BY DEF Table!Park, Table!call, Routes, Queue
<1> QED
  BY <1>1, <1>2, <1>3, <1>4, <1>5, <1>6, ZenonT(30)

\* A search that starts is a call.
LEMMA CallSimulation ==
  ASSUME LInv,
         \/ \E dst \in Dest : StartRelease(dst) \/ \E fl \in {0, 1} : StartPeek(dst, fl)
         \/ \E f \in News : StartLearn(f)
  PROVE  Table!Call
<1>1. UNCHANGED heap /\ answer' = answer /\ pc = "idle"
  BY ZenonT(30) DEF StartRelease, StartPeek, StartLearn
<1>2. Routes' = Routes /\ Queue' = Queue
  BY <1>1 DEF heap, Routes, Queue
<1>3. news = Nothing
  BY <1>1 DEF LInv, Calls
<1>4. \/ pc' = "peek" /\ key' \in Dest /\ flag' \in {0, 1} /\ news' = Nothing
      \/ pc' = "learn" /\ news' \in News /\ key' = news'.src_ip /\ flag' = 0
      \/ pc' = "release" /\ key' \in Dest /\ flag' = 0 /\ news' = Nothing
  BY <1>3 DEF StartRelease, StartPeek, StartLearn
<1> QED
  BY <1>1, <1>2, <1>4, ZenonT(30) DEF Table!Call, Routes, Queue

\* Every step of a list is an operation of the table or the queue, or none.
LEMMA StepSimulation == LInv /\ [Next]_vars => [Table!Next]_(Table!vars)
<1> SUFFICES ASSUME LInv, [Next]_vars PROVE Table!Next \/ UNCHANGED Table!vars
  OBVIOUS
<1>1. ASSUME UNCHANGED <<heap, call, answer>> PROVE UNCHANGED Table!vars
  <2>1. Routes' = Routes /\ Queue' = Queue
    BY <1>1 DEF heap, Routes, Queue
  <2> QED
    BY <1>1, <2>1 DEF call, Table!vars, Table!call, Routes, Queue
<1>2. CASE \/ \E dst \in Dest : StartRelease(dst) \/ \E fl \in {0, 1} : StartPeek(dst, fl)
           \/ \E f \in News : StartLearn(f)
  BY <1>2, CallSimulation DEF Table!Next
<1>3. ASSUME NEW f \in Parked, insert_pending_queue(f) PROVE Table!Next
  <2>1. pc = "idle" /\ UNCHANGED <<pc, key, flag, news, answer>>
    BY <1>3 DEF insert_pending_queue, call
  <2>2. Table!Park(f)
    BY <1>3, <2>1, InsertPendingStep, MappedActions, Zenon
  <2> QED
    BY <2>2 DEF Table!Next
<1>4. ASSUME Age PROVE Table!Next
  <2>1. pc = "idle" /\ UNCHANGED <<pc, key, flag, news, answer>>
    BY <1>4 DEF Age, call
  <2>2. Table!Age
    BY <1>4, <2>1, AgeStep, MappedActions, Zenon
  <2> QED
    BY <2>2 DEF Table!Next
<1>5. CASE RouteNext \/ PendingNext
  BY <1>1, <1>5 DEF RouteNext, PendingNext, Advance
<1>6. ASSUME RouteDrop PROVE Table!Next
  <2>1. pc \in {"peek", "learn"} /\ UNCHANGED <<pc, key, flag, news, answer>>
    BY <1>6, ZenonT(30) DEF RouteDrop, InRoutes, call
  <2>2. Table!Purge
    BY <1>6, <2>1, RouteDropStep, MappedActions, Zenon
  <2> QED
    BY <2>2 DEF Table!Next
<1>7. ASSUME RouteFound PROVE Table!Next
  <2>1. PICK e \in Routes :
          /\ got_r_entry(Routes, key, flag) = {e}
          /\ IF pc = "learn" /\ check_r_entry(news, e)
             THEN Routes' = (Routes \ {e}) \cup {New} /\ answer' = {New}
             ELSE Routes' = Routes /\ answer' = {e}
    BY <1>7, RouteFoundStep
  <2>2. after_r_lookup(Routes, key, flag) = Routes /\ Queue' = Queue
    BY <1>7, RouteFoundStep
  <2>3. Table!Return(answer')
    BY <1>7 DEF RouteFound, Return, Table!Return
  <2>4. CASE pc = "peek"
    <3>1. Table!Peek
      BY <2>1, <2>2, <2>3, <2>4, MappedActions, Zenon
    <3> QED
      BY <3>1 DEF Table!Next
  <2>5. CASE pc = "learn"
    <3>1. Table!Learn
      BY <2>1, <2>2, <2>3, <2>5, MappedActions, Zenon
    <3> QED
      BY <3>1 DEF Table!Next
  <2> QED
    BY <1>7, <2>4, <2>5 DEF RouteFound, InRoutes
<1>8. ASSUME RouteMissed PROVE Table!Next
  <2>1. pc = "peek" /\ Table!Return({})
    BY <1>8 DEF RouteMissed, Return, Table!Return
  <2>2. Routes' = Routes /\ Queue' = Queue /\ \A e \in Routes : e.destip # key
    BY <1>8, <2>1, MissedStep
  <2>3. after_r_lookup(Routes, key, flag) = Routes /\ got_r_entry(Routes, key, flag) = {}
    BY <2>2 DEF after_r_lookup, got_r_entry
  <2>4. Table!Peek
    BY <2>1, <2>2, <2>3, MappedActions, Zenon
  <2> QED
    BY <2>4 DEF Table!Next
<1>9. ASSUME insert_r_entry PROVE Table!Next
  <2>1. pc = "learn" /\ Table!Return({New})
    BY <1>9 DEF insert_r_entry, Return, Table!Return, New
  <2>2. Table!Learn
    BY <1>9, <2>1, InsertRouteStep, MappedActions, Zenon
  <2> QED
    BY <2>2 DEF Table!Next
<1>10. ASSUME PendingFound PROVE Table!Next
  <2>1. pc = "release" /\ Table!Return(answer')
    BY <1>10, ZenonT(30) DEF PendingFound, Return, Table!Return
  <2>2. Table!Release
    BY <1>10, <2>1, PendingFoundStep, MappedActions, Zenon
  <2> QED
    BY <2>2 DEF Table!Next
<1>11. ASSUME PendingMissed PROVE Table!Next
  <2>1. pc = "release" /\ Table!Return({})
    BY <1>11 DEF PendingMissed, Return, Table!Return
  <2>2. Table!Release
    BY <1>11, <2>1, MissedStep, MappedActions, Zenon
  <2> QED
    BY <2>2 DEF Table!Next
<1>12. CASE UNCHANGED vars
  BY <1>1, <1>12 DEF vars
<1> QED
  BY <1>2, <1>3, <1>4, <1>5, <1>6, <1>7, <1>8, <1>9, <1>10, <1>11, <1>12 DEF Next, Search

\* The linked lists implement the table and the queue: whatever a handler calls
\* and in whatever order, it gets the answer the set and the sequence would give.
THEOREM ListsImplementTables == Spec => TablesImplemented
<1>1. Init => Table!Init
  BY DEF Init, Table!Init
<1> QED
  BY <1>1, StepSimulation, ListInvariance, PTL DEF Spec, Table!Spec, TablesImplemented
=============================================================================
